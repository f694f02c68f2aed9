----------------------------- MODULE MCScripts -----------------------------
(***************************************************************************)
(* Inputs for Fuse and for ScriptText.  The scripts do not interact: a     *)
(* behaviour is a run of fuse_gtest_files.py, or a text that is typed      *)
(* after fuse_gtest_files.py has ended for want of an argument.            *)
(***************************************************************************)
EXTENDS Fuse, ScriptText

(***************************************************************************)
(* Small source trees for Fuse: three headers and two sources of two lines *)
(* each, any of which may be an include of any of them.                    *)
(***************************************************************************)
MCHeaders == {"gtest.h", "gtest-spi.h", "foo.h"}
MCSources == {"gtest-all.cc", "foo.cc"}

Text(f) == [kind |-> "text", to |-> f]
Includes(kind, S) == [kind : {kind}, to : S]

HeaderLine(f) == {Text(f)} \cup Includes("gtest", MCHeaders)
SourceLine(f) == {Text(f)} \cup Includes("gtest", {"gtest.h", "gtest-spi.h"})
                   \cup Includes("src", MCSources)
Two(S) == {<<a, b>> : a \in S, b \in S}

\* Trees with every choice of headers; then trees with every choice of sources
\* and the headers that matter to the second walk.
HeaderTrees ==
    {("gtest.h" :> a) @@ ("foo.h" :> b) @@ ("gtest-spi.h" :> c)
       @@ ("gtest-all.cc" :> <<d, Text("gtest-all.cc")>>) :
       a \in Two(HeaderLine("gtest.h")), b \in Two(HeaderLine("foo.h")),
       c \in {<<x, Text("gtest-spi.h")>> : x \in HeaderLine("gtest-spi.h")},
       d \in {[kind |-> "gtest", to |-> "gtest-spi.h"]}}
SourceTrees ==
    {("gtest.h" :> <<Text("gtest.h")>>) @@ ("gtest-spi.h" :> <<c, Text("gtest-spi.h")>>)
       @@ ("gtest-all.cc" :> a) @@ ("foo.cc" :> b) :
       a \in Two(SourceLine("gtest-all.cc")), b \in Two(SourceLine("foo.cc")),
       c \in {Text("gtest-spi.h"), [kind |-> "gtest", to |-> "foo.h"],
              [kind |-> "src", to |-> "foo.cc"]}}
\* Trees in which a seed or an included file is missing.
Incomplete ==
    {[f \in {"gtest.h", "gtest-all.cc", "foo.h"} \ {x} |->
        IF f = y THEN <<Text(f), [kind |-> "gtest", to |-> g], Text(f)>>
        ELSE <<Text(f)>>] :
       x, y \in {"gtest.h", "gtest-all.cc", "foo.h"}, g \in {"foo.h", "gtest-spi.h"}}

Setup(argc, t, old, d, w) ==
    [argc |-> argc, tree |-> t, old |-> old, dir |-> d, writable |-> w]

MCSetups ==
    {Setup(2, t, {}, FALSE, Outputs) : t \in HeaderTrees \cup SourceTrees}
      \cup {Setup(argc, t, old, TRUE, w) :
              argc \in 1 .. 4, t \in Incomplete, old \in SUBSET Outputs,
              w \in SUBSET Outputs}

(***************************************************************************)
(* Alphabets for ScriptText: one per family of algorithms.                 *)
(***************************************************************************)
Alphabet(use, size, lines, symbols) ==
    [use |-> use, size |-> size, lines |-> lines, symbols |-> symbols]

MCAlphabets ==
    {Alphabet("brackets", 5, 3, {"(", ")", "[", "}"}),
     Alphabet("brackets", 5, 3, {"{", "}", "x"}),
     Alphabet("angles", 5, 1, {"<", ">", "(", ")", ",", ";"}),
     Alphabet("comments", 6, 3, {"/", "*", "x"}),
     Alphabet("raw", 5, 3, {"R1(", "R2(", ")1", ")2", "x"}),
     Alphabet("pump", 6, 1, {"$range i 0..1", "$range i 1..0", "$for i", "[[", "]]",
                             "$i", "x"}),
     Alphabet("pump", 7, 1, {"$var v=1", "$var v=[[", "[[", "]]", "$v"}),
     Alphabet("pump", 5, 1, {"$var v=1", "$range i 0..v", "$for i", "[[", "]]", "$i",
                             "$v", "$($)"}),
     Alphabet("pump", 6, 1, {"$if 0[[", "$if 1[[", "]]", "$else [[", "$elif 1[[", " ", "x"}),
     Alphabet("wrap", 9, 1, {"x", " ", ","}),
     Alphabet("wrap", 10, 1, {"x", " ", "/"})}

MCPiece(s) ==
    CASE s = "$range i 0..1" -> <<"$range", "i", <<"0", "1">>>>
      [] s = "$range i 1..0" -> <<"$range", "i", <<"1", "0">>>>
      [] s = "$range i 0..v" -> <<"$range", "i", <<"0", "v">>>>
      [] s = "$for i" -> <<"$for", "i">>
      [] s = "$i" -> <<"$id", "i">>
      [] s = "$v" -> <<"$id", "v">>
      [] s = "$var v=1" -> <<"$var", "v", <<"1">>>>
      [] s = "$var v=[[" -> <<"$var", "v", <<>>>>
      [] s = "$if 0[[" -> <<"$if", "0">>
      [] s = "$if 1[[" -> <<"$if", "1">>
      [] s = "$elif 1[[" -> <<"$elif", "1">>
      [] s = "$else [[" -> <<"$else">>
      [] s \in {"x", " "} -> <<"code", s>>
      [] OTHER -> <<s>>

(***************************************************************************)
(* One run for both.                                                       *)
(***************************************************************************)
textVars == <<alphabet, typed>>
NoText == alphabet = Alphabet("none", 0, 1, {}) /\ typed = <<<<>>>>
Unused == Setup(1, [f \in {} |-> <<>>], {}, FALSE, {})
FuseOver ==
    /\ pc = "exit" /\ status = "usage" /\ setup = Unused /\ dir = FALSE
    /\ made = {} /\ text = [o \in Outputs |-> <<>>] /\ processed = {} /\ stack = <<>>

MCInit == (Init /\ NoText) \/ (FuseOver /\ TextInit)
MCNext == (Next /\ UNCHANGED textVars) \/ (TextNext /\ UNCHANGED vars)
MCSpec == MCInit /\ [][MCNext]_<<vars, textVars>> /\ WF_vars(Next)
=============================================================================
