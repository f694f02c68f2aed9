------------------------------- MODULE Fuse -------------------------------
(***************************************************************************)
(* thirdparty/gtest-1.7.0/scripts/fuse_gtest_files.py: the Google Test     *)
(* sources are fused into gtest/gtest.h and gtest/gtest-all.cc.            *)
(*                                                                         *)
(* The script asks before it overwrites an output, then walks the includes *)
(* from the two seeds, first for the header ("h") and then for the source  *)
(* ("cc").  A call of ProcessFile() that has not returned is a frame of    *)
(* stack: the file it reads and the line it reads next.  A line of a file  *)
(* is text to be copied, an include of a gtest header or an include of a   *)
(* source file.  What an output holds is a sequence of lines <<file, n>>;  *)
(* <<GTEST_H, 0>> is the include of the fused header.                      *)
(***************************************************************************)
EXTENDS Integers, Sequences, FiniteSets

CONSTANTS
    Headers, Sources,                  \* paths below include/gtest and src
    GTEST_H, GTEST_SPI_H, GTEST_ALL_CC,\* the seeds
    Setups                             \* command line and disk at the start

Files == Headers \cup Sources
Outputs == {"h", "cc"}

Line == [kind : {"text"}, to : Files] \cup [kind : {"gtest"}, to : Headers]
          \cup [kind : {"src"}, to : Sources]

ASSUME SeedAssumption ==
    /\ GTEST_H \in Headers /\ GTEST_SPI_H \in Headers /\ GTEST_H # GTEST_SPI_H
    /\ GTEST_ALL_CC \in Sources /\ Headers \cap Sources = {}

\* A setup has the number of words on the command line, the files below the
\* root, which outputs exist, whether their directory does, and which outputs
\* can be opened.
ASSUME SetupAssumption ==
    \A s \in Setups :
      /\ s.argc \in Nat
      /\ DOMAIN s.tree \subseteq Files
      /\ \A f \in DOMAIN s.tree : s.tree[f] \in Seq(Line)
      /\ s.old \subseteq Outputs /\ s.writable \subseteq Outputs
      /\ s.dir \in BOOLEAN /\ (s.old # {} => s.dir)

VARIABLES
    pc,        \* "main", "root", "ask_h", "ask_cc", "open_h", "h", ..., "exit"
    setup,
    dir,       \* TRUE: the directory of the outputs exists
    made,      \* the outputs this run opened for writing
    text,      \* their lines
    processed, \* processed_files of the running phase
    stack,
    status     \* how the script ended: "ok" is exit code 0, the others are 1

vars == <<pc, setup, dir, made, text, processed, stack, status>>

tree == setup.tree
Seed(o) == IF o = "h" THEN GTEST_H ELSE GTEST_ALL_CC
Top == stack[Len(stack)]
Exit(why) == pc' = "exit" /\ status' = why

\* Fault: the user is asked about each output when it is its turn.
AskEach(step) ==
    CASE step = "main" -> "root"
      [] step = "root" -> "ask_h"
      [] step = "ask_h" -> "open_h"
      [] step = "h" -> "ask_cc"
      [] step = "ask_cc" -> "open_cc"

\* FuseGTest(): both outputs are verified before the first is written.
FuseGTest(step) ==
    CASE step = "main" -> "root"
      [] step = "root" -> "ask_h"
      [] step = "ask_h" -> "ask_cc"
      [] step = "ask_cc" -> "open_h"
      [] step = "h" -> "open_cc"

(***************************************************************************)
(* Before anything is written.                                             *)
(***************************************************************************)
Main ==
    /\ pc = "main"
    /\ IF setup.argc \in {2, 3} THEN pc' = FuseGTest(pc) /\ UNCHANGED status
       ELSE Exit("usage")
    /\ UNCHANGED <<setup, dir, made, text, processed, stack>>

ValidateGTestRootDir ==
    /\ pc = "root"
    /\ IF {GTEST_H, GTEST_ALL_CC} \subseteq DOMAIN tree
       THEN pc' = FuseGTest(pc) /\ UNCHANGED status
       ELSE Exit("no_seed")
    /\ UNCHANGED <<setup, dir, made, text, processed, stack>>

\* VerifyOutputFile(): an existing output needs an answer, the directory of
\* the outputs is made.
VerifyOutputFile(o, asking) ==
    /\ pc = asking
    /\ \/ /\ pc' = FuseGTest(pc)
          /\ dir' = TRUE
          /\ UNCHANGED status
       \/ o \in setup.old /\ Exit("aborted") /\ UNCHANGED dir
    /\ UNCHANGED <<setup, made, text, processed, stack>>

(***************************************************************************)
(* The two walks.                                                          *)
(***************************************************************************)
\* file(..., 'w') and the call of ProcessFile() with the seed.
OpenOutput(o, opening) ==
    /\ pc = opening
    /\ IF o \in setup.writable
       THEN /\ pc' = o
            /\ made' = made \cup {o}
            /\ text' = [text EXCEPT ![o] = <<>>]
            /\ processed' = {Seed(o)}
            /\ stack' = <<[file |-> Seed(o), next |-> 1]>>
            /\ UNCHANGED status
       ELSE Exit("io_error") /\ UNCHANGED <<made, text, processed, stack>>
    /\ UNCHANGED <<setup, dir>>

Advanced == [stack EXCEPT ![Len(stack)] =
               [file |-> Top.file, next |-> Top.next + 1]]

\* Fault: a file that is being read can be entered again.
EnterOnceRead(f) ==
    /\ IF f \in processed /\ \A k \in 1 .. Len(stack) : stack[k].file # f
       THEN stack' = Advanced /\ UNCHANGED <<pc, status, processed>>
       ELSE /\ processed' = processed \cup {f}
            /\ IF f \in DOMAIN tree
               THEN /\ stack' = Append(Advanced, [file |-> f, next |-> 1])
                    /\ UNCHANGED <<pc, status>>
               ELSE stack' = <<>> /\ Exit("io_error")
    /\ UNCHANGED text

\* Fault: the included file is read behind the one that includes it.
EnterLater(f) ==
    /\ IF f \in processed
       THEN stack' = Advanced /\ UNCHANGED <<pc, status, processed>>
       ELSE /\ processed' = processed \cup {f}
            /\ IF f \in DOMAIN tree
               THEN /\ stack' = <<[file |-> f, next |-> 1]>> \o Advanced
                    /\ UNCHANGED <<pc, status>>
               ELSE stack' = <<>> /\ Exit("io_error")
    /\ UNCHANGED text

\* Fault: the include of a file that was processed is read again.
EnterSame(f) ==
    /\ IF f \in processed
       THEN UNCHANGED <<stack, pc, status, processed>>
       ELSE /\ processed' = processed \cup {f}
            /\ IF f \in DOMAIN tree
               THEN /\ stack' = Append(Advanced, [file |-> f, next |-> 1])
                    /\ UNCHANGED <<pc, status>>
               ELSE stack' = <<>> /\ Exit("io_error")
    /\ UNCHANGED text

\* Fault: a file that is missing is passed over.
EnterPresent(f) ==
    /\ IF f \in processed \/ f \notin DOMAIN tree
       THEN stack' = Advanced /\ UNCHANGED processed
       ELSE /\ processed' = processed \cup {f}
            /\ stack' = Append(Advanced, [file |-> f, next |-> 1])
    /\ UNCHANGED <<text, pc, status>>

\* ProcessFile(): a file is entered once; if it cannot be read the exception
\* ends the script.
Enter(f) ==
    /\ IF f \in processed
       THEN stack' = Advanced /\ UNCHANGED <<pc, status, processed>>
       ELSE /\ processed' = processed \cup {f}
            /\ IF f \in DOMAIN tree
               THEN /\ stack' = Append(Advanced, [file |-> f, next |-> 1])
                    /\ UNCHANGED <<pc, status>>
               ELSE stack' = <<>> /\ Exit("io_error")
    /\ UNCHANGED text

Write(entry) ==
    /\ text' = [text EXCEPT ![pc] = Append(text[pc], entry)]
    /\ stack' = Advanced
    /\ UNCHANGED <<pc, status>>

Reading == pc \in Outputs /\ stack # <<>> /\ Top.next <= Len(tree[Top.file])
ThisLine == tree[Top.file][Top.next]

\* Fault: gtest-spi.h is taken for a header that gtest.h contains.
EntersSources(o, line) ==
    line.kind = (IF o = "h" THEN "gtest" ELSE "src")

\* Does the walk for output o go into the file this line includes?
Enters(o, line) ==
    \/ line.kind = (IF o = "h" THEN "gtest" ELSE "src")
    \/ o = "cc" /\ line.kind = "gtest" /\ line.to = GTEST_SPI_H

\* Is the line an include of the fused header for output o?
OfHeader(o, line) == o = "cc" /\ line.kind = "gtest" /\ ~Enters(o, line)

ReadInclude ==
    /\ Reading /\ Enters(pc, ThisLine)
    /\ Enter(ThisLine.to)
    /\ UNCHANGED <<setup, dir, made>>

IncludeHeader ==
    /\ Reading /\ OfHeader(pc, ThisLine)
    /\ processed' = processed \cup {GTEST_H}
    /\ IF GTEST_H \in processed THEN stack' = Advanced /\ UNCHANGED <<text, pc, status>>
       ELSE Write(<<GTEST_H, 0>>)
    /\ UNCHANGED <<setup, dir, made>>

CopyLine ==
    /\ Reading /\ ~Enters(pc, ThisLine) /\ ~OfHeader(pc, ThisLine)
    /\ Write(<<Top.file, Top.next>>)
    /\ UNCHANGED <<setup, dir, made, processed>>

EndOfFile ==
    /\ pc \in Outputs /\ stack # <<>> /\ Top.next > Len(tree[Top.file])
    /\ stack' = SubSeq(stack, 1, Len(stack) - 1)
    /\ UNCHANGED <<pc, setup, dir, made, text, processed, status>>

CloseOutput ==
    /\ pc \in Outputs /\ stack = <<>>
    /\ IF pc = "h" THEN pc' = FuseGTest(pc) /\ UNCHANGED status ELSE Exit("ok")
    /\ UNCHANGED <<setup, dir, made, text, processed, stack>>

-----------------------------------------------------------------------------
Init ==
    /\ pc = "main" /\ setup \in Setups
    /\ dir = setup.dir
    /\ made = {} /\ text = [o \in Outputs |-> <<>>]
    /\ processed = {} /\ stack = <<>> /\ status = "running"

Next ==
    \/ Main \/ ValidateGTestRootDir
    \/ VerifyOutputFile("h", "ask_h") \/ VerifyOutputFile("cc", "ask_cc")
    \/ OpenOutput("h", "open_h") \/ OpenOutput("cc", "open_cc")
    \/ ReadInclude \/ IncludeHeader \/ CopyLine \/ EndOfFile \/ CloseOutput

Spec == Init /\ [][Next]_vars

\* The script is one process, and readline() returns when the user answers or
\* closes the input.
FairSpec == Spec /\ WF_vars(Next)

(***************************************************************************)
(* What the script promises.                                               *)
(***************************************************************************)
\* The types of the script's state, at every step of main().
TypeOK ==
    /\ pc \in {"main", "root", "ask_h", "ask_cc", "open_h", "h", "open_cc", "cc",
               "exit"}
    /\ dir \in BOOLEAN /\ made \subseteq Outputs
    /\ text \in [Outputs -> Seq(Files \X Nat)]
    /\ processed \subseteq Files
    /\ stack \in Seq([file : DOMAIN tree, next : Nat])
    /\ status \in {"running", "usage", "no_seed", "aborted", "io_error", "ok"}

\* What the lines are for: gtest.h is made of the headers it includes, and
\* gtest-all.cc of the sources and gtest-spi.h, with gtest.h for the others.
Follows(o, line) ==
    IF o = "h" THEN line.kind = "gtest"
    ELSE line.kind = "src" \/ (line.kind = "gtest" /\ line.to = GTEST_SPI_H)
ForHeader(o, line) == o = "cc" /\ line.kind = "gtest" /\ ~Follows(o, line)

\* What a line that is not followed leaves in the output.
Trace(o, f, n) ==
    IF ForHeader(o, tree[f][n]) THEN <<GTEST_H, 0>> ELSE <<f, n>>
Copied(o, e) == \E n \in 1 .. Len(text[o]) : text[o][n] = e

\* S contains every file that one of its files has an include to follow for.
Closed(o, S) ==
    \A f \in S \cap DOMAIN tree : \A n \in 1 .. Len(tree[f]) :
      Follows(o, tree[f][n]) => tree[f][n].to \in S

\* The files ProcessFile() was called for; gtest.h only marks its include in
\* the second walk.
Called == IF pc = "h" THEN processed ELSE processed \ {GTEST_H}

\* ProcessFile(): no line of any file is copied twice into an output, however
\* the files include each other, and gtest.h is included at most once.
CopiedOnce ==
    \A o \in Outputs : \A m, n \in 1 .. Len(text[o]) :
      text[o][m] = text[o][n] => m = n

\* ProcessFile(): when a walk has returned, every file that can be reached
\* from its seed was read, and every line of them that is not an include to
\* follow is in the output.
WalkComplete ==
    pc \in Outputs /\ stack = <<>> =>
      /\ Called \subseteq DOMAIN tree /\ Seed(pc) \in Called
      /\ Closed(pc, Called)
      /\ \A f \in Called : \A n \in 1 .. Len(tree[f]) :
           Follows(pc, tree[f][n]) \/ Copied(pc, Trace(pc, f, n))

\* ProcessFile(): a walk reads no file that cannot be reached from its seed.
OnlyReached ==
    pc \in Outputs =>
      \A S \in SUBSET Files :
        Seed(pc) \in S /\ ~(Called \subseteq S) => ~Closed(pc, S)

\* What can be reached from f by the includes that o's walk follows.
Reach(o, f) ==
    LET kids(g) == {tree[g][n].to : n \in {k \in 1 .. Len(tree[g]) :
                                            Follows(o, tree[g][k])}}
        within[n \in Nat] ==
          IF n = 0 THEN {f}
          ELSE within[n - 1] \cup
                 UNION {kids(g) : g \in within[n - 1] \cap DOMAIN tree}
    IN  within[Cardinality(Files)]

Place(o, e) == CHOOSE n \in 1 .. Len(text[o]) : text[o][n] = e

\* ProcessFile(): what a file includes is in the output before the lines
\* behind the include, unless the included file includes it in turn.
IncludedBefore ==
    \A o \in made : \A f \in DOMAIN tree : \A j \in 1 .. Len(tree[f]) :
      Copied(o, <<f, j>>) =>
        LET before(e) == Copied(o, e) /\ Place(o, e) < Place(o, <<f, j>>) IN
        \A line \in {tree[f][i] : i \in 1 .. j - 1} :
          /\ ForHeader(o, line) => before(<<GTEST_H, 0>>)
          /\ Follows(o, line) /\ f \notin Reach(o, line.to) =>
               \A n \in 1 .. Len(tree[line.to]) :
                 tree[line.to][n].kind = "text" => before(<<line.to, n>>)

\* The comments in FuseGTestAllCcToFile(): gtest.h includes every gtest header
\* that the sources and gtest-spi.h include, and not gtest-spi.h.
Convention ==
    /\ GTEST_SPI_H \notin Reach("h", GTEST_H)
    /\ \A f \in Reach("cc", GTEST_ALL_CC) \cap DOMAIN tree :
         \A n \in 1 .. Len(tree[f]) :
           ForHeader("cc", tree[f][n]) => tree[f][n].to \in Reach("h", GTEST_H)

\* FuseGTest(): if the sources keep to the convention, every line of text of a
\* file they need is in exactly one of the two outputs.
PairSelfContained ==
    status = "ok" /\ Convention =>
      \A f \in Reach("h", GTEST_H) \cup Reach("cc", GTEST_ALL_CC) :
        \A n \in 1 .. Len(tree[f]) :
          tree[f][n].kind = "text" => Copied("h", <<f, n>>) # Copied("cc", <<f, n>>)

\* FuseGTest(): a run that the user or a missing seed stops has opened neither
\* output, and gtest-all.cc is opened only when gtest.h is complete.
OutputsInOrder ==
    /\ status \in {"usage", "no_seed", "aborted"} => made = {}
    /\ "cc" \in made =>
         /\ "h" \in made
         /\ \A f \in Reach("h", GTEST_H) : \A n \in 1 .. Len(tree[f]) :
              tree[f][n].kind = "text" => Copied("h", <<f, n>>)

\* The walks end, whatever cycles the includes have.
Terminates == <>(pc = "exit")
=============================================================================
