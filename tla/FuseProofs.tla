---------------------------- MODULE FuseProofs ----------------------------
(***************************************************************************)
(* Proofs about fuse_gtest_files.py for every source tree, with any cycles *)
(* and any missing files: no line is copied twice, a walk that returns has *)
(* read everything its seed reaches, and nothing else.                     *)
(***************************************************************************)
EXTENDS Fuse, SequenceTheorems, TLAPS

(* The loop over the lines of f is behind line n, or over.                 *)
Read(f, n) ==
    \A k \in 1 .. Len(stack) : stack[k].file = f => n < stack[k].next

Frames ==
    /\ \A k \in 1 .. Len(stack) :
         /\ stack[k].file \in Called
         /\ stack[k].next \in 1 .. Len(tree[stack[k].file]) + 1
    /\ \A j, k \in 1 .. Len(stack) : stack[j].file = stack[k].file => j = k

(* What was read has left its trace.                                       *)
Progress ==
    \A f \in Called : \A n \in 1 .. Len(tree[f]) :
      Read(f, n) =>
        IF Follows(pc, tree[f][n]) THEN tree[f][n].to \in Called
        ELSE Copied(pc, Trace(pc, f, n))

(* What has left a trace was read.                                         *)
Entries ==
    \A m \in 1 .. Len(text[pc]) :
      \/ text[pc][m] = <<GTEST_H, 0>> /\ GTEST_H \in processed /\ pc = "cc"
      \/ /\ text[pc][m][1] \in Called /\ text[pc][m][2] > 0
         /\ Read(text[pc][m][1], text[pc][m][2])

(* The second walk marks gtest.h when it writes the include.               *)
HeaderMark ==
    pc = "cc" /\ GTEST_H \in processed =>
      \E m \in 1 .. Len(text[pc]) : text[pc][m] = <<GTEST_H, 0>>

SeedsThere ==
    pc \in {"ask_h", "ask_cc", "open_h", "h", "open_cc", "cc"} =>
      {GTEST_H, GTEST_ALL_CC} \subseteq DOMAIN tree

WalkInv ==
    pc \in Outputs =>
      /\ Called \subseteq DOMAIN tree /\ Seed(pc) \in Called
      /\ Frames /\ Progress /\ Entries /\ HeaderMark

IInv ==
    /\ TypeOK /\ setup \in Setups /\ SeedsThere
    /\ WalkInv /\ CopiedOnce /\ OnlyReached

(* The code's test for an include to follow is the one the promises use.   *)
LEMMA SameTest ==
    ASSUME NEW o \in Outputs, NEW line
    PROVE  /\ Enters(o, line) <=> Follows(o, line)
           /\ OfHeader(o, line) <=> ForHeader(o, line)
BY DEF Enters, OfHeader, Follows, ForHeader, Outputs

(* Types of the source tree.                                               *)
LEMMA TreeType ==
    ASSUME setup \in Setups
    PROVE  /\ DOMAIN tree \subseteq Files
           /\ \A f \in DOMAIN tree : tree[f] \in Seq(Line)
           /\ \A f \in DOMAIN tree : \A n \in 1 .. Len(tree[f]) :
                /\ tree[f][n] \in Line
                /\ tree[f][n].to \in Files
                /\ Follows("cc", tree[f][n]) => tree[f][n].to # GTEST_H
<1>1. /\ DOMAIN tree \subseteq Files
      /\ \A f \in DOMAIN tree : tree[f] \in Seq(Line)
  BY SetupAssumption DEF tree
<1>2. ASSUME NEW line \in Line
      PROVE  line.to \in Files /\ (Follows("cc", line) => line.to # GTEST_H)
  BY SeedAssumption DEF Line, Follows, Files
<1>3. QED
  BY <1>1, <1>2

(* The frames after the running call has taken a line.                     *)
LEMMA AdvancedFrames ==
    ASSUME TypeOK, stack # <<>>
    PROVE  /\ Len(stack) \in Nat \ {0}
           /\ Top \in [file : DOMAIN tree, next : Nat]
           /\ Advanced \in Seq([file : DOMAIN tree, next : Nat])
           /\ Len(Advanced) = Len(stack)
           /\ \A k \in 1 .. Len(stack) :
                /\ Advanced[k].file = stack[k].file
                /\ Advanced[k].next =
                     IF k = Len(stack) THEN Top.next + 1 ELSE stack[k].next
<1> DEFINE Frame == [file : DOMAIN tree, next : Nat]
           top == [file |-> Top.file, next |-> Top.next + 1]
<1>1. stack \in Seq(Frame)
  BY DEF TypeOK
<1> HIDE DEF Frame, top
<1>2. Len(stack) \in Nat \ {0}
  BY <1>1, EmptySeq
<1>3. Top \in Frame
  BY <1>1, <1>2, ElementOfSeq DEF Top
<1>4. top \in Frame
  BY <1>3 DEF Frame, top
<1>5. /\ Advanced \in Seq(Frame) /\ Len(Advanced) = Len(stack)
      /\ \A k \in 1 .. Len(stack) :
           Advanced[k] = IF k = Len(stack) THEN top ELSE stack[k]
  BY <1>1, <1>2, <1>4, ExceptSeq DEF Advanced, top
<1> USE DEF Frame, top
<1>6. QED
  BY <1>1, <1>2, <1>3, <1>5 DEF Top

(* What is known of the line that is read.                                 *)
LEMMA AtLine ==
    ASSUME IInv, Reading
    PROVE  /\ Len(stack) \in Nat \ {0}
           /\ Top.file \in Called /\ Top.file \in DOMAIN tree
           /\ Top.next \in 1 .. Len(tree[Top.file])
           /\ Len(tree[Top.file]) \in Nat
           /\ ~Read(Top.file, Top.next)
           /\ ThisLine = tree[Top.file][Top.next]
           /\ Enters(pc, ThisLine) <=> Follows(pc, ThisLine)
           /\ OfHeader(pc, ThisLine) <=> ForHeader(pc, ThisLine)
           /\ ThisLine.to \in Files
           /\ Enters(pc, ThisLine) /\ pc = "cc" => ThisLine.to # GTEST_H
<1>1. /\ pc \in Outputs /\ stack # <<>> /\ Top.next <= Len(tree[Top.file])
      /\ TypeOK /\ setup \in Setups /\ Frames /\ Called \subseteq DOMAIN tree
  BY DEF IInv, WalkInv, Reading
<1>2. Len(stack) \in Nat \ {0} /\ Top = stack[Len(stack)]
  BY <1>1, AdvancedFrames DEF Top
<1>3. Len(stack) \in 1 .. Len(stack)
  BY <1>2
<1>4. /\ Top.file \in Called /\ Top.file \in DOMAIN tree
      /\ Top.next \in 1 .. Len(tree[Top.file]) + 1
  BY <1>1, <1>2, <1>3 DEF Frames
<1>5. Len(tree[Top.file]) \in Nat
  BY <1>1, <1>4, TreeType, LenProperties
<1>6. Top.next \in 1 .. Len(tree[Top.file])
  BY <1>1, <1>4, <1>5
<1>7. ~Read(Top.file, Top.next)
  BY <1>2, <1>3, <1>6, <1>5 DEF Read
<1>8. QED
  BY <1>1, <1>2, <1>4, <1>5, <1>6, <1>7, SameTest, TreeType DEF ThisLine, Outputs

(* The frames, and which lines count as read, after a line was taken.      *)
LEMMA AfterAdvance ==
    ASSUME IInv, Reading, Called \subseteq Called', tree' = tree,
           stack' = Advanced
    PROVE  /\ Frames'
           /\ \A f : \A n \in Nat :
                Read(f, n)' <=> Read(f, n) \/ (f = Top.file /\ n = Top.next)
<1>1. /\ Len(stack) \in Nat \ {0} /\ Top.next \in 1 .. Len(tree[Top.file])
      /\ Len(tree[Top.file]) \in Nat
      /\ Frames /\ Top = stack[Len(stack)]
  BY AtLine DEF IInv, WalkInv, Reading, Top
<1>2. /\ Len(stack') = Len(stack)
      /\ \A k \in 1 .. Len(stack) :
           /\ stack'[k].file = stack[k].file
           /\ stack'[k].next = IF k = Len(stack) THEN Top.next + 1 ELSE stack[k].next
  BY AdvancedFrames DEF IInv, Reading
<1>3. \A k \in 1 .. Len(stack) : stack[k].file = Top.file => k = Len(stack)
  BY <1>1 DEF Frames
<1>4. \A k \in 1 .. Len(stack) :
        /\ stack'[k].file \in Called'
        /\ stack'[k].next \in 1 .. Len(tree'[stack'[k].file]) + 1
  <2> SUFFICES ASSUME NEW k \in 1 .. Len(stack)
               PROVE  /\ stack'[k].file \in Called'
                      /\ stack'[k].next \in 1 .. Len(tree'[stack'[k].file]) + 1
    OBVIOUS
  <2>1. /\ stack[k].file \in Called
        /\ stack[k].next \in 1 .. Len(tree[stack[k].file]) + 1
    BY <1>1 DEF Frames
  <2>2. CASE k = Len(stack)
    BY <1>1, <1>2, <2>1, <2>2
  <2>3. CASE k # Len(stack)
    BY <1>2, <2>1, <2>3
  <2>4. QED
    BY <2>2, <2>3
<1>5. \A j, k \in 1 .. Len(stack) : stack'[j].file = stack'[k].file => j = k
  BY <1>1, <1>2 DEF Frames
<1>6. Frames'
  BY <1>2, <1>4, <1>5 DEF Frames
<1>7. ASSUME NEW f, NEW n \in Nat
      PROVE  Read(f, n)' <=> Read(f, n) \/ (f = Top.file /\ n = Top.next)
  <2>1. \A k \in 1 .. Len(stack) : stack[k].next \in Nat
    BY <1>1 DEF Frames
  <2>2. ASSUME Read(f, n) \/ (f = Top.file /\ n = Top.next)
        PROVE  Read(f, n)'
    BY <1>1, <1>2, <1>3, <2>1, <2>2 DEF Read
  <2>3. ASSUME Read(f, n)', ~Read(f, n)
        PROVE  f = Top.file /\ n = Top.next
    BY <1>1, <1>2, <2>1, <2>3 DEF Read
  <2>4. QED
    BY <2>2, <2>3
<1>8. QED
  BY <1>6, <1>7

(* A call is entered for the file that this line includes.                 *)
Entered == stack' = Append(Advanced, [file |-> ThisLine.to, next |-> 1])

(* The frames, and which lines count as read, afterwards.                  *)
LEMMA AfterPush ==
    ASSUME IInv, Reading, ThisLine.to \in DOMAIN tree, ThisLine.to \notin Called,
           Called' = Called \cup {ThisLine.to}, tree' = tree, Entered
    PROVE  /\ stack' \in Seq([file : DOMAIN tree, next : Nat])
           /\ Frames'
           /\ \A f : \A n \in Nat : f = ThisLine.to /\ n > 0 => ~Read(f, n)'
           /\ \A f : \A n \in Nat : f # ThisLine.to =>
                (Read(f, n)' <=> Read(f, n) \/ (f = Top.file /\ n = Top.next))
<1> DEFINE g == ThisLine.to
           Frame == [file : DOMAIN tree, next : Nat]
           new == [file |-> g, next |-> 1]
           N == Len(stack)
<1>1. /\ N \in Nat \ {0} /\ Top.next \in 1 .. Len(tree[Top.file])
      /\ Len(tree[Top.file]) \in Nat /\ Frames /\ Top = stack[N] /\ setup \in Setups
  BY AtLine DEF IInv, WalkInv, Reading, Top
<1>2. /\ Advanced \in Seq(Frame) /\ Len(Advanced) = N
      /\ \A k \in 1 .. N :
           /\ Advanced[k].file = stack[k].file
           /\ Advanced[k].next = IF k = N THEN Top.next + 1 ELSE stack[k].next
  BY AdvancedFrames DEF IInv, Reading
<1>3. new \in Frame /\ new.file = g /\ new.next = 1
  OBVIOUS
<1> HIDE DEF Frame, new
<1>4. /\ stack' \in Seq(Frame) /\ Len(stack') = N + 1 /\ stack'[N + 1] = new
      /\ \A k \in 1 .. N : stack'[k] = Advanced[k]
  BY <1>1, <1>2, <1>3, AppendProperties DEF new, Entered
<1> HIDE DEF N
<1>5. \A k \in 1 .. N :
        /\ stack'[k].file = stack[k].file
        /\ stack'[k].next = IF k = N THEN Top.next + 1 ELSE stack[k].next
  BY <1>2, <1>4
<1>6. \A k \in 1 .. N : /\ stack[k].file \in Called
                        /\ stack[k].next \in 1 .. Len(tree[stack[k].file]) + 1
                        /\ (stack[k].file = Top.file => k = N)
  BY <1>1 DEF Frames, N
<1>7. Len(tree[g]) \in Nat
  BY <1>1, TreeType, LenProperties
<1>8. ASSUME NEW k \in 1 .. N + 1
      PROVE  /\ stack'[k].file \in Called'
             /\ stack'[k].next \in 1 .. Len(tree'[stack'[k].file]) + 1
  <2>1. CASE k = N + 1
    BY <1>3, <1>4, <1>7, <2>1
  <2>2. CASE k = N
    <3>1. stack'[k].file = Top.file /\ stack'[k].next = Top.next + 1
      BY <1>1, <1>5, <2>2
    <3>2. Top.file \in Called
      BY <1>1, <1>6
    <3>3. QED
      BY <1>1, <3>1, <3>2
  <2>3. CASE k \in 1 .. N /\ k # N
    BY <1>5, <1>6, <2>3
  <2>4. k = N + 1 \/ k = N \/ (k \in 1 .. N /\ k # N)
    BY <1>1
  <2>5. QED
    BY <2>1, <2>2, <2>3, <2>4
<1>9. \A j, k \in 1 .. N + 1 : stack'[j].file = stack'[k].file => j = k
  <2>1. \A j, k \in 1 .. N : stack'[j].file = stack'[k].file => j = k
    BY <1>1, <1>5 DEF Frames, N
  <2>2. \A j \in 1 .. N : stack'[j].file # stack'[N + 1].file
    BY <1>3, <1>4, <1>5, <1>6
  <2>3. \A j \in 1 .. N + 1 : j \in 1 .. N \/ j = N + 1
    BY <1>1
  <2>4. QED
    BY <2>1, <2>2, <2>3
<1>10. Frames'
  BY <1>4, <1>8, <1>9 DEF Frames
<1>11. \A f : \A n \in Nat : f = g /\ n > 0 => ~Read(f, n)'
  <2>1. N + 1 \in 1 .. Len(stack')
    BY <1>1, <1>4
  <2>2. QED
    BY <1>3, <1>4, <2>1 DEF Read
<1>12. ASSUME NEW f, NEW n \in Nat, f # g
       PROVE  Read(f, n)' <=> Read(f, n) \/ (f = Top.file /\ n = Top.next)
  <2>1. Read(f, n)' <=> \A k \in 1 .. N : stack'[k].file = f => n < stack'[k].next
    BY <1>1, <1>3, <1>4, <1>12 DEF Read
  <2>2. Read(f, n) <=> \A k \in 1 .. N : stack[k].file = f => n < stack[k].next
    BY DEF Read, N
  <2>3. /\ N \in 1 .. N /\ stack[N].file = Top.file /\ stack[N].next = Top.next
        /\ Top.next \in Nat /\ \A k \in 1 .. N : stack[k].next \in Nat
    BY <1>1, <1>6
  <2>4. ASSUME Read(f, n) \/ (f = Top.file /\ n = Top.next)
        PROVE  Read(f, n)'
    <3>1. ASSUME NEW k \in 1 .. N, stack'[k].file = f
          PROVE  n < stack'[k].next
      <4>1. CASE k = N
        BY <1>5, <2>2, <2>3, <2>4, <3>1, <4>1
      <4>2. CASE k # N
        BY <1>5, <1>6, <2>2, <2>4, <3>1, <4>2
      <4>3. QED
        BY <4>1, <4>2
    <3>2. QED
      BY <2>1, <3>1
  <2>5. ASSUME Read(f, n)', ~Read(f, n)
        PROVE  f = Top.file /\ n = Top.next
    <3>1. PICK k \in 1 .. N : stack[k].file = f /\ ~(n < stack[k].next)
      BY <2>2, <2>5
    <3>2. stack'[k].file = f => n < stack'[k].next
      BY <2>1, <2>5
    <3>3. k = N
      BY <1>5, <1>6, <2>3, <3>1, <3>2
    <3>4. QED
      BY <1>5, <1>6, <2>3, <3>1, <3>2, <3>3
  <2>6. QED
    BY <2>4, <2>5
<1>13. QED
  BY <1>4, <1>10, <1>11, <1>12 DEF Frame

(* What to show of the lines that count as read after a step.              *)
LEMMA ProgressStep ==
    ASSUME pc' = pc, tree' = tree,
           \A f \in Called' : \A n \in 1 .. Len(tree[f]) :
             Read(f, n)' =>
               IF Follows(pc, tree[f][n]) THEN tree[f][n].to \in Called'
               ELSE \E m \in 1 .. Len(text'[pc]) : text'[pc][m] = Trace(pc, f, n)
    PROVE  Progress'
<1> SUFFICES ASSUME NEW f \in Called', NEW n \in 1 .. Len(tree'[f]), Read(f, n)'
             PROVE  (IF Follows(pc, tree[f][n]) THEN tree[f][n].to \in Called
                     ELSE Copied(pc, Trace(pc, f, n)))'
  BY DEF Progress
<1>1. /\ Follows(pc, tree[f][n])' <=> Follows(pc, tree[f][n])
      /\ ForHeader(pc, tree[f][n])' <=> ForHeader(pc, tree[f][n])
  BY DEF Follows, ForHeader
<1>2. Trace(pc, f, n)' = Trace(pc, f, n)
  BY <1>1 DEF Trace
<1>3. Copied(pc, Trace(pc, f, n))' <=>
        \E m \in 1 .. Len(text'[pc]) : text'[pc][m] = Trace(pc, f, n)
  BY <1>2 DEF Copied
<1>4. QED
  BY <1>1, <1>3

(* A line was added to the output.                                         *)
LEMMA AfterWrite ==
    ASSUME TypeOK, pc \in Outputs, NEW e \in Files \X Nat,
           text' = [text EXCEPT ![pc] = Append(text[pc], e)]
    PROVE  /\ text' \in [Outputs -> Seq(Files \X Nat)]
           /\ Len(text[pc]) \in Nat /\ Len(text'[pc]) = Len(text[pc]) + 1
           /\ \A m \in 1 .. Len(text[pc]) : text'[pc][m] = text[pc][m]
           /\ text'[pc][Len(text[pc]) + 1] = e
           /\ \A o \in Outputs : o # pc => text'[o] = text[o]
<1>1. text \in [Outputs -> Seq(Files \X Nat)] /\ text[pc] \in Seq(Files \X Nat)
  BY DEF TypeOK
<1>2. /\ Append(text[pc], e) \in Seq(Files \X Nat)
      /\ Len(Append(text[pc], e)) = Len(text[pc]) + 1
      /\ \A m \in 1 .. Len(text[pc]) : Append(text[pc], e)[m] = text[pc][m]
      /\ Append(text[pc], e)[Len(text[pc]) + 1] = e
  BY <1>1, AppendProperties
<1>3. Len(text[pc]) \in Nat
  BY <1>1, LenProperties
<1>4. text'[pc] = Append(text[pc], e) /\ \A o \in Outputs : o # pc => text'[o] = text[o]
  BY <1>1
<1>5. text' \in [Outputs -> Seq(Files \X Nat)]
  BY <1>1, <1>2
<1>6. QED
  BY <1>2, <1>3, <1>4, <1>5

(* A new line leaves no line twice.                                        *)
LEMMA StillOnce ==
    ASSUME CopiedOnce, pc \in Outputs, Len(text[pc]) \in Nat,
           Len(text'[pc]) = Len(text[pc]) + 1,
           \A m \in 1 .. Len(text[pc]) : /\ text'[pc][m] = text[pc][m]
                                         /\ text[pc][m] # text'[pc][Len(text[pc]) + 1],
           \A o \in Outputs : o # pc => text'[o] = text[o]
    PROVE  CopiedOnce'
<1> SUFFICES ASSUME NEW o \in Outputs, NEW m \in 1 .. Len(text'[o]),
                    NEW n \in 1 .. Len(text'[o]), text'[o][m] = text'[o][n]
             PROVE  m = n
  BY DEF CopiedOnce
<1>1. CASE o # pc
  BY <1>1 DEF CopiedOnce
<1>2. CASE o = pc
  <2>1. \A i \in {m, n} : i \in 1 .. Len(text[pc]) \/ i = Len(text[pc]) + 1
    BY <1>2
  <2>2. QED
    BY <1>2, <2>1 DEF CopiedOnce
<1>3. QED
  BY <1>1, <1>2

-----------------------------------------------------------------------------
(* One line of a file in a walk.                                           *)
LEMMA ReadIncludeStep ==
    ASSUME IInv, ReadInclude
    PROVE  IInv'
<1> DEFINE g == ThisLine.to
<1>1. /\ pc \in Outputs /\ stack # <<>> /\ TypeOK /\ setup \in Setups /\ Reading
      /\ WalkInv /\ Frames /\ Progress /\ Entries
      /\ Called \subseteq DOMAIN tree /\ Seed(pc) \in Called
      /\ setup' = setup /\ tree' = tree /\ text' = text
  BY DEF IInv, WalkInv, ReadInclude, Reading, Enter, tree
<1>2. /\ Top.file \in Called /\ Top.file \in DOMAIN tree
      /\ Top.next \in 1 .. Len(tree[Top.file])
      /\ Follows(pc, tree[Top.file][Top.next]) /\ g = tree[Top.file][Top.next].to
      /\ g \in Files /\ (pc = "cc" => g # GTEST_H)
  BY AtLine DEF ReadInclude
<1> HIDE DEF g
<1>3. CASE g \in processed
  <2>1. /\ stack' = Advanced /\ UNCHANGED <<pc, status, processed, dir, made>>
        /\ Called' = Called /\ g \in Called
    BY <1>1, <1>2, <1>3 DEF ReadInclude, Enter, Called, Outputs, g
  <2>2. TypeOK'
    BY <1>1, <2>1, AdvancedFrames DEF TypeOK
  <2>3. /\ Frames'
        /\ \A f : \A n \in Nat : Read(f, n)' <=> Read(f, n) \/ (f = Top.file /\ n = Top.next)
    BY <1>1, <2>1, AfterAdvance
  <2>4. ASSUME NEW f \in Called', NEW n \in 1 .. Len(tree[f]), Read(f, n)'
        PROVE  IF Follows(pc, tree[f][n]) THEN tree[f][n].to \in Called'
               ELSE \E m \in 1 .. Len(text'[pc]) : text'[pc][m] = Trace(pc, f, n)
    BY <1>1, <1>2, <2>1, <2>3, <2>4 DEF Progress, Copied
  <2>5. Progress'
    BY <1>1, <2>1, <2>4, ProgressStep
  <2>6. Entries'
    BY <1>1, <2>1, <2>3 DEF Entries, TypeOK
  <2>7. /\ SeedsThere' /\ CopiedOnce' /\ OnlyReached' /\ (Seed(pc) \in Called)'
        /\ HeaderMark'
    BY <1>1, <2>1
    DEF IInv, SeedsThere, CopiedOnce, OnlyReached, Seed, Closed, WalkInv, HeaderMark
  <2>8. QED
    BY <1>1, <2>1, <2>2, <2>3, <2>5, <2>6, <2>7 DEF IInv, WalkInv
<1>4. CASE g \notin processed /\ g \in DOMAIN tree
  <2>1. /\ Entered
        /\ UNCHANGED <<pc, status, dir, made>> /\ processed' = processed \cup {g}
        /\ Called' = Called \cup {g} /\ g \notin Called
    BY <1>1, <1>2, <1>4 DEF ReadInclude, Enter, Called, Outputs, g, Entered
  <2>2. /\ stack' \in Seq([file : DOMAIN tree, next : Nat])
        /\ Frames'
        /\ \A f : \A n \in Nat : f = g /\ n > 0 => ~Read(f, n)'
        /\ \A f : \A n \in Nat : f # g =>
             (Read(f, n)' <=> Read(f, n) \/ (f = Top.file /\ n = Top.next))
    BY <1>1, <1>4, <2>1, AfterPush DEF g
  <2>3. TypeOK'
    BY <1>1, <1>2, <2>1, <2>2 DEF TypeOK
  <2>4. ASSUME NEW f \in Called', NEW n \in 1 .. Len(tree[f]), Read(f, n)'
        PROVE  IF Follows(pc, tree[f][n]) THEN tree[f][n].to \in Called'
               ELSE \E m \in 1 .. Len(text'[pc]) : text'[pc][m] = Trace(pc, f, n)
    <3>1. f # g /\ f \in Called /\ (Read(f, n) \/ (f = Top.file /\ n = Top.next))
      BY <2>1, <2>2, <2>4
    <3>2. QED
      BY <1>1, <1>2, <2>1, <3>1 DEF Progress, Copied
  <2>5. Progress'
    BY <1>1, <2>1, <2>4, ProgressStep
  <2>6. Entries'
    BY <1>1, <2>1, <2>2 DEF Entries, TypeOK
  <2>7. SeedsThere' /\ CopiedOnce' /\ (Seed(pc) \in Called)' /\ HeaderMark'
    BY <1>1, <1>2, <2>1 DEF IInv, SeedsThere, CopiedOnce, Seed, WalkInv, HeaderMark
  <2>8. OnlyReached'
    <3>1. ASSUME NEW S \in SUBSET Files, Seed(pc) \in S, Closed(pc, S)
          PROVE  Called' \subseteq S
      BY <1>1, <1>2, <2>1, <3>1 DEF IInv, OnlyReached, Closed
    <3>2. \A S : Closed(pc, S)' <=> Closed(pc, S)
      BY <1>1, <2>1 DEF Closed, Follows
    <3>3. QED
      BY <2>1, <3>1, <3>2 DEF OnlyReached, Seed
  <2>9. Called' \subseteq DOMAIN tree
    BY <1>1, <1>4, <2>1
  <2>10. QED
    BY <1>1, <2>1, <2>2, <2>3, <2>5, <2>6, <2>7, <2>8, <2>9 DEF IInv, WalkInv
<1>5. CASE g \notin processed /\ g \notin DOMAIN tree
  <2>1. /\ pc' = "exit" /\ stack' = <<>> /\ status' = "io_error"
        /\ processed' \subseteq Files /\ UNCHANGED <<dir, made>>
    BY <1>1, <1>2, <1>5 DEF ReadInclude, Enter, Exit, TypeOK, g
  <2>2. QED
    BY <1>1, <2>1 DEF IInv, TypeOK, SeedsThere, WalkInv, CopiedOnce, OnlyReached, Outputs
<1>6. QED
  BY <1>3, <1>4, <1>5

LEMMA CopyLineStep ==
    ASSUME IInv, CopyLine
    PROVE  IInv'
<1> DEFINE e == <<Top.file, Top.next>>
           L == Len(text[pc])
<1>1. /\ pc \in Outputs /\ stack # <<>> /\ TypeOK /\ setup \in Setups /\ Reading
      /\ Frames /\ Progress /\ Entries
      /\ Called \subseteq DOMAIN tree /\ Seed(pc) \in Called
      /\ setup' = setup /\ tree' = tree /\ stack' = Advanced
      /\ UNCHANGED <<pc, status, processed, dir, made>> /\ Called' = Called
      /\ text' = [text EXCEPT ![pc] = Append(text[pc], e)]
  BY DEF IInv, WalkInv, CopyLine, Reading, Write, tree, Called
<1>2. /\ Top.file \in Called /\ Top.file \in DOMAIN tree
      /\ Top.next \in 1 .. Len(tree[Top.file]) /\ ~Read(Top.file, Top.next)
      /\ ~Follows(pc, tree[Top.file][Top.next])
      /\ ~ForHeader(pc, tree[Top.file][Top.next])
  BY AtLine DEF CopyLine
<1>3. e \in Files \X Nat /\ Trace(pc, Top.file, Top.next) = e
  BY <1>1, <1>2, TreeType DEF Trace
<1> HIDE DEF e
<1>4. /\ text' \in [Outputs -> Seq(Files \X Nat)]
      /\ L \in Nat /\ Len(text'[pc]) = L + 1
      /\ \A m \in 1 .. L : text'[pc][m] = text[pc][m]
      /\ text'[pc][L + 1] = e
      /\ \A o \in Outputs : o # pc => text'[o] = text[o]
  BY <1>1, <1>3, AfterWrite
<1>5. /\ Frames'
      /\ \A f : \A n \in Nat : Read(f, n)' <=> Read(f, n) \/ (f = Top.file /\ n = Top.next)
  BY <1>1, AfterAdvance
<1>6. TypeOK'
  BY <1>1, <1>4, AdvancedFrames DEF TypeOK
<1>7. ASSUME NEW f \in Called', NEW n \in 1 .. Len(tree[f]), Read(f, n)'
      PROVE  IF Follows(pc, tree[f][n]) THEN tree[f][n].to \in Called'
             ELSE \E m \in 1 .. Len(text'[pc]) : text'[pc][m] = Trace(pc, f, n)
  <2>1. L + 1 \in 1 .. Len(text'[pc]) /\ \A m \in 1 .. L : m \in 1 .. Len(text'[pc])
    BY <1>4
  <2>2. CASE f = Top.file /\ n = Top.next
    BY <1>2, <1>3, <1>4, <2>1, <2>2
  <2>3. CASE Read(f, n)
    BY <1>1, <1>4, <2>1, <2>3 DEF Progress, Copied
  <2>4. QED
    BY <1>5, <1>7, <2>2, <2>3
<1>8. Progress'
  BY <1>1, <1>7, ProgressStep
<1>9. e[1] = Top.file /\ e[2] = Top.next /\ e[2] \in Nat /\ e[2] > 0
  BY <1>2 DEF e
<1>10. ASSUME NEW m \in 1 .. L
       PROVE  text[pc][m] # e /\ text[pc][m][2] \in Nat
  <2>1. text[pc][m] \in Files \X Nat
    BY <1>1, ElementOfSeq DEF TypeOK
  <2>2. text[pc][m] # <<GTEST_H, 0>> => Read(text[pc][m][1], text[pc][m][2])
    BY <1>1 DEF Entries
  <2>3. QED
    BY <1>2, <1>9, <2>1, <2>2
<1>11. Entries'
  <2> SUFFICES ASSUME NEW m \in 1 .. L + 1
               PROVE  \/ /\ text'[pc][m] = <<GTEST_H, 0>>
                         /\ GTEST_H \in processed /\ pc = "cc"
                      \/ /\ text'[pc][m][1] \in Called /\ text'[pc][m][2] > 0
                         /\ \A f, n : f = text'[pc][m][1] /\ n = text'[pc][m][2]
                                        => Read(f, n)'
    BY <1>1, <1>4 DEF Entries
  <2>1. CASE m = L + 1
    BY <1>2, <1>4, <1>5, <1>9, <2>1
  <2>2. CASE m \in 1 .. L
    BY <1>1, <1>4, <1>5, <1>10, <2>2 DEF Entries
  <2>3. QED
    BY <1>4, <2>1, <2>2
<1>12. CopiedOnce'
  BY <1>1, <1>4, <1>10, StillOnce DEF IInv
<1>13. SeedsThere' /\ OnlyReached' /\ (Seed(pc) \in Called)'
  BY <1>1 DEF IInv, SeedsThere, OnlyReached, Seed, Closed
<1>14. HeaderMark'
  <2>1. HeaderMark /\ \A m \in 1 .. L : m \in 1 .. Len(text'[pc])
    BY <1>1, <1>4 DEF IInv, WalkInv
  <2>2. QED
    BY <1>1, <1>4, <2>1 DEF HeaderMark
<1>15. QED
  BY <1>1, <1>5, <1>6, <1>8, <1>11, <1>12, <1>13, <1>14 DEF IInv, WalkInv

LEMMA IncludeHeaderStep ==
    ASSUME IInv, IncludeHeader
    PROVE  IInv'
<1> DEFINE e == <<GTEST_H, 0>>
           L == Len(text[pc])
<1>1. /\ pc \in Outputs /\ stack # <<>> /\ TypeOK /\ setup \in Setups /\ Reading
      /\ Frames /\ Progress /\ Entries
      /\ Called \subseteq DOMAIN tree /\ Seed(pc) \in Called
      /\ setup' = setup /\ tree' = tree /\ stack' = Advanced
      /\ UNCHANGED <<pc, status, dir, made>> /\ processed' = processed \cup {GTEST_H}
      /\ text' = IF GTEST_H \in processed THEN text
                 ELSE [text EXCEPT ![pc] = Append(text[pc], e)]
  BY DEF IInv, WalkInv, IncludeHeader, Reading, Write, tree
<1>2. /\ Top.file \in Called /\ Top.file \in DOMAIN tree
      /\ Top.next \in 1 .. Len(tree[Top.file])
      /\ ForHeader(pc, tree[Top.file][Top.next])
  BY AtLine DEF IncludeHeader
<1>3. /\ pc = "cc" /\ e \in Files \X Nat /\ Trace(pc, Top.file, Top.next) = e
      /\ ~Follows(pc, tree[Top.file][Top.next])
      /\ Called' = Called /\ GTEST_H \notin Called /\ processed' \subseteq Files
  BY <1>1, <1>2, SeedAssumption DEF Trace, ForHeader, Files, Called, TypeOK
<1>4. /\ Frames'
      /\ \A f : \A n \in Nat : Read(f, n)' <=> Read(f, n) \/ (f = Top.file /\ n = Top.next)
  BY <1>1, <1>3, AfterAdvance
<1>5. L \in Nat /\ \A m \in 1 .. L : text[pc][m] \in Files \X Nat
  BY <1>1, ElementOfSeq, LenProperties DEF TypeOK
<1>6. SeedsThere' /\ OnlyReached' /\ (Seed(pc) \in Called)'
  BY <1>1, <1>3 DEF IInv, SeedsThere, OnlyReached, Seed, Closed
<1> HIDE DEF e
<1>7. CASE GTEST_H \in processed
  <2>1. text' = text /\ processed' = processed
    BY <1>1, <1>7
  <2>2. TypeOK' /\ CopiedOnce' /\ HeaderMark'
    BY <1>1, <2>1, AdvancedFrames
    DEF TypeOK, IInv, CopiedOnce, WalkInv, HeaderMark
  <2>3. \E m \in 1 .. L : text[pc][m] = e
    BY <1>1, <1>3, <1>7 DEF IInv, WalkInv, HeaderMark, e
  <2>4. ASSUME NEW f \in Called', NEW n \in 1 .. Len(tree[f]), Read(f, n)'
        PROVE  IF Follows(pc, tree[f][n]) THEN tree[f][n].to \in Called'
               ELSE \E m \in 1 .. Len(text'[pc]) : text'[pc][m] = Trace(pc, f, n)
    <3>1. CASE f = Top.file /\ n = Top.next
      BY <1>3, <2>1, <2>3, <3>1
    <3>2. CASE Read(f, n)
      BY <1>1, <1>3, <2>1, <3>2 DEF Progress, Copied
    <3>3. QED
      BY <1>4, <2>4, <3>1, <3>2
  <2>5. Progress'
    BY <1>1, <2>4, ProgressStep
  <2>6. Entries'
    BY <1>1, <1>3, <1>4, <1>5, <2>1 DEF Entries
  <2>7. QED
    BY <1>1, <1>3, <1>4, <1>6, <2>1, <2>2, <2>5, <2>6 DEF IInv, WalkInv
<1>8. CASE GTEST_H \notin processed
  <2>1. /\ text' \in [Outputs -> Seq(Files \X Nat)]
        /\ Len(text'[pc]) = L + 1
        /\ \A m \in 1 .. L : text'[pc][m] = text[pc][m]
        /\ text'[pc][L + 1] = e
        /\ \A o \in Outputs : o # pc => text'[o] = text[o]
    BY <1>1, <1>3, <1>8, AfterWrite
  <2>2. L + 1 \in 1 .. Len(text'[pc]) /\ \A m \in 1 .. L : m \in 1 .. Len(text'[pc])
    BY <1>5, <2>1
  <2>3. TypeOK' /\ HeaderMark'
    BY <1>1, <1>3, <2>1, <2>2, AdvancedFrames DEF TypeOK, HeaderMark, e
  <2>4. \A m \in 1 .. L : text[pc][m] # e
    BY <1>1, <1>3, <1>8 DEF Entries, e
  <2>5. CopiedOnce'
    BY <1>1, <1>5, <2>1, <2>4, StillOnce DEF IInv
  <2>6. ASSUME NEW f \in Called', NEW n \in 1 .. Len(tree[f]), Read(f, n)'
        PROVE  IF Follows(pc, tree[f][n]) THEN tree[f][n].to \in Called'
               ELSE \E m \in 1 .. Len(text'[pc]) : text'[pc][m] = Trace(pc, f, n)
    <3>1. CASE f = Top.file /\ n = Top.next
      BY <1>3, <2>1, <2>2, <3>1
    <3>2. CASE Read(f, n)
      BY <1>1, <1>3, <2>1, <2>2, <3>2 DEF Progress, Copied
    <3>3. QED
      BY <1>4, <2>6, <3>1, <3>2
  <2>7. Progress'
    BY <1>1, <2>6, ProgressStep
  <2>8. Entries'
    <3> SUFFICES ASSUME NEW m \in 1 .. L + 1
                 PROVE  \/ /\ text'[pc][m] = <<GTEST_H, 0>>
                           /\ GTEST_H \in processed' /\ pc = "cc"
                        \/ /\ text'[pc][m][1] \in Called /\ text'[pc][m][2] > 0
                           /\ \A f, n : f = text'[pc][m][1] /\ n = text'[pc][m][2]
                                          => Read(f, n)'
      BY <1>1, <1>3, <2>1 DEF Entries
    <3>1. CASE m = L + 1
      BY <1>1, <1>3, <2>1, <3>1 DEF e
    <3>2. CASE m \in 1 .. L
      BY <1>1, <1>4, <1>5, <2>1, <3>2 DEF Entries
    <3>3. QED
      BY <1>5, <3>1, <3>2
  <2>9. QED
    BY <1>1, <1>3, <1>4, <1>6, <2>3, <2>5, <2>7, <2>8 DEF IInv, WalkInv
<1>9. QED
  BY <1>7, <1>8

LEMMA EndOfFileStep ==
    ASSUME IInv, EndOfFile
    PROVE  IInv'
<1> DEFINE Frame == [file : DOMAIN tree, next : Nat]
           N == Len(stack)
<1>1. /\ pc \in Outputs /\ stack # <<>> /\ TypeOK /\ setup \in Setups
      /\ Frames /\ Progress /\ Entries /\ HeaderMark
      /\ Called \subseteq DOMAIN tree /\ Seed(pc) \in Called
      /\ Top.next > Len(tree[Top.file])
      /\ tree' = tree /\ Called' = Called
      /\ UNCHANGED <<pc, setup, dir, made, text, processed, status>>
  BY DEF IInv, WalkInv, EndOfFile, tree, Called
<1>2. stack' = SubSeq(stack, 1, N - 1)
  BY DEF EndOfFile
<1>3. N \in Nat \ {0} /\ stack \in Seq(Frame) /\ Top = stack[N]
  BY <1>1, AdvancedFrames DEF TypeOK, Top
<1> HIDE DEF Frame
<1>4. \A k \in 1 .. N : stack[k] \in Frame
  BY <1>3, ElementOfSeq
<1>5. /\ stack' \in Seq(Frame) /\ Len(stack') = N - 1
      /\ \A k \in 1 .. N - 1 : stack'[k] = stack[k]
  <2>1. \A k \in 1 .. N - 1 : stack[k] \in Frame
    BY <1>3, <1>4
  <2>2. /\ SubSeq(stack, 1, N - 1) \in Seq(Frame)
        /\ Len(SubSeq(stack, 1, N - 1)) = IF 1 <= N - 1 THEN (N - 1) - 1 + 1 ELSE 0
        /\ \A k \in 1 .. (N - 1) - 1 + 1 :
             SubSeq(stack, 1, N - 1)[k] = stack[1 + k - 1]
    BY <1>3, <2>1, SubSeqProperties
  <2>3. (N - 1) - 1 + 1 = N - 1 /\ \A k \in 1 .. N - 1 : 1 + k - 1 = k
    BY <1>3
  <2>4. QED
    BY <1>2, <1>3, <2>2, <2>3
<1>6. Frames'
  BY <1>1, <1>3, <1>5 DEF Frames
<1>7. ASSUME NEW f, NEW n \in Nat, Read(f, n)
      PROVE  Read(f, n)'
  BY <1>3, <1>5, <1>7 DEF Read
<1>8. ASSUME NEW f \in DOMAIN tree, NEW n \in 1 .. Len(tree[f]), Read(f, n)'
      PROVE  Read(f, n)
  <2>1. Len(tree[f]) \in Nat
    BY <1>1, TreeType, LenProperties
  <2>2. \A k \in 1 .. N : k \in 1 .. N - 1 \/ k = N
    BY <1>3
  <2>3. stack[N].next \in Nat
    BY <1>1, <1>3 DEF Frames
  <2>4. stack[N].file = f => n < stack[N].next
    BY <1>1, <1>3, <2>1, <2>3
  <2>5. \A k \in 1 .. N - 1 : stack[k].file = f => n < stack[k].next
    BY <1>5, <1>8 DEF Read
  <2>6. QED
    BY <2>2, <2>4, <2>5 DEF Read
<1>9. TypeOK'
  BY <1>1, <1>5 DEF TypeOK, Frame
<1>10. ASSUME NEW f \in Called', NEW n \in 1 .. Len(tree[f]), Read(f, n)'
       PROVE  IF Follows(pc, tree[f][n]) THEN tree[f][n].to \in Called'
              ELSE \E m \in 1 .. Len(text'[pc]) : text'[pc][m] = Trace(pc, f, n)
  <2>1. f \in Called /\ f \in DOMAIN tree
    BY <1>1
  <2>2. Read(f, n)
    BY <1>8, <1>10, <2>1
  <2>3. QED
    BY <1>1, <2>1, <2>2 DEF Progress, Copied
<1>11. Progress'
  BY <1>1, <1>10, ProgressStep
<1>12. Entries' /\ HeaderMark'
  <2>1. \A m \in 1 .. Len(text[pc]) : text[pc][m][2] \in Nat
    BY <1>1, ElementOfSeq DEF TypeOK
  <2>2. QED
    BY <1>1, <1>7, <2>1 DEF Entries, HeaderMark
<1>13. SeedsThere' /\ CopiedOnce' /\ OnlyReached' /\ (Seed(pc) \in Called)'
  BY <1>1 DEF IInv, SeedsThere, CopiedOnce, OnlyReached, Seed, Closed
<1>14. QED
  BY <1>1, <1>6, <1>9, <1>11, <1>12, <1>13 DEF IInv, WalkInv

(* A walk begins.                                                          *)
LEMMA OpenOutputStep ==
    ASSUME IInv, NEW o \in Outputs, NEW opening \in {"open_h", "open_cc"},
           OpenOutput(o, opening)
    PROVE  IInv'
<1>1. /\ TypeOK /\ setup \in Setups /\ setup' = setup /\ tree' = tree /\ dir' = dir
      /\ pc = opening /\ {GTEST_H, GTEST_ALL_CC} \subseteq DOMAIN tree
  BY DEF IInv, SeedsThere, OpenOutput, tree
<1>2. CASE o \in setup.writable
  <2> DEFINE frame == [file |-> Seed(o), next |-> 1]
  <2>1. /\ pc' = o /\ made' = made \cup {o} /\ text' = [text EXCEPT ![o] = <<>>]
        /\ processed' = {Seed(o)} /\ stack' = <<frame>> /\ status' = status
    BY <1>2 DEF OpenOutput
  <2>2. /\ Seed(o) \in DOMAIN tree /\ Seed(o) \in Files /\ Seed(o)' = Seed(o)
        /\ Seed("cc") # GTEST_H /\ Len(tree[Seed(o)]) \in Nat
    BY <1>1, SeedAssumption, TreeType, LenProperties DEF Seed, Files
  <2>3. Called' = {Seed(o)} /\ pc' \in Outputs /\ Seed(pc)' = Seed(o)
    BY <2>1, <2>2 DEF Called, Outputs, Seed
  <2>4. /\ text' \in [Outputs -> Seq(Files \X Nat)] /\ text'[pc'] = <<>>
        /\ \A p \in Outputs : p # o => text'[p] = text[p]
    BY <1>1, <2>1 DEF TypeOK
  <2>5. /\ stack' \in Seq([file : DOMAIN tree, next : Nat]) /\ Len(stack') = 1
        /\ stack'[1].file = Seed(o) /\ stack'[1].next = 1
    BY <2>1, <2>2
  <2>6. TypeOK'
    BY <1>1, <2>1, <2>2, <2>4, <2>5 DEF TypeOK, Outputs
  <2>7. Frames'
    BY <1>1, <2>2, <2>3, <2>5 DEF Frames
  <2>8. Progress'
    BY <2>3, <2>5 DEF Progress, Read
  <2>9. Entries' /\ HeaderMark' /\ SeedsThere'
    BY <1>1, <2>1, <2>2, <2>4 DEF Entries, HeaderMark, SeedsThere
  <2>10. CopiedOnce'
    BY <2>1, <2>4 DEF IInv, CopiedOnce
  <2>11. OnlyReached'
    BY <2>3 DEF OnlyReached
  <2>12. QED
    BY <1>1, <2>2, <2>3, <2>6, <2>7, <2>8, <2>9, <2>10, <2>11 DEF IInv, WalkInv
<1>3. CASE o \notin setup.writable
  BY <1>1, <1>3
  DEF OpenOutput, Exit, IInv, TypeOK, SeedsThere, WalkInv, CopiedOnce, OnlyReached, Outputs
<1>4. QED
  BY <1>2, <1>3

(* The steps around the walks write nothing.                               *)
LEMMA OtherStep ==
    ASSUME IInv,
           \/ Main \/ ValidateGTestRootDir \/ CloseOutput
           \/ VerifyOutputFile("h", "ask_h") \/ VerifyOutputFile("cc", "ask_cc")
           \/ UNCHANGED vars
    PROVE  IInv'
<1>1. CASE UNCHANGED vars
  <2>1. /\ UNCHANGED <<pc, setup, dir, made, text, processed, stack, status>>
        /\ tree' = tree /\ Called' = Called
    BY <1>1 DEF vars, tree, Called
  <2>2. TypeOK' /\ (setup \in Setups)' /\ SeedsThere' /\ CopiedOnce'
    BY <2>1 DEF IInv, TypeOK, SeedsThere, CopiedOnce
  <2>3. OnlyReached'
    BY <2>1 DEF IInv, OnlyReached, Seed, Closed, Follows
  <2>4. ASSUME pc \in Outputs
        PROVE  /\ Called \subseteq DOMAIN tree /\ Seed(pc) \in Called
               /\ Frames /\ Progress /\ Entries /\ HeaderMark
    BY <2>4 DEF IInv, WalkInv
  <2>5. ASSUME pc \in Outputs
        PROVE  Progress'
    <3>1. \A f, n : Read(f, n)' <=> Read(f, n)
      BY <2>1 DEF Read
    <3>2. QED
      BY <2>1, <2>4, <2>5, <3>1, ProgressStep DEF Progress, Copied
  <2>6. ASSUME pc \in Outputs
        PROVE  Frames' /\ Entries' /\ HeaderMark' /\ (Seed(pc) \in Called)'
    BY <2>1, <2>4, <2>6 DEF Frames, Entries, HeaderMark, Read, Seed
  <2>7. QED
    BY <2>1, <2>2, <2>3, <2>4, <2>5, <2>6 DEF IInv, WalkInv
<1>2. CASE ~UNCHANGED vars
  <2>1. /\ TypeOK /\ setup \in Setups /\ SeedsThere /\ CopiedOnce
        /\ setup' = setup /\ tree' = tree
        /\ UNCHANGED <<made, text, processed, stack>>
    BY <1>2 DEF IInv, Main, ValidateGTestRootDir, CloseOutput, VerifyOutputFile, tree
  <2>2. /\ pc' \in {"root", "ask_h", "ask_cc", "open_h", "open_cc", "exit"}
        /\ pc' \notin {"root", "exit"} => {GTEST_H, GTEST_ALL_CC} \subseteq DOMAIN tree
        /\ dir' \in BOOLEAN
        /\ status' \in {"running", "usage", "no_seed", "aborted", "io_error", "ok"}
    BY <1>2, <2>1 DEF TypeOK, SeedsThere, Main, ValidateGTestRootDir, CloseOutput,
      VerifyOutputFile, FuseGTest, Exit, Outputs
  <2>3. QED
    BY <2>1, <2>2 DEF IInv, TypeOK, SeedsThere, WalkInv, CopiedOnce, OnlyReached, Outputs
<1>3. QED
  BY <1>1, <1>2

-----------------------------------------------------------------------------
LEMMA InitInv == Init => IInv
<1> SUFFICES ASSUME Init PROVE IInv
  OBVIOUS
<1>1. setup.dir \in BOOLEAN
  BY SetupAssumption DEF Init
<1>2. <<>> \in Seq(Files \X Nat) /\ <<>> \in Seq([file : DOMAIN tree, next : Nat])
  BY EmptySeq
<1>3. TypeOK
  BY <1>1, <1>2 DEF Init, TypeOK
<1>4. QED
  BY <1>3 DEF Init, IInv, SeedsThere, WalkInv, CopiedOnce, OnlyReached, Outputs

LEMMA StepInv == IInv /\ [Next]_vars => IInv'
<1> SUFFICES ASSUME IInv, [Next]_vars PROVE IInv'
  OBVIOUS
<1>1. CASE OpenOutput("h", "open_h")
  BY <1>1, OpenOutputStep DEF Outputs
<1>2. CASE OpenOutput("cc", "open_cc")
  BY <1>2, OpenOutputStep DEF Outputs
<1>3. QED
  BY <1>1, <1>2, ReadIncludeStep, IncludeHeaderStep, CopyLineStep, EndOfFileStep,
    OtherStep DEF Next

LEMMA Invariance == Spec => []IInv
BY InitInv, StepInv, PTL DEF Spec

(* For every source tree: no line is written twice to an output, although  *)
(* ProcessFile() is called for every include and files include each other. *)
THEOREM FuseCopiesOnce == Spec => []CopiedOnce
<1>1. IInv => CopiedOnce
  BY DEF IInv
<1>2. QED
  BY <1>1, Invariance, PTL

(* For every source tree: when the call of ProcessFile() for the seed has  *)
(* returned, the files read are closed under the includes to follow, and   *)
(* each of their other lines is in the output.                             *)
THEOREM FuseWalkComplete == Spec => []WalkComplete
<1>1. IInv => WalkComplete
  <2> SUFFICES ASSUME IInv, pc \in Outputs, stack = <<>>
               PROVE  /\ Called \subseteq DOMAIN tree /\ Seed(pc) \in Called
                      /\ Closed(pc, Called)
                      /\ \A f \in Called : \A n \in 1 .. Len(tree[f]) :
                           Follows(pc, tree[f][n]) \/ Copied(pc, Trace(pc, f, n))
    BY DEF WalkComplete
  <2>1. /\ Called \subseteq DOMAIN tree /\ Seed(pc) \in Called /\ Progress
    BY DEF IInv, WalkInv
  <2>2. \A f, n : Read(f, n)
    BY DEF Read
  <2>3. QED
    BY <2>1, <2>2 DEF Progress, Closed
<1>2. QED
  BY <1>1, Invariance, PTL

(* For every source tree: ProcessFile() is called only for files that every*)
(* set closed under the includes to follow has with the seed.              *)
THEOREM FuseOnlyReached == Spec => []OnlyReached
<1>1. IInv => OnlyReached
  BY DEF IInv
<1>2. QED
  BY <1>1, Invariance, PTL
=============================================================================
