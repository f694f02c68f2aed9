--------------------------- MODULE SpinLockProofs ---------------------------
(***************************************************************************)
(* Proofs about ywSpinLock for every finite set of at most INT16_MAX       *)
(* clients: status is exact, no assertion of release() fails, and the lock *)
(* implements the abstract reader/writer lock.                             *)
(***************************************************************************)
EXTENDS SpinLock, FiniteSetTheorems, TLAPS

(* What a client knows of the value it has loaded.                         *)
PrevInv ==
    \A c \in Clients : /\ pc[c] = "r_cas" => prev[c] >= 0
                       /\ pc[c] = "w_cas" => prev[c] = NONE
                       /\ pc[c] = "r_rel_cas" => prev[c] > 0

IInv == TypeOK /\ PrevInv /\ StatusExact /\ NoAbort

(* All that the proofs use of the width of status.                         *)
LEMMA Width ==
    INT16_MAX \in Nat /\ WLOCK \in Int /\ WLOCK < 0 /\ -(INT16_MAX + 1) <= WLOCK
BY DEF INT16_MAX, WLOCK

(* A set of clients is finite and its size fits in status.                 *)
LEMMA ClientSet ==
    ASSUME NEW S, S \subseteq Clients
    PROVE  /\ IsFiniteSet(S)
           /\ Cardinality(S) \in 0 .. INT16_MAX
<1>1. IsFiniteSet(S) /\ Cardinality(S) <= Cardinality(Clients)
  BY ClientsAssumption, FS_Subset
<1>2. Cardinality(S) \in Nat /\ Cardinality(Clients) \in Nat
  BY <1>1, ClientsAssumption, FS_CardinalityType
<1>3. QED
  BY <1>1, <1>2, Width, ClientsAssumption

(* One client more.                                                        *)
LEMMA AddClient ==
    ASSUME NEW S, S \subseteq Clients, NEW c \in Clients, c \notin S
    PROVE  /\ Cardinality(S \cup {c}) = Cardinality(S) + 1
           /\ Cardinality(S) + 1 <= INT16_MAX
<1>1. Cardinality(S \cup {c}) = Cardinality(S) + 1
  BY ClientSet, FS_AddElement
<1>2. S \cup {c} \subseteq Clients
  OBVIOUS
<1>3. Cardinality(S \cup {c}) \in 0 .. INT16_MAX
  BY <1>2, ClientSet
<1>4. QED
  BY <1>1, <1>3

(* One client less.                                                        *)
LEMMA RemoveClient ==
    ASSUME NEW S, S \subseteq Clients, NEW c \in S
    PROVE  /\ Cardinality(S \ {c}) = Cardinality(S) - 1
           /\ Cardinality(S) > 0
<1>1. Cardinality(S \ {c}) = Cardinality(S) - 1
  BY ClientSet, FS_RemoveElement
<1>2. S \ {c} \subseteq Clients
  OBVIOUS
<1>3. /\ Cardinality(S \ {c}) \in 0 .. INT16_MAX
      /\ Cardinality(S) \in 0 .. INT16_MAX
  BY <1>2, ClientSet
<1>4. QED
  BY <1>1, <1>3, Width

(* The conversion to int16_t keeps a value that fits.                      *)
LEMMA Int16Fits ==
    ASSUME NEW x \in 0 .. INT16_MAX
    PROVE  Int16(x) = x
BY Width DEF Int16

(* Who holds what, and therefore what a step can find in status.           *)
LEMMA Holders ==
    ASSUME IInv
    PROVE  /\ Readers \subseteq Clients /\ Writers \subseteq Clients
           /\ status < 0 <=> Writers # {}
           /\ Readers # {} => status = Cardinality(Readers) /\ status > 0
           /\ Writers # {} => status = WLOCK /\ Readers = {}
           /\ status >= 0 => Writers = {} /\ status = Cardinality(Readers)
           /\ status = NONE => Readers = {} /\ Writers = {}
<1>1. Readers \subseteq Clients /\ Writers \subseteq Clients
  BY DEF Readers, Writers
<1>2. Cardinality(Readers) \in 0 .. INT16_MAX
  BY <1>1, ClientSet
<1>3. Readers # {} => Cardinality(Readers) > 0
  <2>1. ASSUME NEW c \in Readers  PROVE Cardinality(Readers) > 0
    BY <1>1, RemoveClient
  <2>2. QED
    BY <2>1
<1>4. CASE Writers = {} /\ status = Cardinality(Readers)
  BY <1>1, <1>2, <1>3, <1>4, Width DEF NONE
<1>5. CASE Readers = {} /\ status = WLOCK /\ \E c \in Clients : Writers = {c}
  BY <1>1, <1>5, Width DEF NONE
<1>6. QED
  BY <1>4, <1>5 DEF IInv, StatusExact

LEMMA InitIInv == Init => IInv
<1>1. SUFFICES ASSUME Init PROVE IInv
  OBVIOUS
<1>2. Readers = {} /\ Writers = {}
  BY <1>1 DEF Init, Readers, Writers
<1>3. Cardinality({}) = 0
  BY FS_EmptySet
<1>4. QED
  BY <1>1, <1>2, <1>3, Width
  DEF Init, IInv, TypeOK, PrevInv, StatusExact, NoAbort, PCs, NONE

(* Every step preserves the invariant; one case per action.                *)
LEMMA StepIInv == IInv /\ [Next]_vars => IInv'
<1> SUFFICES ASSUME IInv, [Next]_vars PROVE IInv'
  OBVIOUS
<1> USE DEF IInv, TypeOK, PrevInv, NoAbort, PCs, NONE, Goto
<1>1. CASE UNCHANGED vars
  BY <1>1 DEF vars, StatusExact, Readers, Writers
<1>2. ASSUME NEW c \in Clients, Step(c)
      PROVE  IInv'
  <2> DEFINE Same == Readers' = Readers /\ Writers' = Writers
  <2>0. ASSUME Same, status' = status  PROVE StatusExact'
    BY <2>0 DEF StatusExact
  <2>1. CASE RLock(c)
    <3>1. Same
      BY <2>1 DEF RLock, Readers, Writers
    <3>2. QED
      BY <2>1, <3>1, <2>0 DEF RLock
  <2>2. CASE RLoad(c)
    <3>1. Same
      BY <2>2 DEF RLoad, Readers, Writers
    <3>2. QED
      BY <2>2, <3>1, <2>0 DEF RLoad
  <2>3. CASE WLock(c)
    <3>1. Same
      BY <2>3 DEF WLock, Readers, Writers
    <3>2. QED
      BY <2>3, <3>1, <2>0 DEF WLock
  <2>4. CASE WLoad(c)
    <3>1. Same
      BY <2>4 DEF WLoad, Readers, Writers
    <3>2. QED
      BY <2>4, <3>1, <2>0 DEF WLoad
  <2>5. CASE GiveUp(c)
    <3>1. Same
      BY <2>5 DEF GiveUp, Readers, Writers
    <3>2. QED
      BY <2>5, <3>1, <2>0 DEF GiveUp
  <2>6. CASE RCas(c)
    <3>1. CASE status = prev[c]
      <4>1. Writers = {} /\ status = Cardinality(Readers)
        BY <2>6, <3>1, Holders DEF RCas
      <4>2. c \notin Readers /\ Readers \subseteq Clients
        BY <2>6 DEF RCas, Readers
      <4>3. Readers' = Readers \cup {c} /\ Writers' = Writers
        BY <2>6, <3>1 DEF RCas, Readers, Writers
      <4>4. /\ Cardinality(Readers') = status + 1
            /\ status + 1 \in 0 .. INT16_MAX
        BY <4>1, <4>2, <4>3, AddClient, ClientSet, Width
      <4>5. status' = status + 1
        BY <2>6, <3>1, <4>4, Int16Fits DEF RCas
      <4>6. StatusExact'
        BY <4>1, <4>3, <4>4, <4>5 DEF StatusExact
      <4>7. QED
        BY <2>6, <3>1, <4>4, <4>5, <4>6, Width DEF RCas
    <3>2. CASE status # prev[c]
      <4>1. Same
        BY <2>6, <3>2 DEF RCas, Readers, Writers
      <4>2. QED
        BY <2>6, <3>2, <4>1, <2>0 DEF RCas
    <3>3. QED
      BY <3>1, <3>2
  <2>7. CASE WCas(c)
    <3>1. CASE status = prev[c]
      <4>1. Readers = {} /\ Writers = {}
        BY <2>7, <3>1, Holders DEF WCas
      <4>2. Readers' = {} /\ Writers' = {c}
        BY <2>7, <3>1, <4>1 DEF WCas, Readers, Writers
      <4>3. StatusExact'
        BY <2>7, <3>1, <4>2 DEF WCas, StatusExact
      <4>4. QED
        BY <2>7, <3>1, <4>3, Width DEF WCas
    <3>2. CASE status # prev[c]
      <4>1. Same
        BY <2>7, <3>2 DEF WCas, Readers, Writers
      <4>2. QED
        BY <2>7, <3>2, <4>1, <2>0 DEF WCas
    <3>3. QED
      BY <3>1, <3>2
  <2>8. CASE Release(c)
    <3>1. (pc[c] = "reading" => status > 0) /\ (pc[c] = "writing" => status < 0)
      <4>1. (pc[c] = "reading" => c \in Readers) /\ (pc[c] = "writing" => c \in Writers)
        BY DEF Readers, Writers
      <4>2. QED
        BY <4>1, Holders
    <3>2. Same
      BY <2>8, <3>1 DEF Release, Readers, Writers
    <3>3. QED
      BY <2>8, <3>2, <2>0 DEF Release
  <2>9. CASE WRelCas(c)
    <3>1. c \in Writers
      BY <2>9 DEF WRelCas, Writers
    <3>2. status = WLOCK /\ Readers = {} /\ Writers = {c}
      BY <3>1, Holders DEF StatusExact
    <3>3. Readers' = {} /\ Writers' = {}
      BY <2>9, <3>2 DEF WRelCas, Readers, Writers
    <3>4. StatusExact'
      BY <2>9, <3>2, <3>3, FS_EmptySet DEF WRelCas, StatusExact
    <3>5. QED
      BY <2>9, <3>2, <3>4, Width DEF WRelCas
  <2>10. CASE RRelLoad(c)
    <3>1. c \in Readers
      BY <2>10 DEF RRelLoad, Readers
    <3>2. status > 0
      BY <3>1, Holders
    <3>3. Same
      BY <2>10, <3>2 DEF RRelLoad, Readers, Writers
    <3>4. QED
      BY <2>10, <3>2, <3>3, <2>0 DEF RRelLoad
  <2>11. CASE RRelCas(c)
    <3>1. CASE status = prev[c]
      <4>1. c \in Readers /\ Readers \subseteq Clients
        BY <2>11 DEF RRelCas, Readers
      <4>2. Writers = {} /\ status = Cardinality(Readers) /\ status > 0
        BY <4>1, Holders
      <4>3. Readers' = Readers \ {c} /\ Writers' = Writers
        BY <2>11, <3>1 DEF RRelCas, Readers, Writers
      <4>4. Cardinality(Readers') = status - 1
        BY <4>1, <4>2, <4>3, RemoveClient
      <4>5. StatusExact'
        BY <2>11, <3>1, <4>2, <4>3, <4>4 DEF RRelCas, StatusExact
      <4>6. QED
        BY <2>11, <3>1, <4>2, <4>5, Width DEF RRelCas
    <3>2. CASE status # prev[c]
      <4>1. Same
        BY <2>11, <3>2 DEF RRelCas, Readers, Writers
      <4>2. QED
        BY <2>11, <3>2, <4>1, <2>0 DEF RRelCas
    <3>3. QED
      BY <3>1, <3>2
  <2>12. QED
    BY <1>2, <2>1, <2>2, <2>3, <2>4, <2>5, <2>6, <2>7, <2>8, <2>9, <2>10, <2>11 DEF Step, Acquiring, Releasing
<1>3. QED
  BY <1>1, <1>2 DEF Next

(* status always counts the readers or marks the one writer, and no        *)
(* assertion of release() fails.                                           *)
THEOREM StatusIsExact == Spec => [](TypeOK /\ StatusExact /\ NoAbort)
<1>1. IInv => TypeOK /\ StatusExact /\ NoAbort
  BY DEF IInv
<1>2. QED
  BY <1>1, InitIInv, StepIInv, PTL DEF Spec

(* ywSpinLock implements the abstract lock: a successful compare-and-swap  *)
(* of an acquisition is RAcquire or WAcquire, a successful one of a        *)
(* release is RWRelease, and every other step leaves the holders alone.    *)
THEOREM Refinement == Spec => ImplementsRWLock
<1> USE DEF Goto, Abstract!RWNext, Abstract!RAcquire, Abstract!WAcquire,
            Abstract!RWRelease, Abstract!rwVars
<1>1. Init => Abstract!RWInit
  BY DEF Init, Abstract!RWInit, Readers, Writers
<1>2. ASSUME IInv, IInv', [Next]_vars  PROVE [Abstract!RWNext]_(Abstract!rwVars)
  <2> USE <1>2 DEF IInv, TypeOK
  <2>1. CASE UNCHANGED vars
    BY <2>1 DEF vars, Readers, Writers
  <2>2. ASSUME NEW c \in Clients, Step(c)
        PROVE  [Abstract!RWNext]_(Abstract!rwVars)
    <3>1. CASE RCas(c) /\ status = prev[c]
      <4>1. Writers = {}
        BY <3>1, Holders DEF RCas, PrevInv
      <4>2. c \notin Readers /\ Readers' = Readers \cup {c} /\ Writers' = Writers
        BY <3>1 DEF RCas, Readers, Writers
      <4>3. QED
        BY <4>1, <4>2
    <3>2. CASE WCas(c) /\ status = prev[c]
      <4>1. Readers = {} /\ Writers = {}
        BY <3>2, Holders DEF WCas, PrevInv
      <4>2. Readers' = Readers /\ Writers' = {c}
        BY <3>2, <4>1 DEF WCas, Readers, Writers
      <4>3. QED
        BY <4>1, <4>2
    <3>3. CASE WRelCas(c) \/ (RRelCas(c) /\ status = prev[c])
      <4>1. c \in Readers \cup Writers
        BY <3>3 DEF WRelCas, RRelCas, Readers, Writers
      <4>2. Readers' = Readers \ {c} /\ Writers' = Writers \ {c}
        BY <3>3 DEF WRelCas, RRelCas, Readers, Writers
      <4>3. QED
        BY <4>1, <4>2
    <3>4. CASE Release(c)
      <4>1. pc[c] = "reading" => c \in Readers
        BY DEF Readers
      <4>2. pc[c] = "writing" => c \in Writers
        BY DEF Writers
      <4>3. (pc[c] = "reading" => status > 0) /\ (pc[c] = "writing" => status < 0)
        BY <4>1, <4>2, Holders
      <4>4. Readers' = Readers /\ Writers' = Writers
        BY <3>4, <4>3 DEF Release, Readers, Writers
      <4>5. QED
        BY <4>4
    <3>5. CASE RRelLoad(c)
      <4>1. Readers' = Readers /\ Writers' = Writers
        BY <3>5 DEF RRelLoad, Readers, Writers, NoAbort
      <4>2. QED
        BY <4>1
    <3>6. CASE \/ RLock(c) \/ WLock(c) \/ GiveUp(c) \/ RLoad(c) \/ WLoad(c)
               \/ RCas(c) /\ status # prev[c]
               \/ WCas(c) /\ status # prev[c]
               \/ RRelCas(c) /\ status # prev[c]
      <4>1. Readers' = Readers /\ Writers' = Writers
        BY <3>6 DEF RLock, WLock, GiveUp, RLoad, WLoad, RCas, WCas, RRelCas,
                    Readers, Writers
      <4>2. QED
        BY <4>1
    <3>7. QED
      BY <2>2, <3>1, <3>2, <3>3, <3>4, <3>5, <3>6 DEF Step, Acquiring, Releasing
  <2>3. QED
    BY <2>1, <2>2 DEF Next
<1>3. QED
  BY <1>1, <1>2, InitIInv, StepIInv, PTL
  DEF Spec, ImplementsRWLock, Abstract!RWSpec
=============================================================================
