-------------------------- MODULE LockGuardProofs --------------------------
(***************************************************************************)
(* Proofs that a guard's arrays are exactly the locks its thread has, and  *)
(* that a caller may rely on what it was granted, for any guards, locks    *)
(* and capacity.                                                           *)
(*                                                                         *)
(* Neither property is inductive.  A grant is kept by the guard's arrays,  *)
(* so IInv says that what is granted is in the arrays; the arrays stay     *)
(* exact because a guard that waits does not have what it waits for; and   *)
(* a grant excludes the others because the locks do.                       *)
(***************************************************************************)
EXTENDS LockGuard, SequenceTheorems, TLAPS

(* A lock has one writer and then no reader.                               *)
Exclusion ==
    \A l \in Locks : \A g \in writers[l] : writers[l] = {g} /\ readers[l] = {}

(* A guard waits for a lock that it does not have and has room for.        *)
Waiting ==
    \A g \in Guards :
        /\ pc[g] = "w_wait" => /\ want[g] \in Locks
                               /\ ~Contains(wlock[g], want[g])
                               /\ Len(wlock[g]) < GUARD_SIZE
        /\ pc[g] = "r_wait" => /\ want[g] \in Locks
                               /\ ~Contains(wlock[g], want[g])
                               /\ ~Contains(rlock[g], want[g])
                               /\ Len(rlock[g]) < GUARD_SIZE

(* What was granted is in the arrays; release() begins by giving it up.    *)
Granted ==
    \A g \in Guards :
        /\ pc[g] = "release" => granted[g] = {}
        /\ \A l \in Locks :
               /\ <<"w", l>> \in granted[g] => Contains(wlock[g], l)
               /\ <<"r", l>> \in granted[g] =>
                      Contains(rlock[g], l) \/ Contains(wlock[g], l)

IInv == TypeOK /\ GuardExact /\ Exclusion /\ Waiting /\ Granted
-----------------------------------------------------------------------------
(* An element put at the end of an array is in it, with all the others.    *)
LEMMA AppendContains ==
    ASSUME NEW S, NEW s \in Seq(S), NEW e \in S
    PROVE  /\ Append(s, e) \in Seq(S)
           /\ Len(Append(s, e)) = Len(s) + 1
           /\ \A x : Contains(Append(s, e), x) <=> Contains(s, x) \/ x = e
           /\ IsInjective(s) /\ ~Contains(s, e) => IsInjective(Append(s, e))
<1>1. /\ Append(s, e) \in Seq(S)
      /\ Len(Append(s, e)) = Len(s) + 1
      /\ \A i \in 1 .. Len(s) : Append(s, e)[i] = s[i]
      /\ Append(s, e)[Len(s) + 1] = e
  BY AppendProperties
<1>2. Len(s) \in Nat /\ DOMAIN s = 1 .. Len(s)
      /\ DOMAIN Append(s, e) = 1 .. Len(s) + 1
  BY <1>1, LenProperties
<1> DEFINE t == Append(s, e)
<1> HIDE DEF t
<1>3. \A x : Contains(t, x) <=> Contains(s, x) \/ x = e
  BY <1>1, <1>2 DEF Contains, t
<1>4. IsInjective(s) /\ ~Contains(s, e) => IsInjective(t)
  BY <1>1, <1>2 DEF Contains, IsInjective, t
<1>5. QED
  BY <1>1, <1>3, <1>4 DEF t

(* Without its last element an array without duplicates has all but that.  *)
LEMMA FrontContains ==
    ASSUME NEW S, NEW s \in Seq(S), s # <<>>, IsInjective(s)
    PROVE  /\ Last(s) \in S
           /\ Contains(s, Last(s))
           /\ Front(s) \in Seq(S)
           /\ Len(Front(s)) = Len(s) - 1
           /\ \A x : Contains(Front(s), x) <=> Contains(s, x) /\ x # Last(s)
           /\ IsInjective(Front(s))
<1>1. Len(s) \in Nat /\ Len(s) # 0 /\ DOMAIN s = 1 .. Len(s)
  BY EmptySeq, LenProperties
<1>2. \A i \in 1 .. Len(s) : s[i] \in S
  BY ElementOfSeq
<1> DEFINE t == Front(s)
           n == Len(s)
<1>3. /\ t \in Seq(S) /\ Len(t) = n - 1
      /\ \A i \in 1 .. n - 1 : t[i] = s[i]
  BY <1>1, SubSeqProperties DEF Front
<1>4. DOMAIN t = 1 .. n - 1
  BY <1>3, LenProperties
<1> HIDE DEF t, n
<1>5. n \in Nat /\ n # 0 /\ DOMAIN s = 1 .. n /\ Len(s) = n
  BY <1>1 DEF n
<1>6. \A i \in 1 .. n : s[i] = s[n] => i = n
  BY <1>5 DEF IsInjective
<1>7. \A x : Contains(t, x) <=> Contains(s, x) /\ x # s[n]
  BY <1>3, <1>5, <1>6 DEF Contains
<1>8. IsInjective(t)
  BY <1>3, <1>4, <1>5 DEF IsInjective
<1>9. s[n] \in S /\ Contains(s, s[n])
  BY <1>2, <1>5 DEF Contains
<1>10. QED
  BY <1>3, <1>5, <1>7, <1>8, <1>9 DEF t, n, Last
-----------------------------------------------------------------------------
(* The guards start with empty arrays and free locks.                      *)
LEMMA InitIInv == Init => IInv
<1> SUFFICES ASSUME Init PROVE IInv
  OBVIOUS
<1>1. \A x : ~Contains(<<>>, x)
  BY DEF Contains
<1>2. IsInjective(<<>>)
  BY DEF IsInjective
<1>3. TypeOK
  BY EmptySeq, GuardSizeAssumption DEF Init, TypeOK
<1>4. GuardExact
  BY <1>1, <1>2 DEF Init, GuardExact
<1>5. Exclusion /\ Waiting /\ Granted
  BY DEF Init, Exclusion, Waiting, Granted
<1>6. QED
  BY <1>3, <1>4, <1>5 DEF IInv

(* Calls that are answered at once, begin to wait, give up or return.      *)
LEMMA QuietSteps ==
    ASSUME IInv, NEW g \in Guards,
           \/ \E l \in Locks : WLockHeld(g, l) \/ WLock(g, l) \/ RLockHeld(g, l) \/ RLock(g, l)
           \/ Timeout(g) \/ Release(g) \/ ReleaseEnd(g)
    PROVE  IInv'
<1> USE DEF IInv
<1>1. ASSUME NEW l \in Locks, WLockHeld(g, l) PROVE IInv'
  <2>1. TypeOK'
    BY <1>1 DEF TypeOK, WLockHeld, Grant
  <2>2. GuardExact' /\ Exclusion' /\ Waiting'
    BY <1>1 DEF GuardExact, Exclusion, Waiting, WLockHeld
  <2>3. Granted'
    BY <1>1 DEF TypeOK, Granted, WLockHeld, Grant
  <2>4. QED
    BY <2>1, <2>2, <2>3
<1>2. ASSUME NEW l \in Locks, RLockHeld(g, l) PROVE IInv'
  <2>1. TypeOK'
    BY <1>2 DEF TypeOK, RLockHeld, Grant
  <2>2. GuardExact' /\ Exclusion' /\ Waiting'
    BY <1>2 DEF GuardExact, Exclusion, Waiting, RLockHeld
  <2>3. Granted'
    BY <1>2 DEF TypeOK, Granted, RLockHeld, Grant
  <2>4. QED
    BY <2>1, <2>2, <2>3
<1>3. ASSUME NEW l \in Locks, WLock(g, l) \/ RLock(g, l) PROVE IInv'
  <2>1. TypeOK'
    BY <1>3 DEF TypeOK, WLock, RLock, Wait
  <2>2. GuardExact' /\ Exclusion'
    BY <1>3 DEF GuardExact, Exclusion, WLock, RLock, Wait
  <2>3. Waiting'
    BY <1>3 DEF TypeOK, Waiting, WLock, RLock, Wait
  <2>4. Granted'
    BY <1>3 DEF TypeOK, Granted, WLock, RLock, Wait
  <2>5. QED
    BY <2>1, <2>2, <2>3, <2>4
<1>4. ASSUME Timeout(g) \/ Release(g) \/ ReleaseEnd(g) PROVE IInv'
  <2>1. TypeOK'
    BY <1>4 DEF TypeOK, Timeout, Release, ReleaseEnd, Return
  <2>2. GuardExact' /\ Exclusion'
    BY <1>4 DEF GuardExact, Exclusion, Timeout, Release, ReleaseEnd, Return
  <2>3. Waiting'
    BY <1>4 DEF TypeOK, Waiting, Timeout, Release, ReleaseEnd, Return
  <2>4. Granted'
    <3>1. CASE Timeout(g) \/ ReleaseEnd(g)
      BY <3>1 DEF TypeOK, Granted, Timeout, ReleaseEnd, Return
    <3>2. CASE Release(g)
      BY <3>2 DEF TypeOK, Granted, Release, Return
    <3>3. QED
      BY <1>4, <3>1, <3>2
  <2>5. QED
    BY <2>1, <2>2, <2>3, <2>4
<1>5. QED
  BY <1>1, <1>2, <1>3, <1>4
(* A writer gets a lock that is free, and enters it in its array.            *)
LEMMA WGrantedStep ==
    ASSUME IInv, NEW g \in Guards, WGranted(g)
    PROVE  IInv'
<1> USE DEF IInv
<1> DEFINE l == want[g]
           s == wlock[g]
<1>1. l \in Locks /\ s \in Seq(Locks) /\ ~Contains(s, l) /\ IsInjective(s)
      /\ Len(s) < GUARD_SIZE /\ pc[g] = "w_wait"
  BY DEF WGranted, TypeOK, Waiting, GuardExact
<1>2. /\ Append(s, l) \in Seq(Locks)
      /\ Len(Append(s, l)) = Len(s) + 1
      /\ \A x : Contains(Append(s, l), x) <=> Contains(s, x) \/ x = l
      /\ IsInjective(Append(s, l))
  BY <1>1, AppendContains
<1> DEFINE t == Append(s, l)
<1>3. /\ wlock' = [wlock EXCEPT ![g] = t]
      /\ rlock' = rlock /\ readers' = readers
      /\ writers' = [writers EXCEPT ![l] = {g}]
      /\ pc' = [pc EXCEPT ![g] = "idle"] /\ want' = [want EXCEPT ![g] = NoLock]
      /\ granted' = [granted EXCEPT ![g] = @ \cup {<<"w", l>>}]
  BY DEF WGranted, Return, Grant
<1>4. readers[l] = {} /\ writers[l] = {}
  BY DEF WGranted
<1>5. Len(s) \in Nat
  BY <1>1, LenProperties
<1> HIDE DEF t
<1>6. t \in Seq(Locks) /\ Len(t) <= GUARD_SIZE /\ IsInjective(t)
      /\ \A x : Contains(t, x) <=> Contains(s, x) \/ x = l
  BY <1>1, <1>2, <1>5, GuardSizeAssumption DEF t
<1>7. TypeOK'
  BY <1>1, <1>3, <1>6 DEF TypeOK
<1>8. GuardExact'
  <2> SUFFICES ASSUME NEW h \in Guards
               PROVE  /\ \A k \in Locks : /\ h \in readers'[k] <=> Contains(rlock'[h], k)
                                          /\ h \in writers'[k] <=> Contains(wlock'[h], k)
                      /\ IsInjective(rlock'[h]) /\ IsInjective(wlock'[h])
    BY DEF GuardExact
  <2>1. /\ \A k \in Locks : /\ h \in readers[k] <=> Contains(rlock[h], k)
                            /\ h \in writers[k] <=> Contains(wlock[h], k)
        /\ IsInjective(rlock[h]) /\ IsInjective(wlock[h])
    BY DEF GuardExact
  <2>2. CASE h = g
    <3>1. wlock'[h] = t
      BY <2>2, <1>1, <1>3, <1>4, <1>6 DEF TypeOK
    <3>2. QED
      BY <2>1, <2>2, <3>1, <1>1, <1>3, <1>4, <1>6 DEF TypeOK
  <2>3. CASE h # g
    <3>1. wlock'[h] = wlock[h]
      BY <2>3, <1>1, <1>3, <1>4, <1>6 DEF TypeOK
    <3>2. QED
      BY <2>1, <2>3, <3>1, <1>1, <1>3, <1>4, <1>6 DEF TypeOK
  <2>4. QED
    BY <2>2, <2>3
<1>9. Exclusion'
  BY <1>1, <1>3, <1>4 DEF Exclusion, TypeOK
<1>10. Waiting'
  BY <1>1, <1>3, <1>6 DEF Waiting, TypeOK
<1>11. Granted'
  <2> SUFFICES ASSUME NEW h \in Guards
               PROVE  /\ pc'[h] = "release" => granted'[h] = {}
                      /\ \A k \in Locks :
                           /\ <<"w", k>> \in granted'[h] => Contains(wlock'[h], k)
                           /\ <<"r", k>> \in granted'[h] =>
                                  Contains(rlock'[h], k) \/ Contains(wlock'[h], k)
    BY DEF Granted
  <2>1. CASE h = g
    <3>1. wlock'[h] = t /\ pc'[h] = "idle"
      BY <2>1, <1>1, <1>3 DEF TypeOK
    <3>2. granted'[h] = granted[h] \cup {<<"w", l>>}
      BY <2>1, <1>1, <1>3 DEF TypeOK
    <3>3. QED
      BY <2>1, <3>1, <3>2, <1>1, <1>3, <1>6 DEF Granted, TypeOK
  <2>2. CASE h # g
    <3>1. wlock'[h] = wlock[h] /\ pc'[h] = pc[h] /\ granted'[h] = granted[h]
      BY <2>2, <1>1, <1>3 DEF TypeOK
    <3>2. QED
      BY <2>2, <3>1, <1>3 DEF Granted
  <2>3. QED
    BY <2>1, <2>2
<1>12. QED
  BY <1>7, <1>8, <1>9, <1>10, <1>11

(* A reader joins the readers of a lock without a writer.                    *)
LEMMA RGrantedStep ==
    ASSUME IInv, NEW g \in Guards, RGranted(g)
    PROVE  IInv'
<1> USE DEF IInv
<1> DEFINE l == want[g]
           s == rlock[g]
<1>1. l \in Locks /\ s \in Seq(Locks) /\ ~Contains(s, l) /\ IsInjective(s)
      /\ Len(s) < GUARD_SIZE /\ pc[g] = "r_wait"
  BY DEF RGranted, TypeOK, Waiting, GuardExact
<1>2. /\ Append(s, l) \in Seq(Locks)
      /\ Len(Append(s, l)) = Len(s) + 1
      /\ \A x : Contains(Append(s, l), x) <=> Contains(s, x) \/ x = l
      /\ IsInjective(Append(s, l))
  BY <1>1, AppendContains
<1> DEFINE t == Append(s, l)
<1>3. /\ rlock' = [rlock EXCEPT ![g] = t]
      /\ wlock' = wlock /\ writers' = writers
      /\ readers' = [readers EXCEPT ![l] = readers[l] \cup {g}]
      /\ pc' = [pc EXCEPT ![g] = "idle"] /\ want' = [want EXCEPT ![g] = NoLock]
      /\ granted' = [granted EXCEPT ![g] = @ \cup {<<"r", l>>}]
  BY DEF RGranted, Return, Grant
<1>4. writers[l] = {}
  BY DEF RGranted
<1>5. Len(s) \in Nat
  BY <1>1, LenProperties
<1> HIDE DEF t
<1>6. t \in Seq(Locks) /\ Len(t) <= GUARD_SIZE /\ IsInjective(t)
      /\ \A x : Contains(t, x) <=> Contains(s, x) \/ x = l
  BY <1>1, <1>2, <1>5, GuardSizeAssumption DEF t
<1>7. TypeOK'
  BY <1>1, <1>3, <1>6 DEF TypeOK
<1>8. GuardExact'
  <2> SUFFICES ASSUME NEW h \in Guards
               PROVE  /\ \A k \in Locks : /\ h \in readers'[k] <=> Contains(rlock'[h], k)
                                          /\ h \in writers'[k] <=> Contains(wlock'[h], k)
                      /\ IsInjective(rlock'[h]) /\ IsInjective(wlock'[h])
    BY DEF GuardExact
  <2>1. /\ \A k \in Locks : /\ h \in readers[k] <=> Contains(rlock[h], k)
                            /\ h \in writers[k] <=> Contains(wlock[h], k)
        /\ IsInjective(rlock[h]) /\ IsInjective(wlock[h])
    BY DEF GuardExact
  <2>2. CASE h = g
    <3>1. rlock'[h] = t
      BY <2>2, <1>1, <1>3, <1>4, <1>6 DEF TypeOK
    <3>2. QED
      BY <2>1, <2>2, <3>1, <1>1, <1>3, <1>4, <1>6 DEF TypeOK
  <2>3. CASE h # g
    <3>1. rlock'[h] = rlock[h]
      BY <2>3, <1>1, <1>3, <1>4, <1>6 DEF TypeOK
    <3>2. QED
      BY <2>1, <2>3, <3>1, <1>1, <1>3, <1>4, <1>6 DEF TypeOK
  <2>4. QED
    BY <2>2, <2>3
<1>9. Exclusion'
  BY <1>1, <1>3, <1>4 DEF Exclusion, TypeOK
<1>10. Waiting'
  BY <1>1, <1>3, <1>6 DEF Waiting, TypeOK
<1>11. Granted'
  <2> SUFFICES ASSUME NEW h \in Guards
               PROVE  /\ pc'[h] = "release" => granted'[h] = {}
                      /\ \A k \in Locks :
                           /\ <<"w", k>> \in granted'[h] => Contains(wlock'[h], k)
                           /\ <<"r", k>> \in granted'[h] =>
                                  Contains(rlock'[h], k) \/ Contains(wlock'[h], k)
    BY DEF Granted
  <2>1. CASE h = g
    <3>1. rlock'[h] = t /\ pc'[h] = "idle"
      BY <2>1, <1>1, <1>3 DEF TypeOK
    <3>2. granted'[h] = granted[h] \cup {<<"r", l>>}
      BY <2>1, <1>1, <1>3 DEF TypeOK
    <3>3. QED
      BY <2>1, <3>1, <3>2, <1>1, <1>3, <1>6 DEF Granted, TypeOK
  <2>2. CASE h # g
    <3>1. rlock'[h] = rlock[h] /\ pc'[h] = pc[h] /\ granted'[h] = granted[h]
      BY <2>2, <1>1, <1>3 DEF TypeOK
    <3>2. QED
      BY <2>2, <3>1, <1>3 DEF Granted
  <2>3. QED
    BY <2>1, <2>2
<1>12. QED
  BY <1>7, <1>8, <1>9, <1>10, <1>11

(* release() gives the last read lock of the array back.                     *)
LEMMA ReleaseRStep ==
    ASSUME IInv, NEW g \in Guards, ReleaseR(g)
    PROVE  IInv'
<1> USE DEF IInv
<1> DEFINE s == rlock[g]
           l == Last(s)
           t == Front(s)
<1>1. s \in Seq(Locks) /\ s # <<>> /\ IsInjective(s) /\ pc[g] = "release"
  BY DEF ReleaseR, TypeOK, GuardExact
<1>2. /\ l \in Locks /\ Contains(s, l)
      /\ t \in Seq(Locks) /\ Len(t) = Len(s) - 1
      /\ \A x : Contains(t, x) <=> Contains(s, x) /\ x # l
      /\ IsInjective(t)
  BY <1>1, FrontContains
<1>3. /\ rlock' = [rlock EXCEPT ![g] = t]
      /\ readers' = [readers EXCEPT ![l] = readers[l] \ {g}]
      /\ UNCHANGED <<writers, wlock, pc, want, granted>>
  BY DEF ReleaseR
<1>4. Len(s) \in Nat /\ Len(s) <= GUARD_SIZE
  BY <1>1, LenProperties DEF TypeOK
<1> HIDE DEF t, l
<1>5. Len(t) <= GUARD_SIZE
  BY <1>2, <1>4, GuardSizeAssumption
<1>6. TypeOK'
  BY <1>1, <1>2, <1>3, <1>5 DEF TypeOK
<1>7. GuardExact'
  <2> SUFFICES ASSUME NEW h \in Guards
               PROVE  /\ \A k \in Locks : /\ h \in readers'[k] <=> Contains(rlock'[h], k)
                                          /\ h \in writers'[k] <=> Contains(wlock'[h], k)
                      /\ IsInjective(rlock'[h]) /\ IsInjective(wlock'[h])
    BY DEF GuardExact
  <2>1. /\ \A k \in Locks : /\ h \in readers[k] <=> Contains(rlock[h], k)
                            /\ h \in writers[k] <=> Contains(wlock[h], k)
        /\ IsInjective(rlock[h]) /\ IsInjective(wlock[h])
    BY DEF GuardExact
  <2>2. CASE h = g
    <3>1. rlock'[h] = t
      BY <2>2, <1>1, <1>2, <1>3 DEF TypeOK
    <3>2. QED
      BY <2>1, <2>2, <3>1, <1>1, <1>2, <1>3 DEF TypeOK
  <2>3. CASE h # g
    <3>1. rlock'[h] = rlock[h]
      BY <2>3, <1>1, <1>2, <1>3 DEF TypeOK
    <3>2. QED
      BY <2>1, <2>3, <3>1, <1>1, <1>2, <1>3 DEF TypeOK
  <2>4. QED
    BY <2>2, <2>3
<1>8. Exclusion'
  BY <1>2, <1>3 DEF Exclusion, TypeOK
<1>9. Waiting'
  BY <1>1, <1>3 DEF Waiting, TypeOK
<1>10. Granted'
  BY <1>1, <1>3 DEF Granted, TypeOK
<1>11. QED
  BY <1>6, <1>7, <1>8, <1>9, <1>10

(* release() gives the last write lock of the array back.                    *)
LEMMA ReleaseWStep ==
    ASSUME IInv, NEW g \in Guards, ReleaseW(g)
    PROVE  IInv'
<1> USE DEF IInv
<1> DEFINE s == wlock[g]
           l == Last(s)
           t == Front(s)
<1>1. s \in Seq(Locks) /\ s # <<>> /\ IsInjective(s) /\ pc[g] = "release"
  BY DEF ReleaseW, TypeOK, GuardExact
<1>2. /\ l \in Locks /\ Contains(s, l)
      /\ t \in Seq(Locks) /\ Len(t) = Len(s) - 1
      /\ \A x : Contains(t, x) <=> Contains(s, x) /\ x # l
      /\ IsInjective(t)
  BY <1>1, FrontContains
<1>3. /\ wlock' = [wlock EXCEPT ![g] = t]
      /\ writers' = [writers EXCEPT ![l] = writers[l] \ {g}]
      /\ UNCHANGED <<readers, rlock, pc, want, granted>>
  BY DEF ReleaseW
<1>4. Len(s) \in Nat /\ Len(s) <= GUARD_SIZE
  BY <1>1, LenProperties DEF TypeOK
<1> HIDE DEF t, l
<1>5. Len(t) <= GUARD_SIZE
  BY <1>2, <1>4, GuardSizeAssumption
<1>6. TypeOK'
  BY <1>1, <1>2, <1>3, <1>5 DEF TypeOK
<1>7. GuardExact'
  <2> SUFFICES ASSUME NEW h \in Guards
               PROVE  /\ \A k \in Locks : /\ h \in readers'[k] <=> Contains(rlock'[h], k)
                                          /\ h \in writers'[k] <=> Contains(wlock'[h], k)
                      /\ IsInjective(rlock'[h]) /\ IsInjective(wlock'[h])
    BY DEF GuardExact
  <2>1. /\ \A k \in Locks : /\ h \in readers[k] <=> Contains(rlock[h], k)
                            /\ h \in writers[k] <=> Contains(wlock[h], k)
        /\ IsInjective(rlock[h]) /\ IsInjective(wlock[h])
    BY DEF GuardExact
  <2>2. CASE h = g
    <3>1. wlock'[h] = t
      BY <2>2, <1>1, <1>2, <1>3 DEF TypeOK
    <3>2. QED
      BY <2>1, <2>2, <3>1, <1>1, <1>2, <1>3 DEF TypeOK
  <2>3. CASE h # g
    <3>1. wlock'[h] = wlock[h]
      BY <2>3, <1>1, <1>2, <1>3 DEF TypeOK
    <3>2. QED
      BY <2>1, <2>3, <3>1, <1>1, <1>2, <1>3 DEF TypeOK
  <2>4. QED
    BY <2>2, <2>3
<1>8. Exclusion'
  BY <1>2, <1>3 DEF Exclusion, TypeOK
<1>9. Waiting'
  BY <1>1, <1>3 DEF Waiting, TypeOK
<1>10. Granted'
  BY <1>1, <1>3 DEF Granted, TypeOK
<1>11. QED
  BY <1>6, <1>7, <1>8, <1>9, <1>10

(* Every step of every guard preserves the invariant.                      *)
LEMMA NextIInv == IInv /\ [Next]_vars => IInv'
<1> SUFFICES ASSUME IInv, [Next]_vars PROVE IInv'
  OBVIOUS
<1>1. ASSUME NEW g \in Guards, Call(g) \/ Work(g) PROVE IInv'
  BY <1>1, QuietSteps, WGrantedStep, RGrantedStep, ReleaseRStep, ReleaseWStep
     DEF Call, Work
<1>2. CASE UNCHANGED vars
  BY <1>2 DEF vars, IInv, TypeOK, GuardExact, Exclusion, Waiting, Granted
<1>3. QED
  BY <1>1, <1>2 DEF Next

(* The arrays of a ywLockGuard are exactly the locks its thread has, each  *)
(* once, at every step of WLock(), RLock() and release().                  *)
THEOREM GuardIsExact == Spec => [](TypeOK /\ GuardExact)
<1>1. IInv => TypeOK /\ GuardExact
  BY DEF IInv
<1>2. QED
  BY <1>1, InitIInv, NextIInv, PTL DEF Spec

(* A caller to whom WLock() or RLock() has returned true has the lock, and *)
(* nobody else can write under it, until release().                        *)
THEOREM GrantsHold == Spec => []GrantHolds
<1>1. IInv => GrantHolds
  <2> SUFFICES ASSUME IInv, NEW g \in Guards, NEW l \in Locks
               PROVE  /\ <<"w", l>> \in granted[g] =>
                             writers[l] = {g} /\ readers[l] \subseteq {g}
                      /\ <<"r", l>> \in granted[g] =>
                             \/ g \in readers[l] /\ writers[l] = {}
                             \/ writers[l] = {g}
    BY DEF GrantHolds
  <2>1. /\ <<"w", l>> \in granted[g] => g \in writers[l]
        /\ <<"r", l>> \in granted[g] => g \in readers[l] \/ g \in writers[l]
    BY DEF IInv, Granted, GuardExact
  <2>2. /\ g \in writers[l] => writers[l] = {g} /\ readers[l] = {}
        /\ g \in readers[l] => writers[l] = {}
    BY DEF IInv, TypeOK, Exclusion
  <2>3. QED
    BY <2>1, <2>2
<1>2. QED
  BY <1>1, InitIInv, NextIInv, PTL DEF Spec
=============================================================================
