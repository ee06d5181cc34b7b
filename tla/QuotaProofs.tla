----------------------------- MODULE QuotaProofs -----------------------------
(***************************************************************************)
(* Proofs about Quota for any kinds, users, calls and policies.  The       *)
(* organization lock makes one process the author of everything that       *)
(* changed since it took its backup; the invariant describes that change.  *)
(***************************************************************************)
EXTENDS Quota, FiniteSetTheorems, TLAPS

\* One transaction at a time.
LockInv == \A p, q \in Processes : call[p] # NoCall /\ call[q] # NoCall => p = q

\* What a rollback would restore is itself a legal ledger.
BackupInv ==
  \A p \in Processes : call[p] # NoCall =>
    /\ WithinOwnLimit(undo[p].limit, undo[p].consumed)
    /\ OncePerKey(undo[p].reservations)
    /\ \A c \in Calls : Whole(undo[p].reservations, c)
    /\ undo[p].reservations \subseteq reservations

\* What the open transaction has done so far: it wrote only rows with its own key,
\* and holds every kind it has finished with.
ProgressInv ==
  \A p \in Processes : call[p] # NoCall =>
    /\ left[p] \subseteq DOMAIN call[p].items
    /\ \A r \in reservations \ undo[p].reservations : r.key = call[p].key
    /\ \A k \in DOMAIN call[p].items \ left[p] : Holds(reservations, call[p], k)

IInv ==
  /\ TypeOK
  /\ WithinLimit
  /\ ChargedOnce
  /\ BundleIsWhole
  /\ LockInv
  /\ BackupInv
  /\ ProgressInv

LEMMA CallFacts ==
  ASSUME TypeOK, NEW p \in Processes, call[p] # NoCall
  PROVE  /\ call[p] \in Calls
         /\ call[p].key \in Keys
         /\ call[p].user \in Users \cup {NoUser}
         /\ DOMAIN call[p].items \subseteq Kinds
         /\ \A k \in DOMAIN call[p].items : call[p].items[k] \in Nat \ {0}
         /\ SubjectsOf(call[p]) \subseteq Subjects
  BY QuotaAssumption DEF TypeOK, SubjectsOf, Subjects

LEMMA InitEstablishes == Init => IInv
<1>. SUFFICES ASSUME Init PROVE IInv
  OBVIOUS
<1>1. TypeOK
  BY QuotaAssumption DEF Init, TypeOK
<1>2. WithinLimit /\ ChargedOnce /\ BundleIsWhole /\ LockInv
  BY DEF Init, WithinLimit, WithinOwnLimit, ChargedOnce, OncePerKey, BundleIsWhole, Whole, LockInv
<1>3. BackupInv /\ ProgressInv
  BY DEF Init, BackupInv, ProgressInv
<1>. QED  BY <1>1, <1>2, <1>3 DEF IInv

--------------------------------------------------------------------------------
(* The steps of a transaction.                                             *)

LEMMA LockPreserves ==
  ASSUME IInv, NEW p \in Processes, NEW c \in Calls, Lock(p, c)
  PROVE  IInv'
<1>. USE DEF IInv
<1>1. TypeOK'
  BY QuotaAssumption DEF TypeOK, Lock, rows
<1>2. WithinLimit' /\ ChargedOnce'
  BY DEF Lock, WithinLimit, WithinOwnLimit, ChargedOnce, OncePerKey, Counters, Subjects
<1>3. call' = [call EXCEPT ![p] = c] /\ \A q \in Processes : call[q] = NoCall
  BY DEF Lock, OrgRowFree
<1>4. \A q \in Processes : call'[q] # NoCall => q = p
  BY <1>3 DEF TypeOK
<1>5. call'[p] = c /\ c # NoCall
  BY <1>3, QuotaAssumption DEF TypeOK
<1>6. LockInv' /\ BundleIsWhole'
  BY <1>4, <1>5 DEF LockInv, BundleIsWhole, OrgRowFree
<1>7. undo'[p] = rows /\ left'[p] = DOMAIN c.items /\ reservations' = reservations
  BY DEF Lock, TypeOK
<1>8. BackupInv'
  BY <1>3, <1>4, <1>7 DEF BackupInv, rows, WithinLimit, ChargedOnce, BundleIsWhole, OrgRowFree
<1>9. ProgressInv'
  BY <1>4, <1>5, <1>7 DEF ProgressInv, rows
<1>. QED  BY <1>1, <1>2, <1>6, <1>8, <1>9

LEMMA ReplayPreserves ==
  ASSUME IInv, NEW p \in Processes, NEW k \in Kinds, Replay(p, k)
  PROVE  IInv'
<1>. USE DEF IInv
<1>1. TypeOK'
  BY DEF TypeOK, Replay
<1>2. /\ WithinLimit' /\ ChargedOnce' /\ BundleIsWhole' /\ LockInv' /\ BackupInv'
  BY DEF Replay, WithinLimit, WithinOwnLimit, ChargedOnce, OncePerKey, BundleIsWhole, OrgRowFree,
    Whole, Holds, LockInv, BackupInv
<1>3. Holds(reservations, call[p], k)
  BY DEF Replay, Agrees, Existing, Holds
<1>4. call[p] # NoCall
  BY DEF Replay, TypeOK
<1>5. ProgressInv'
  <2>. SUFFICES ASSUME NEW q \in Processes, call[q] # NoCall
       PROVE  /\ left'[q] \subseteq DOMAIN call[q].items
              /\ \A r \in reservations \ undo[q].reservations : r.key = call[q].key
              /\ \A j \in DOMAIN call[q].items \ left'[q] : Holds(reservations, call[q], j)
    BY DEF Replay, ProgressInv, Holds
  <2>1. q = p
    BY <1>4 DEF LockInv
  <2>. QED
    BY <2>1, <1>3 DEF Replay, ProgressInv, TypeOK
<1>. QED  BY <1>1, <1>2, <1>5

\* The scope tells the tenant from the one user of a call.
LEMMA ScopeDistinguishes ==
  ASSUME TypeOK, NEW p \in Processes, call[p] # NoCall,
         NEW s \in SubjectsOf(call[p]), NEW t \in SubjectsOf(call[p]), Scope(s) = Scope(t)
  PROVE  s = t
  BY CallFacts, QuotaAssumption DEF SubjectsOf, Scope

LEMMA ChargePreserves ==
  ASSUME IInv, NEW p \in Processes, NEW k \in Kinds, Charge(p, k)
  PROVE  IInv'
<1>. DEFINE c == call[p]
            charged == {Counter(s, k) : s \in SubjectsOf(c)}
            New(x) == [counter |-> x, key |-> c.key, quantity |-> c.items[k]]
            new == {New(x) : x \in charged}
<1>. USE DEF IInv
<1>1. c # NoCall /\ k \in left[p] /\ k \in DOMAIN c.items
  BY DEF Charge, TypeOK, ProgressInv
<1>2. /\ c.key \in Keys /\ c.items[k] \in Nat \ {0}
      /\ SubjectsOf(c) \subseteq Subjects
  BY <1>1, CallFacts
<1>3. \A s \in SubjectsOf(c) : Counter(s, k) \in Counters
  BY <1>2 DEF Counter, Counters, TypeOK
<1>4. /\ Existing(c, k) = {} /\ Fits(c, k)
      /\ limit' = [x \in Counters |->
                     IF x \in charged /\ limit[x] = NoLimit THEN policy[k] ELSE limit[x]]
      /\ consumed' = [x \in Counters |->
                        IF x \in charged THEN consumed[x] + c.items[k] ELSE consumed[x]]
      /\ reservations' = reservations \cup new
      /\ left' = [left EXCEPT ![p] = @ \ {k}]
      /\ UNCHANGED <<policy, window, call, undo>>
  BY DEF Charge
<1>. HIDE DEF c
<1>5. TypeOK'
  <2>1. new \subseteq Reservation
    BY <1>2, <1>3 DEF Reservation
  <2>2. policy[k] \in Nat
    BY DEF TypeOK, Limits
  <2>3. limit' \in [Counters -> Nat \cup {NoLimit}] /\ consumed' \in [Counters -> Nat]
    BY <1>2, <1>4, <2>2 DEF TypeOK
  <2>4. \A q \in Processes : call'[q] = NoCall => left'[q] = {}
    BY <1>4 DEF TypeOK
  <2>. QED
    BY <1>4, <2>1, <2>3, <2>4 DEF TypeOK
<1>6. WithinLimit'
  <2>. SUFFICES ASSUME NEW x \in Counters, consumed'[x] > 0
       PROVE  limit'[x] # NoLimit /\ consumed'[x] <= limit'[x]
    BY DEF WithinLimit, WithinOwnLimit
  <2>1. CASE x \in charged
    <3>1. PICK s \in SubjectsOf(c) : x = Counter(s, k)
      BY <2>1
    <3>2. consumed[x] + c.items[k] <= EffectiveLimit(s, k)
      BY <1>4, <3>1 DEF Fits
    <3>3. limit'[x] = EffectiveLimit(s, k)
      BY <1>4, <2>1, <3>1 DEF EffectiveLimit
    <3>4. EffectiveLimit(s, k) # NoLimit
      BY <3>1, QuotaAssumption DEF EffectiveLimit, TypeOK, Limits
    <3>. QED
      BY <1>4, <2>1, <3>2, <3>3, <3>4
  <2>2. CASE x \notin charged
    BY <1>4, <2>2 DEF WithinLimit, WithinOwnLimit
  <2>. QED
    BY <2>1, <2>2
<1>7. \A x \in charged : /\ New(x).key = c.key /\ New(x).counter = x /\ x[2] = k
                         /\ \E s \in SubjectsOf(c) : x = Counter(s, k) /\ x[1] = s
  BY DEF Counter
<1>8. \A r \in reservations, x \in charged :
        ~(r.key = c.key /\ r.counter[2] = k /\ Scope(r.counter[1]) = Scope(x[1]))
  BY <1>4, <1>7 DEF Existing
<1>9. \A x, y \in charged : Scope(x[1]) = Scope(y[1]) => x = y
  BY <1>1, <1>7, ScopeDistinguishes DEF c
<1>10. ChargedOnce'
  <2>. SUFFICES ASSUME NEW r \in reservations', NEW q \in reservations', r.key = q.key,
                       r.counter[2] = q.counter[2], Scope(r.counter[1]) = Scope(q.counter[1])
       PROVE  r = q
    BY DEF ChargedOnce, OncePerKey
  <2>1. CASE r \in reservations /\ q \in reservations
    BY <2>1 DEF ChargedOnce, OncePerKey
  <2>2. CASE r \in new /\ q \in new
    BY <1>7, <1>9, <2>2
  <2>3. CASE r \in new /\ q \in reservations
    BY <1>7, <1>8, <2>3
  <2>4. CASE r \in reservations /\ q \in new
    BY <1>7, <1>8, <2>4
  <2>. QED
    BY <1>4, <2>1, <2>2, <2>3, <2>4
<1>11. BundleIsWhole' /\ LockInv' /\ BackupInv'
  <2>1. ~OrgRowFree'
    BY <1>1, <1>4 DEF OrgRowFree, c
  <2>. QED
    BY <1>4, <2>1 DEF BundleIsWhole, LockInv, BackupInv
<1>12. ProgressInv'
  <2>. SUFFICES ASSUME NEW q \in Processes, call[q] # NoCall
       PROVE  /\ left'[q] \subseteq DOMAIN call[q].items
              /\ \A r \in reservations' \ undo[q].reservations : r.key = call[q].key
              /\ \A j \in DOMAIN call[q].items \ left'[q] : Holds(reservations', call[q], j)
    BY <1>4 DEF ProgressInv, Holds
  <2>1. q = p /\ left'[p] = left[p] \ {k}
    BY <1>1, <1>4 DEF LockInv, c, TypeOK
  <2>2. \A r \in new : r.key = c.key
    BY <1>7
  <2>3. Holds(reservations', c, k)
    <3>. SUFFICES ASSUME NEW s \in SubjectsOf(c)
         PROVE  \E r \in reservations' : r.key = c.key /\ r.counter[2] = k
                                         /\ Scope(r.counter[1]) = Scope(s)
      BY DEF Holds
    <3>1. New(Counter(s, k)) \in reservations'
      BY <1>4
    <3>2. New(Counter(s, k)).counter[1] = s /\ New(Counter(s, k)).counter[2] = k
      BY DEF Counter
    <3>. QED
      BY <3>1, <3>2
  <2>4. \A j \in DOMAIN c.items \ left[p] : Holds(reservations', c, j)
    BY <1>1, <1>4 DEF ProgressInv, Holds, c
  <2>. QED
    BY <1>1, <1>4, <2>1, <2>2, <2>3, <2>4 DEF ProgressInv, c
<1>. QED  BY <1>5, <1>6, <1>10, <1>11, <1>12

\* Keys belong to one sort of call, so a whole bundle of one is whole for all.
LEMMA WholeForKey ==
  ASSUME NEW R, NEW c \in Calls, NEW d \in Calls, c.key = d.key,
         \A k \in DOMAIN c.items : Holds(R, c, k)
  PROVE  Whole(R, d)
<1>. SUFFICES ASSUME NEW k \in DOMAIN d.items, NEW s \in SubjectsOf(d)
     PROVE  \E r \in R : r.key = d.key /\ r.counter[2] = k /\ Scope(r.counter[1]) = Scope(s)
  BY DEF Whole, Holds
<1>1. k \in DOMAIN c.items /\ (c.user = NoUser <=> d.user = NoUser)
  BY QuotaAssumption
<1>2. PICK t \in SubjectsOf(c) : Scope(t) = Scope(s)
  BY <1>1, QuotaAssumption DEF SubjectsOf, Scope
<1>. QED
  BY <1>1, <1>2 DEF Holds

LEMMA CommitPreserves ==
  ASSUME IInv, NEW p \in Processes, Commit(p)
  PROVE  IInv'
<1>. USE DEF IInv
<1>1. TypeOK'
  BY DEF TypeOK, Commit, Release
<1>2. call[p] # NoCall /\ left[p] = {} /\ reservations' = reservations
  BY DEF Commit
<1>3. \A q \in Processes : call'[q] = NoCall
  BY <1>2 DEF LockInv, Commit, Release, TypeOK
<1>4. WithinLimit' /\ ChargedOnce'
  BY DEF Commit, WithinLimit, WithinOwnLimit, ChargedOnce, OncePerKey
<1>5. LockInv' /\ BackupInv' /\ ProgressInv'
  BY <1>3 DEF LockInv, BackupInv, ProgressInv
<1>6. BundleIsWhole'
  <2>. SUFFICES ASSUME NEW d \in Calls PROVE Whole(reservations, d)
    BY <1>2 DEF BundleIsWhole, Whole, Holds
  <2>1. \A k \in DOMAIN call[p].items : Holds(reservations, call[p], k)
    BY <1>2 DEF ProgressInv
  <2>2. CASE d.key = call[p].key
    BY <1>2, <2>1, <2>2, CallFacts, WholeForKey
  <2>3. CASE d.key # call[p].key
    <3>1. \A r \in reservations : r.key = d.key => r \in undo[p].reservations
      BY <1>2, <2>3 DEF ProgressInv
    <3>2. Whole(undo[p].reservations, d) /\ undo[p].reservations \subseteq reservations
      BY <1>2 DEF BackupInv
    <3>. QED
      BY <3>1, <3>2 DEF Whole, Holds
  <2>. QED
    BY <2>2, <2>3
<1>. QED  BY <1>1, <1>4, <1>5, <1>6

LEMMA RollbackPreserves ==
  ASSUME IInv, NEW p \in Processes, call[p] # NoCall, Rollback(p), Release(p),
         UNCHANGED <<policy, window, undo>>
  PROVE  IInv'
<1>. USE DEF IInv
<1>1. TypeOK'
  BY DEF TypeOK, Rollback, Release
<1>2. \A q \in Processes : call'[q] = NoCall
  BY DEF LockInv, Release, TypeOK
<1>3. LockInv' /\ BackupInv' /\ ProgressInv'
  BY <1>2 DEF LockInv, BackupInv, ProgressInv
<1>4. WithinLimit' /\ ChargedOnce' /\ BundleIsWhole'
  BY DEF Rollback, BackupInv, WithinLimit, WithinOwnLimit, ChargedOnce, OncePerKey, BundleIsWhole,
    Whole, Holds
<1>. QED  BY <1>1, <1>3, <1>4

LEMMA ElsewherePreserves ==
  ASSUME IInv,
         \/ \E limits \in Policies : CreatePolicy(limits)
         \/ \E k \in Kinds : NextWindow(k)
         \/ UNCHANGED vars
  PROVE  IInv'
<1>. USE DEF IInv
<1>1. UNCHANGED <<limit, consumed, reservations, call, left, undo>>
  BY DEF CreatePolicy, NextWindow, vars, procs
<1>2. policy' \in Limits /\ window' \in [Kinds -> 0 .. MaxWindow]
  BY QuotaAssumption DEF CreatePolicy, NextWindow, vars, TypeOK
<1>3. TypeOK'
  BY <1>1, <1>2 DEF TypeOK
<1>4. /\ WithinLimit' /\ ChargedOnce' /\ BundleIsWhole' /\ LockInv' /\ BackupInv' /\ ProgressInv'
  BY <1>1 DEF WithinLimit, WithinOwnLimit, ChargedOnce, OncePerKey, BundleIsWhole, OrgRowFree,
    Whole, Holds, LockInv, BackupInv, ProgressInv
<1>. QED  BY <1>3, <1>4

LEMMA NextPreserves == IInv /\ [Next]_vars => IInv'
<1>. SUFFICES ASSUME IInv, [Next]_vars PROVE IInv'
  OBVIOUS
<1>1. ASSUME NEW p \in Processes, NEW k \in Kinds, Refuse(p, k) PROVE IInv'
  <2>1. call[p] # NoCall
    BY <1>1 DEF Refuse, IInv, TypeOK
  <2>. QED
    BY <1>1, <2>1, RollbackPreserves DEF Refuse
<1>2. ASSUME NEW p \in Processes, Abandon(p) PROVE IInv'
  BY <1>2, RollbackPreserves DEF Abandon
<1>. QED
  BY <1>1, <1>2, LockPreserves, ReplayPreserves, ChargePreserves, CommitPreserves,
    ElsewherePreserves DEF Next

\* One process holds the row of the organization; what it charges is within the limit, once
\* for each key, and undone as a whole (organizations/operational_services.py).
THEOREM LedgerInvariant == Spec => []IInv
  BY InitEstablishes, NextPreserves, PTL DEF Spec

--------------------------------------------------------------------------------
\* Types, and no progress without a call.
THEOREM TypeCorrect == Spec => []TypeOK
<1>1. IInv => TypeOK
  BY DEF IInv
<1>. QED  BY <1>1, LedgerInvariant, PTL

\* No counter ever passes the limit that opened its window.
THEOREM ConsumptionIsLimited == Spec => []WithinLimit
<1>1. IInv => WithinLimit
  BY DEF IInv
<1>. QED  BY <1>1, LedgerInvariant, PTL

\* A key is charged at most once per scope and kind, over all windows.
THEOREM KeysChargeOnce == Spec => []ChargedOnce
<1>1. IInv => ChargedOnce
  BY DEF IInv
<1>. QED  BY <1>1, LedgerInvariant, PTL

\* A bundle is reserved as a whole or not at all.
THEOREM BundlesAreAtomic == Spec => []BundleIsWhole
<1>1. IInv => BundleIsWhole
  BY DEF IInv
<1>. QED  BY <1>1, LedgerInvariant, PTL

\* No transaction loses what was committed before it began.
THEOREM CommittedRowsStay == Spec => []CommittedStays
<1>1. IInv => CommittedStays
  BY DEF IInv, BackupInv, CommittedStays
<1>. QED  BY <1>1, LedgerInvariant, PTL

--------------------------------------------------------------------------------
(* Weighted sums.  What a fold computes is an induction over its set: it is *)
(* argued here from a smallest set for which the claim would fail.  The     *)
(* weights are a function w, and the sets those of its finite domains.      *)

Summable(w) == FiniteSubsetsOf(DOMAIN w)
First(R) == CHOOSE r \in R : TRUE
Sums(g, w, S) == g = [R \in SUBSET S |-> IF R = {} THEN 0 ELSE w[First(R)] + g[R \ {First(R)}]]
SumOf(w, S) == (CHOOSE g : Sums(g, w, S))[S]

\* Among some finite sets there is a smallest.
LEMMA SmallestSet ==
  ASSUME NEW w, NEW T \in SUBSET Summable(w), T # {}
  PROVE  \E R \in T : \A S \in T : S \subseteq R => S = R
<1>1. IsWellFoundedOn(StrictSubsetOrdering(DOMAIN w), Summable(w))
  BY FS_StrictSubsetOrderingWellFounded DEF Summable
<1>2. PICK R \in T : \A S \in T : <<S, R>> \notin StrictSubsetOrdering(DOMAIN w)
  BY <1>1, WFMin
<1>. QED
  BY <1>2 DEF StrictSubsetOrdering, Summable, FiniteSubsetsOf

\* A set less its first element is a smaller one.
LEMMA FewerRows ==
  ASSUME NEW w, NEW R \in Summable(w), R # {}
  PROVE  First(R) \in R /\ R \ {First(R)} \in Summable(w)
  BY FS_Subset DEF First, Summable, FiniteSubsetsOf

\* A set has one sum, whichever larger set it is computed within, and whatever the weights of
\* other elements.
LEMMA SumsAgree ==
  ASSUME NEW w, NEW v, NEW S, NEW T, NEW g, NEW h, Sums(g, w, S), Sums(h, v, T),
         NEW R \in Summable(w), R \subseteq S, R \subseteq T, \A x \in R : w[x] = v[x]
  PROVE  g[R] = h[R]
<1>. DEFINE Bad == {U \in Summable(w) : U \subseteq R /\ g[U] # h[U]}
<1>. SUFFICES ASSUME Bad # {} PROVE FALSE
  OBVIOUS
<1>1. PICK U \in Bad : \A V \in Bad : V \subseteq U => V = U
  <2>1. Bad \in SUBSET Summable(w)
    OBVIOUS
  <2>. HIDE DEF Bad
  <2>. QED
    BY <2>1, SmallestSet
<1>2. CASE U = {}
  BY <1>1, <1>2 DEF Sums
<1>3. CASE U # {}
  <2>1. First(U) \in U /\ U \ {First(U)} \in Summable(w)
    BY <1>1, <1>3, FewerRows
  <2>2. g[U \ {First(U)}] = h[U \ {First(U)}]
    BY <1>1, <2>1
  <2>3. g[U] = w[First(U)] + g[U \ {First(U)}] /\ h[U] = v[First(U)] + h[U \ {First(U)}]
    BY <1>1, <1>3 DEF Sums
  <2>. QED
    BY <1>1, <2>1, <2>2, <2>3
<1>. QED
  BY <1>2, <1>3

\* Every finite set has a sum.
LEMMA SumsExist ==
  ASSUME NEW w, NEW S \in Summable(w)
  PROVE  \E g : Sums(g, w, S)
<1>. DEFINE Bad == {U \in Summable(w) : ~ \E g : Sums(g, w, U)}
<1>. SUFFICES ASSUME Bad # {} PROVE FALSE
  OBVIOUS
<1>1. PICK U \in Bad : \A V \in Bad : V \subseteq U => V = U
  <2>1. Bad \in SUBSET Summable(w)
    OBVIOUS
  <2>. HIDE DEF Bad
  <2>. QED
    BY <2>1, SmallestSet
<1>. DEFINE sumsOf(V) == CHOOSE g : Sums(g, w, V)
            g == [R \in SUBSET U |->
                    IF R = {} THEN 0 ELSE w[First(R)] + sumsOf(R \ {First(R)})[R \ {First(R)}]]
<1>2. ASSUME NEW V \in Summable(w), V \subseteq U, V # U PROVE Sums(sumsOf(V), w, V)
  BY <1>1, <1>2
<1>3. \A R \in SUBSET U : R \in Summable(w)
  BY <1>1, FS_Subset DEF Summable, FiniteSubsetsOf
<1>4. ASSUME NEW V \in Summable(w), V \subseteq U, V # U PROVE g[V] = sumsOf(V)[V]
  <2>. HIDE DEF sumsOf
  <2>1. Sums(sumsOf(V), w, V)
    BY <1>2, <1>4
  <2>2. CASE V = {}
    BY <2>1, <2>2 DEF Sums
  <2>3. CASE V # {}
    <3>. DEFINE W == V \ {First(V)}
    <3>1. W \in Summable(w) /\ W \subseteq V /\ W # U /\ First(V) \in V
      BY <1>4, <2>3, FewerRows
    <3>2. Sums(sumsOf(W), w, W)
      BY <1>2, <1>4, <3>1
    <3>3. sumsOf(W)[W] = sumsOf(V)[W]
      BY <2>1, <3>1, <3>2, SumsAgree
    <3>4. sumsOf(V)[V] = w[First(V)] + sumsOf(V)[W]
      BY <2>1, <2>3 DEF Sums
    <3>. QED
      BY <1>4, <2>3, <3>3, <3>4
  <2>. QED
    BY <2>2, <2>3
<1>5. ASSUME NEW R \in SUBSET U, R # {}
      PROVE  g[R \ {First(R)}] = sumsOf(R \ {First(R)})[R \ {First(R)}]
  <2>1. R \ {First(R)} \in Summable(w) /\ R \ {First(R)} \subseteq U /\ R \ {First(R)} # U
    BY <1>3, <1>5, FewerRows
  <2>. QED
    BY <1>4, <2>1
<1>. HIDE DEF sumsOf
<1>6. Sums(g, w, U)
  BY <1>5 DEF Sums
<1>. QED
  BY <1>1, <1>6

\* A sum is what any of its computations gives.
LEMMA SumIsComputed ==
  ASSUME NEW w, NEW v, NEW S \in Summable(w), NEW T, NEW h, Sums(h, v, T), S \subseteq T,
         \A x \in S : w[x] = v[x]
  PROVE  SumOf(w, S) = h[S]
<1>. DEFINE g == CHOOSE g : Sums(g, w, S)
<1>1. Sums(g, w, S)
  BY SumsExist
<1>2. SumOf(w, S) = g[S]
  BY DEF SumOf
<1>. HIDE DEF g
<1>. QED
  BY <1>1, <1>2, SumsAgree

LEMMA SumUnfolds ==
  ASSUME NEW w, NEW S \in Summable(w)
  PROVE  /\ S = {} => SumOf(w, S) = 0
         /\ S # {} => SumOf(w, S) = w[First(S)] + SumOf(w, S \ {First(S)})
<1>1. PICK g : Sums(g, w, S)
  BY SumsExist
<1>2. SumOf(w, S) = g[S]
  BY <1>1, SumIsComputed
<1>3. CASE S = {}
  BY <1>1, <1>2, <1>3 DEF Sums
<1>4. CASE S # {}
  <2>1. S \ {First(S)} \in Summable(w)
    BY <1>4, FewerRows
  <2>2. SumOf(w, S \ {First(S)}) = g[S \ {First(S)}]
    BY <1>1, <2>1, SumIsComputed
  <2>3. g[S] = w[First(S)] + g[S \ {First(S)}]
    BY <1>1, <1>4 DEF Sums
  <2>. QED
    BY <1>2, <1>4, <2>2, <2>3
<1>. QED
  BY <1>3, <1>4

LEMMA SumType ==
  ASSUME NEW w, \A x \in DOMAIN w : w[x] \in Nat, NEW S \in Summable(w)
  PROVE  SumOf(w, S) \in Nat
<1>. DEFINE Bad == {U \in Summable(w) : SumOf(w, U) \notin Nat}
<1>. SUFFICES ASSUME Bad # {} PROVE FALSE
  OBVIOUS
<1>1. PICK U \in Bad : \A V \in Bad : V \subseteq U => V = U
  <2>1. Bad \in SUBSET Summable(w)
    OBVIOUS
  <2>. HIDE DEF Bad
  <2>. QED
    BY <2>1, SmallestSet
<1>2. U # {}
  <2>1. U \in Summable(w) /\ SumOf(w, U) \notin Nat
    BY <1>1
  <2>2. U = {} => SumOf(w, U) = 0
    BY <2>1, SumUnfolds
  <2>. QED
    BY <2>1, <2>2
<1>3. First(U) \in U /\ U \ {First(U)} \in Summable(w)
  BY <1>1, <1>2, FewerRows
<1>4. SumOf(w, U \ {First(U)}) \in Nat
  BY <1>1, <1>3
<1>5. w[First(U)] \in Nat
  BY <1>1, <1>3 DEF Summable, FiniteSubsetsOf
<1>. QED
  BY <1>1, <1>2, <1>4, <1>5, SumUnfolds

\* The order in which the fold takes the elements does not matter.
LEMMA SumWithout ==
  ASSUME NEW w, \A x \in DOMAIN w : w[x] \in Nat, NEW S \in Summable(w), NEW r \in S
  PROVE  SumOf(w, S) = w[r] + SumOf(w, S \ {r})
<1>. DEFINE Bad == {U \in Summable(w) : \E q \in U : SumOf(w, U) # w[q] + SumOf(w, U \ {q})}
<1>. SUFFICES ASSUME Bad # {} PROVE FALSE
  OBVIOUS
<1>1. PICK U \in Bad : \A V \in Bad : V \subseteq U => V = U
  <2>1. Bad \in SUBSET Summable(w)
    OBVIOUS
  <2>. HIDE DEF Bad
  <2>. QED
    BY <2>1, SmallestSet
<1>2. PICK q \in U : SumOf(w, U) # w[q] + SumOf(w, U \ {q})
  BY <1>1
<1>. DEFINE f == First(U)
<1>3. f \in U /\ SumOf(w, U) = w[f] + SumOf(w, U \ {f})
  BY <1>1, <1>2, FewerRows, SumUnfolds
<1>. HIDE DEF f
<1>4. f # q
  BY <1>2, <1>3
<1>5. /\ U \ {f} \in Summable(w) /\ U \ {q} \in Summable(w) /\ (U \ {f}) \ {q} \in Summable(w)
      /\ (U \ {q}) \ {f} = (U \ {f}) \ {q}
  BY <1>1, FS_Subset DEF Summable, FiniteSubsetsOf
<1>6. SumOf(w, U \ {f}) = w[q] + SumOf(w, (U \ {f}) \ {q})
  BY <1>1, <1>3, <1>4, <1>5
<1>7. SumOf(w, U \ {q}) = w[f] + SumOf(w, (U \ {q}) \ {f})
  BY <1>1, <1>2, <1>3, <1>4, <1>5
<1>8. SumOf(w, (U \ {f}) \ {q}) \in Nat /\ w[f] \in Nat /\ w[q] \in Nat
  BY <1>1, <1>3, <1>5, SumType DEF Summable, FiniteSubsetsOf
<1>9. SumOf(w, U \ {q}) = w[f] + SumOf(w, (U \ {f}) \ {q})
  BY <1>5, <1>7
<1>. QED
  BY <1>2, <1>3, <1>6, <1>8, <1>9

--------------------------------------------------------------------------------
(* The total of a ledger is a sum of quantities. *)

Ledgers == FiniteSubsetsOf(Reservation)
Quantities == [r \in Reservation |-> r.quantity]

LEMMA TotalIsTheSum ==
  ASSUME NEW S \in Ledgers
  PROVE  S \in Summable(Quantities) /\ Total(S) = SumOf(Quantities, S)
<1>. DEFINE Folds(g) ==
       g = [R \in SUBSET S |-> IF R = {} THEN 0 ELSE First(R).quantity + g[R \ {First(R)}]]
<1>1. S \in Summable(Quantities)
  BY DEF Ledgers, Summable, Quantities
<1>2. \A R \in SUBSET S : R # {} => First(R).quantity = Quantities[First(R)]
  BY DEF First, Ledgers, FiniteSubsetsOf, Quantities
<1>3. ASSUME NEW g PROVE Folds(g) <=> Sums(g, Quantities, S)
  BY <1>2 DEF Sums
<1>4. Total(S) = (CHOOSE g : Folds(g))[S]
  BY DEF Total, MapThenSumSet, MapThenFoldSet, First
<1>. HIDE DEF Folds
<1>5. \E g : Folds(g)
  BY <1>1, <1>3, SumsExist
<1>6. PICK g : Folds(g) /\ Total(S) = g[S]
  BY <1>4, <1>5
<1>. QED
  BY <1>1, <1>3, <1>6, SumIsComputed

LEMMA TotalType ==
  ASSUME NEW S \in Ledgers
  PROVE  Total(S) \in Nat
<1>1. \A x \in DOMAIN Quantities : Quantities[x] \in Nat
  BY DEF Quantities, Reservation
<1>. QED
  BY <1>1, TotalIsTheSum, SumType

LEMMA TotalWithout ==
  ASSUME NEW S \in Ledgers, NEW r \in S
  PROVE  Total(S) = r.quantity + Total(S \ {r})
<1>1. \A x \in DOMAIN Quantities : Quantities[x] \in Nat
  BY DEF Quantities, Reservation
<1>2. S \ {r} \in Ledgers /\ Quantities[r] = r.quantity
  BY FS_Subset DEF Ledgers, FiniteSubsetsOf, Quantities
<1>. QED
  BY <1>1, <1>2, TotalIsTheSum, SumWithout

--------------------------------------------------------------------------------
(* The ledger balances. *)

\* The rows a rollback restores balance as well, and every ledger is finite.
LedgerInv ==
  /\ Balanced(consumed, reservations) /\ IsFiniteSet(reservations)
  /\ \A p \in Processes : call[p] # NoCall =>
       Balanced(undo[p].consumed, undo[p].reservations) /\ IsFiniteSet(undo[p].reservations)

LEMMA ChargeBalances ==
  ASSUME IInv, LedgerInv, NEW p \in Processes, NEW k \in Kinds, Charge(p, k)
  PROVE  Balanced(consumed', reservations') /\ IsFiniteSet(reservations')
<1>. DEFINE c == call[p]
            charged == {Counter(s, k) : s \in SubjectsOf(c)}
            New(x) == [counter |-> x, key |-> c.key, quantity |-> c.items[k]]
            new == {New(x) : x \in charged}
            RowsOf(R, x) == {r \in R : r.counter = x}
<1>1. TypeOK /\ c # NoCall /\ k \in DOMAIN c.items
  BY DEF Charge, IInv, TypeOK, ProgressInv
<1>2. /\ c.key \in Keys /\ c.items[k] \in Nat \ {0} /\ SubjectsOf(c) \subseteq Subjects
  BY <1>1, CallFacts
<1>. HIDE DEF c
<1>3. \A s \in SubjectsOf(c) : Counter(s, k) \in Counters
  BY <1>1, <1>2 DEF Counter, Counters, TypeOK
<1>4. /\ Existing(c, k) = {}
      /\ \A x \in Counters :
           consumed'[x] = IF x \in charged THEN consumed[x] + c.items[k] ELSE consumed[x]
      /\ reservations' = reservations \cup new
  BY DEF Charge, c
<1>5. new \subseteq Reservation
  BY <1>2, <1>3 DEF Reservation
<1>6. IsFiniteSet(new)
  <2>. DEFINE row(s) == New(Counter(s, k))
  <2>1. new \subseteq {row(Tenant)} \cup {row(c.user)}
    BY DEF SubjectsOf
  <2>2. IsFiniteSet({row(Tenant)} \cup {row(c.user)})
    BY FS_Singleton, FS_Union
  <2>. QED
    BY <2>1, <2>2, FS_Subset
<1>7. IsFiniteSet(reservations')
  BY <1>4, <1>6, FS_Union DEF LedgerInv
<1>8. ASSUME NEW x \in charged PROVE New(x) \notin reservations
  BY <1>4 DEF Existing, Counter
<1>9. ASSUME NEW x \in Counters PROVE consumed'[x] = Total(RowsOf(reservations', x))
  <2>1. consumed[x] = Total(RowsOf(reservations, x))
    BY DEF LedgerInv, Balanced
  <2>2. CASE x \notin charged
    <3>1. RowsOf(reservations', x) = RowsOf(reservations, x)
      BY <1>4, <2>2
    <3>. QED
      BY <1>4, <2>1, <2>2, <3>1
  <2>3. CASE x \in charged
    <3>. DEFINE now == RowsOf(reservations', x)
                before == RowsOf(reservations, x)
    <3>1. now = before \cup {New(x)} /\ New(x) \notin before
      BY <1>4, <1>8, <2>3
    <3>2. now \in Ledgers /\ before \in Ledgers
      BY <1>1, <1>4, <1>5, <1>7, FS_Subset DEF Ledgers, FiniteSubsetsOf, LedgerInv, TypeOK
    <3>3. Total(now) = c.items[k] + Total(before)
      BY <3>1, <3>2, TotalWithout
    <3>4. Total(before) \in Nat
      BY <3>2, TotalType
    <3>. QED
      BY <1>2, <1>4, <2>1, <2>3, <3>3, <3>4
  <2>. QED
    BY <2>2, <2>3
<1>. QED
  BY <1>7, <1>9 DEF Balanced

LEMMA LedgerStep ==
  ASSUME IInv, LedgerInv, [Next]_vars
  PROVE  LedgerInv'
<1>. USE DEF LedgerInv
<1>0. Counters' = Counters
  BY DEF Counters, Subjects
<1>1. ASSUME NEW p \in Processes, NEW c \in Calls, Lock(p, c) PROVE LedgerInv'
  <2>1. /\ UNCHANGED <<consumed, reservations>> /\ undo'[p] = rows
        /\ \A q \in Processes : call'[q] # NoCall => q = p
    BY <1>1 DEF Lock, OrgRowFree, IInv, TypeOK
  <2>. QED
    BY <2>1 DEF rows, Balanced
<1>2. ASSUME NEW p \in Processes, NEW k \in Kinds, Charge(p, k) PROVE LedgerInv'
  <2>1. UNCHANGED <<call, undo>>
    BY <1>2 DEF Charge
  <2>. QED
    BY <1>2, <2>1, ChargeBalances DEF Balanced
<1>3. ASSUME NEW p \in Processes, call[p] # NoCall, Rollback(p), Release(p) PROVE LedgerInv'
  <2>1. \A q \in Processes : call'[q] = NoCall
    BY <1>3 DEF Release, IInv, LockInv, TypeOK
  <2>. QED
    BY <1>3, <2>1 DEF Rollback, Balanced
<1>4. ASSUME NEW p \in Processes, NEW k \in Kinds, Refuse(p, k) PROVE LedgerInv'
  BY <1>3, <1>4 DEF Refuse, IInv, TypeOK
<1>5. ASSUME NEW p \in Processes, Abandon(p) PROVE LedgerInv'
  BY <1>3, <1>5 DEF Abandon
<1>6. ASSUME NEW p \in Processes, Commit(p) PROVE LedgerInv'
  <2>1. /\ UNCHANGED <<consumed, reservations, undo>>
        /\ \A q \in Processes : call'[q] # NoCall => call[q] # NoCall
    BY <1>6 DEF Commit, Release, IInv, TypeOK
  <2>. QED
    BY <2>1 DEF Balanced
<1>7. ASSUME UNCHANGED <<consumed, reservations, call, undo>> PROVE LedgerInv'
  BY <1>7 DEF Balanced
<1>. QED
  BY <1>1, <1>2, <1>4, <1>5, <1>6, <1>7
  DEF Next, Replay, CreatePolicy, NextWindow, vars, procs

\* Every counter is the sum of its reservations in every state, also between the steps of
\* a bundle and after the rollback of a bundle that failed half way.
THEOREM CountersAreSums == Spec => []LedgerBalances
<1>1. Init => LedgerInv
  <2>1. Total({}) = 0 /\ IsFiniteSet({})
    BY TotalIsTheSum, SumUnfolds, FS_EmptySet DEF Ledgers, FiniteSubsetsOf
  <2>2. ASSUME Init, NEW x \in Counters
        PROVE  consumed[x] = Total({r \in reservations : r.counter = x})
    <3>1. {r \in reservations : r.counter = x} = {} /\ consumed[x] = 0
      BY <2>2 DEF Init
    <3>. QED
      BY <2>1, <3>1
  <2>3. ASSUME Init PROVE reservations = {} /\ \A p \in Processes : call[p] = NoCall
    BY <2>3 DEF Init
  <2>. QED
    BY <2>1, <2>2, <2>3 DEF LedgerInv, Balanced
<1>2. IInv /\ LedgerInv /\ [Next]_vars => LedgerInv'
  BY LedgerStep
<1>3. LedgerInv => LedgerBalances
  BY DEF LedgerInv, LedgerBalances
<1>. QED
  BY <1>1, <1>2, <1>3, LedgerInvariant, PTL DEF Spec

================================================================================
