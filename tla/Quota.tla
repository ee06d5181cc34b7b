-------------------------------- MODULE Quota --------------------------------
(***************************************************************************)
(* The quota ledger of one organization: fixed-window counters per subject *)
(* and kind, append-only reservations, and the operational policy that     *)
(* sets the limits.  A reservation is a transaction under the organization *)
(* row lock; a bundle charges several kinds in one transaction, and the    *)
(* transaction of the caller may still roll everything back.               *)
(***************************************************************************)
EXTENDS Integers, FiniteSets, FiniteSetsExt

CONSTANTS
  Kinds,          \* quota kinds counted over windows
  Users,          \* users whose own consumption is counted beside the tenant's
  Keys,           \* idempotency keys
  Processes,      \* concurrent requests
  Calls,          \* reservations that may be asked for: key, user, and the quantity
                  \* of each kind of the bundle
  Policies,       \* limits an administrator may set
  DefaultLimits,  \* limits without any policy record
  MaxWindow,      \* bound on the passing of time
  Tenant, NoUser, NoCall, NoLimit

Limits == [Kinds -> Nat \ {0}]

\* Keys carry the operation's prefix (github:, snapshot:, llm:, runner:, ...), so two
\* calls with one key ask for the same kinds on behalf of the same sort of subject.
ASSUME QuotaAssumption ==
  /\ \A c \in Calls :
       /\ c.key \in Keys /\ c.user \in Users \cup {NoUser}
       /\ DOMAIN c.items \subseteq Kinds
       /\ \A k \in DOMAIN c.items : c.items[k] \in Nat \ {0}
  /\ Policies \subseteq Limits
  /\ DefaultLimits \in Limits
  /\ MaxWindow \in Nat
  /\ Tenant \notin Users /\ NoUser \notin Users \cup {Tenant}
  /\ NoCall \notin Calls
  /\ NoLimit \notin Nat
  /\ \A c, d \in Calls : c.key = d.key =>
       /\ DOMAIN c.items = DOMAIN d.items
       /\ c.user = NoUser <=> d.user = NoUser

VARIABLES
  policy,        \* limits of the newest OperationalPolicy
  window,        \* current window of each kind
  limit,         \* UsageCounter.limit, NoLimit while the row does not exist
  consumed,      \* UsageCounter.consumed
  reservations,  \* UsageReservation rows
  call,          \* the call a process executes under the organization lock
  left,          \* kinds of the call still to reserve
  undo           \* rows as they were when the process took the lock

rows  == [limit |-> limit, consumed |-> consumed, reservations |-> reservations]
procs == <<call, left, undo>>
vars  == <<policy, window, limit, consumed, reservations, procs>>

Subjects == {Tenant} \cup Users
Counters == Subjects \X Kinds \X (0 .. MaxWindow)
Counter(s, k) == <<s, k, window[k]>>
Scope(s) == IF s = Tenant THEN "tenant" ELSE "user"
SubjectsOf(c) == {Tenant} \cup ({c.user} \ {NoUser})
Reservation == [counter : Counters, key : Keys, quantity : Nat \ {0}]

Init ==
  /\ policy = DefaultLimits
  /\ window = [k \in Kinds |-> 0]
  /\ limit = [c \in Counters |-> NoLimit]
  /\ consumed = [c \in Counters |-> 0]
  /\ reservations = {}
  /\ call = [p \in Processes |-> NoCall]
  /\ left = [p \in Processes |-> {}]
  /\ undo = [p \in Processes |-> [limit |-> limit, consumed |-> consumed, reservations |-> {}]]

--------------------------------------------------------------------------------
OrgRowFree == \A p \in Processes : call[p] = NoCall

Lock(p, c) ==
  /\ call[p] = NoCall
  /\ OrgRowFree
  /\ call' = [call EXCEPT ![p] = c]
  /\ left' = [left EXCEPT ![p] = DOMAIN c.items]
  /\ undo' = [undo EXCEPT ![p] = rows]
  /\ UNCHANGED <<policy, window, limit, consumed, reservations>>

\* The rows one key already has for a kind: one per scope, whoever made it.
ExistingInWindow(c, k) ==   \* mutated form: looks only at the current window
  {r \in reservations : r.key = c.key /\ \E s \in SubjectsOf(c) : r.counter = Counter(s, k)}
Existing(c, k) ==
  {r \in reservations : /\ r.key = c.key
                        /\ r.counter[2] = k
                        /\ \E s \in SubjectsOf(c) : Scope(r.counter[1]) = Scope(s)}

Agrees(c, k) ==
  /\ \A s \in SubjectsOf(c) : \E r \in Existing(c, k) : Scope(r.counter[1]) = Scope(s)
  /\ \A r \in Existing(c, k) : r.quantity = c.items[k]

Replay(p, k) ==
  /\ k \in left[p]
  /\ Existing(call[p], k) # {}
  /\ Agrees(call[p], k)
  /\ left' = [left EXCEPT ![p] = @ \ {k}]
  /\ UNCHANGED <<policy, window, limit, consumed, reservations, call, undo>>

\* A window keeps the limit of the policy that opened it.
EffectiveLimitNow(s, k) == policy[k]   \* mutated form: the newest policy's limit
EffectiveLimit(s, k) ==
  IF limit[Counter(s, k)] = NoLimit THEN policy[k] ELSE limit[Counter(s, k)]

Fits(c, k) ==
  \A s \in SubjectsOf(c) : consumed[Counter(s, k)] + c.items[k] <= EffectiveLimit(s, k)

Charge(p, k) ==
  LET c == call[p]
      charged == {Counter(s, k) : s \in SubjectsOf(c)}
  IN
  /\ k \in left[p]
  /\ Existing(c, k) = {}
  /\ Fits(c, k)
  /\ limit' = [x \in Counters |->
       IF x \in charged /\ limit[x] = NoLimit THEN policy[k] ELSE limit[x]]
  /\ consumed' = [x \in Counters |-> IF x \in charged THEN consumed[x] + c.items[k] ELSE consumed[x]]
  /\ reservations' = reservations \cup
       {[counter |-> x, key |-> c.key, quantity |-> c.items[k]] : x \in charged}
  /\ left' = [left EXCEPT ![p] = @ \ {k}]
  /\ UNCHANGED <<policy, window, call, undo>>

\* The lock ends with the caller's transaction.
Release(p) ==
  /\ call' = [call EXCEPT ![p] = NoCall]
  /\ left' = [left EXCEPT ![p] = {}]

Commit(p) ==
  /\ call[p] # NoCall
  /\ left[p] = {}
  /\ Release(p)
  /\ UNCHANGED <<policy, window, limit, consumed, reservations, undo>>

RollbackCountersOnly(p) ==   \* mutated form: the reservations stay
  /\ limit' = undo[p].limit
  /\ consumed' = undo[p].consumed
  /\ UNCHANGED reservations
Rollback(p) ==
  /\ limit' = undo[p].limit
  /\ consumed' = undo[p].consumed
  /\ reservations' = undo[p].reservations

\* QuotaExceededError, or ValueError for a key that was used differently.
Refuse(p, k) ==
  /\ k \in left[p]
  /\ IF Existing(call[p], k) = {} THEN ~Fits(call[p], k) ELSE ~Agrees(call[p], k)
  /\ Rollback(p)
  /\ Release(p)
  /\ UNCHANGED <<policy, window, undo>>

\* The caller's transaction fails for a reason of its own, or its process dies.
Abandon(p) ==
  /\ call[p] # NoCall
  /\ Rollback(p)
  /\ Release(p)
  /\ UNCHANGED <<policy, window, undo>>

CreatePolicy(limits) ==
  /\ OrgRowFree
  /\ policy' = limits
  /\ UNCHANGED <<window, limit, consumed, reservations, procs>>

NextWindow(k) ==
  /\ window[k] < MaxWindow
  /\ window' = [window EXCEPT ![k] = @ + 1]
  /\ UNCHANGED <<policy, limit, consumed, reservations, procs>>

Next ==
  \/ \E p \in Processes :
       \/ \E c \in Calls : Lock(p, c)
       \/ \E k \in Kinds : Replay(p, k) \/ Charge(p, k) \/ Refuse(p, k)
       \/ Commit(p)
       \/ Abandon(p)
  \/ \E limits \in Policies : CreatePolicy(limits)
  \/ \E k \in Kinds : NextWindow(k)

Spec == Init /\ [][Next]_vars

--------------------------------------------------------------------------------
(* Properties.                                                              *)

TypeOK ==
  /\ policy \in Limits
  /\ window \in [Kinds -> 0 .. MaxWindow]
  /\ limit \in [Counters -> Nat \cup {NoLimit}]
  /\ consumed \in [Counters -> Nat]
  /\ reservations \in SUBSET Reservation
  /\ call \in [Processes -> Calls \cup {NoCall}]
  /\ left \in [Processes -> SUBSET Kinds]
  /\ \A p \in Processes : call[p] = NoCall => left[p] = {}
  /\ undo \in [Processes -> [limit : [Counters -> Nat \cup {NoLimit}],
                             consumed : [Counters -> Nat],
                             reservations : SUBSET Reservation]]

\* No counter passes the limit its window was opened with, whatever policies are
\* created in the meantime.
WithinOwnLimit(l, used) ==
  \A x \in Counters : used[x] > 0 => l[x] # NoLimit /\ used[x] <= l[x]
WithinLimit == WithinOwnLimit(limit, consumed)

\* "An idempotency key consumes once per scope and quota kind" (docs/51): retries in
\* a later window, under another policy or by another user do not charge again.
OncePerKey(R) ==
  \A r, q \in R :
    /\ r.key = q.key
    /\ r.counter[2] = q.counter[2]
    /\ Scope(r.counter[1]) = Scope(q.counter[1])
    => r = q
ChargedOnce == OncePerKey(reservations)

\* "Multi-resource LLM and runner reservations are atomic" (docs/51): once the
\* lock is free again, a key holds all kinds of its bundle, for the tenant and the
\* user alike, or none.
Holds(R, c, k) ==
  \A s \in SubjectsOf(c) :
    \E r \in R : r.key = c.key /\ r.counter[2] = k /\ Scope(r.counter[1]) = Scope(s)
Whole(R, c) ==
  (\E r \in R : r.key = c.key) => \A k \in DOMAIN c.items : Holds(R, c, k)
BundleIsWhole == OrgRowFree => \A c \in Calls : Whole(reservations, c)

\* The counters are the sums of the reservations, also between the steps of a
\* bundle and after a rollback.
Total(R) == MapThenSumSet(LAMBDA r : r.quantity, R)
Balanced(used, R) == \A x \in Counters : used[x] = Total({r \in R : r.counter = x})
LedgerBalances == Balanced(consumed, reservations)

\* Reservations are append-only: only the rollback of the transaction that made a
\* row removes it.
CommittedStays ==
  \A p \in Processes : call[p] # NoCall => undo[p].reservations \subseteq reservations
================================================================================
