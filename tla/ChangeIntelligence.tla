--------------------------- MODULE ChangeIntelligence ---------------------------
(***************************************************************************)
(* Deterministic analysis of the snapshots of one repository: the history  *)
(* is read, the diff classified, the reverse import graph walked, and the  *)
(* features are stored once per snapshot with the score of the heuristic.  *)
(* Workers analyse one snapshot at the same time while ingestion stamps    *)
(* and commits others.                                                     *)
(***************************************************************************)
EXTENDS Integers, FiniteSets, Sequences, SequencesExt

CONSTANTS
  Changes,     \* the changes a snapshot may record: files, author, the conclusion of its
               \*   checks, and the modules and import edges of its base tree
  Workers,
  MaxDepth,    \* DEFAULT_BLAST_DEPTH
  MaxNodes,    \* MAX_BLAST_NODES
  MaxHistory,  \* MAX_PERSISTED_HISTORY
  Days,        \* DEFAULT_HISTORY_WINDOW_DAYS, in ticks
  MaxTime,     \* bound on the passing of time
  None

\* Modules are numbered, imports are among them, and nothing is neither a time nor an analysis.
ChangeAssumption ==
  /\ \A s \in Changes :
       s.modules \subseteq Nat /\ IsFiniteSet(s.modules) /\ s.edges \subseteq s.modules \X s.modules
  /\ MaxDepth \in Nat \ {0} /\ MaxNodes \in Nat \ {0}
  /\ None \notin Int
  /\ None \notin [of : Changes, rows : SUBSET Changes, known : SUBSET Changes]

VARIABLES
  now,
  created,    \* created_at of a snapshot whose transaction has stamped it
  visible,    \* snapshots whose transaction committed
  analysis,   \* what a worker has read and not yet stored
  features,   \* ChangeFeatureSet rows by snapshot, with the rows they were computed from
  score       \* RiskScore rows by the snapshot of their feature set

vars == <<now, created, visible, analysis, features, score>>

Init ==
  /\ now = 0 /\ created = [s \in Changes |-> None] /\ visible = {}
  /\ analysis = [w \in Workers |-> None]
  /\ features = <<>> /\ score = <<>>

--------------------------------------------------------------------------------
(* The blast radius: modules are numbered in the order of their names.  A path *)
(* leads from a changed module to one that imports it, directly or not.        *)

InOrder(modules) ==
  [i \in 1 .. Cardinality(modules) |->
     CHOOSE m \in modules : Cardinality({n \in modules : n <= m}) = i]
Dependents(edges, m) == {e[1] : e \in {f \in edges : f[2] = m}}

VisitQuietly(changed, edges, walk) ==   \* mutated form: the depth bound goes unnoticed
  LET path == Head(walk.queue)
      reached == changed \cup {Last(p) : p \in walk.paths}
      fresh == InOrder(Dependents(edges, Last(path)) \ reached)
      grown == [i \in DOMAIN fresh |-> Append(path, fresh[i])]
  IN  IF Len(path) > MaxDepth THEN [walk EXCEPT !.queue = Tail(@)]
      ELSE [walk EXCEPT !.queue = Tail(@) \o grown, !.paths = @ \cup Range(grown)]

\* One turn of the loop: the path at the head of the queue is extended, up to the depth and
\* the number of nodes allowed; either bound marks the result as truncated.
Visit(changed, edges, walk) ==
  LET path == Head(walk.queue)
      next == Dependents(edges, Last(path))
      fresh == InOrder(next \ (changed \cup {Last(p) : p \in walk.paths}))
      room == MaxNodes - Cardinality(walk.paths)
      full == Len(fresh) >= room
      grown == [i \in 1 .. IF full THEN room ELSE Len(fresh) |-> Append(path, fresh[i])]
  IN  IF Len(path) > MaxDepth
      THEN [walk EXCEPT !.queue = Tail(@), !.truncated = @ \/ next # {}]
      ELSE [queue |-> IF full THEN <<>> ELSE Tail(walk.queue) \o grown,
            paths |-> walk.paths \cup Range(grown), truncated |-> walk.truncated \/ full]

\* The loop, which ends within these many turns: a path is at the head of the queue once.
Turns(changed) == Cardinality(changed) + MaxNodes
Walk(changed, edges) ==
  LET start == InOrder(changed)
      walk[n \in 0 .. Turns(changed)] ==
        IF n = 0
        THEN [queue |-> [i \in DOMAIN start |-> <<start[i]>>], paths |-> {}, truncated |-> FALSE]
        ELSE LET before == walk[n - 1] IN
               IF before.queue = <<>> THEN before ELSE Visit(changed, edges, before)
  IN  walk[Turns(changed)]

Changed(s) == {f.module : f \in s.files} \cap s.modules

\* Null features unless the tree is there, knows every changed file, and was walked to the end.
Blast(s, tree) ==
  LET walk == Walk(Changed(s), s.edges)
      reached(far) == {Last(p) : p \in {q \in walk.paths : far = (Len(q) > 2)}}
  IN  IF ~ tree \/ walk.truncated \/ \E f \in s.files : f.module \notin s.modules THEN None
      ELSE [direct |-> reached(FALSE), transitive |-> reached(TRUE),
            depth |-> Max({0} \cup {Len(p) - 1 : p \in walk.paths})]

--------------------------------------------------------------------------------
(* History, features and score *)

Paths(s)   == {f.path : f \in s.files}
Areas(s)   == {f.area : f \in s.files}

\* analyze_snapshot_for_organization: the oldest rows before the snapshot up to the limit and
\* one more, and of these the newest.  Rows of one time are in the order of their random ids.
Oldest(n, rows) ==
  {few \in SUBSET rows :
     /\ Cardinality(few) = IF Cardinality(rows) < n THEN Cardinality(rows) ELSE n
     /\ \A f \in few, r \in rows \ few : created[f] <= created[r]}
MayRead(s, rows) ==
  LET prior == {r \in visible : created[r] < created[s]} IN
    \E read \in Oldest(MaxHistory + 1, prior) :
      /\ rows \subseteq read
      /\ read \ rows \in Oldest(IF Cardinality(read) > MaxHistory THEN 1 ELSE 0, read)

\* compute_historical_statistics
Window(s, rows) == {r \in rows : created[s] - Days <= created[r] /\ created[r] < created[s]}
Statistics(s, included) ==
  LET near == {r \in included : Areas(r) \cap Areas(s) # {}}
      observed == {r \in near : r.failed # None}
      owned == {r \in near : s.author # None /\ r.author # None}
  IN  [touches |-> IF included = {} THEN None
                   ELSE Cardinality({r \in included : Paths(r) \cap Paths(s) # {}}),
       failures |-> IF observed = {} THEN None ELSE Cardinality({r \in observed : r.failed}),
       own |-> IF owned = {} THEN None ELSE Cardinality({r \in owned : r.author = s.author})]

FeatureSet(s, tree, rows) ==
  [added |-> MapThenSumSet(LAMBDA f : f.added, s.files),
   deleted |-> MapThenSumSet(LAMBDA f : f.deleted, s.files),
   files |-> Cardinality(s.files), kinds |-> {f.kind : f \in s.files},
   sensitive |-> \E f \in s.files : f.sensitive,
   blast |-> Blast(s, tree), history |-> Statistics(s, Window(s, rows))]

\* score_features: the points of the rules that fire, and the band.
Points ==
  [large_change |-> 20, many_files |-> 15, migration |-> 25, dependency |-> 15, sensitive |-> 25,
   no_tests |-> 10, large_deletion |-> 10, wide_blast |-> 15, prior_failure_proxies |-> 15]
Score(f) ==
  LET fires ==
        [large_change |-> f.added + f.deleted >= 100, many_files |-> f.files >= 4,
         migration |-> "migration" \in f.kinds, dependency |-> "dependency" \in f.kinds,
         sensitive |-> f.sensitive, no_tests |-> "test" \notin f.kinds,
         large_deletion |-> f.deleted >= 50,
         wide_blast |-> f.blast # None /\ Cardinality(f.blast.transitive) >= 5,
         prior_failure_proxies |-> f.history.failures # None /\ f.history.failures >= 2]
      total == MapThenSumSet(LAMBDA rule : Points[rule], {rule \in DOMAIN Points : fires[rule]})
  IN  [points |-> IF total > 100 THEN 100 ELSE total,
       band |-> IF total < 20 THEN "low" ELSE IF total < 40 THEN "medium" ELSE "high"]

--------------------------------------------------------------------------------
(* Ingestion stamps a snapshot and commits it later; workers analyse it. *)

Tick == now < MaxTime /\ now' = now + 1 /\ UNCHANGED <<created, visible, analysis, features, score>>

Stamp(s) ==
  /\ created[s] = None /\ created' = [created EXCEPT ![s] = now]
  /\ UNCHANGED <<now, visible, analysis, features, score>>

Commit(s) ==
  /\ created[s] # None /\ s \notin visible /\ visible' = visible \cup {s}
  /\ UNCHANGED <<now, created, analysis, features, score>>

Put(table, s, row) == [t \in DOMAIN table \cup {s} |-> IF t = s THEN row ELSE table[t]]

\* persist_deterministic_score: a score that is there stays.
ScoreOnce(s, values) ==
  score' = IF s \in DOMAIN score THEN score ELSE Put(score, s, Score(values))

\* The stored features are returned, and scored if that is still to be done.
ReturnExisting(w, s) ==
  /\ analysis[w] = None /\ s \in visible /\ s \in DOMAIN features
  /\ ScoreOnce(s, features[s].values)
  /\ UNCHANGED <<now, created, visible, analysis, features>>

\* The history is read outside the transaction that stores what is computed from it.
ReadHistory(w, s) ==
  /\ analysis[w] = None /\ s \in visible /\ s \notin DOMAIN features
  /\ \E rows \in SUBSET visible :
       /\ MayRead(s, rows)
       /\ analysis' = [analysis EXCEPT ![w] =
            [of |-> s, rows |-> rows, known |-> {r \in visible : created[r] < created[s]}]]
  /\ UNCHANGED <<now, created, visible, features, score>>

\* The tree is fetched, or is unavailable.  Features, evidence and score are inserted in one
\* transaction; when another worker was first, what it stored stands.
FeatureRow(a, tree) ==
  [values |-> FeatureSet(a.of, tree, a.rows), rows |-> a.rows, known |-> a.known]
PersistOwnScore(w, tree) ==   \* mutated form: the loser scores what it computed itself
  /\ analysis[w] # None
  /\ LET a == analysis[w]
         row == FeatureRow(a, tree)
     IN  /\ features' = IF a.of \in DOMAIN features THEN features ELSE Put(features, a.of, row)
         /\ score' = Put(score, a.of, Score(row.values))
  /\ analysis' = [analysis EXCEPT ![w] = None]
  /\ UNCHANGED <<now, created, visible>>
Persist(w, tree) ==
  /\ analysis[w] # None
  /\ LET a == analysis[w] IN
       IF a.of \in DOMAIN features
       THEN UNCHANGED features /\ ScoreOnce(a.of, features[a.of].values)
       ELSE LET row == FeatureRow(a, tree) IN
              features' = Put(features, a.of, row) /\ ScoreOnce(a.of, row.values)
  /\ analysis' = [analysis EXCEPT ![w] = None]
  /\ UNCHANGED <<now, created, visible>>

Abandon(w) ==
  /\ analysis[w] # None /\ analysis' = [analysis EXCEPT ![w] = None]
  /\ UNCHANGED <<now, created, visible, features, score>>

Next ==
  \/ Tick \/ \E s \in Changes : Stamp(s) \/ Commit(s)
  \/ \E w \in Workers :
       \/ Abandon(w)
       \/ \E s \in Changes : ReturnExisting(w, s) \/ ReadHistory(w, s)
       \/ \E tree \in BOOLEAN : Persist(w, tree)

Spec == Init /\ [][Next]_vars

--------------------------------------------------------------------------------
\* Reference: the modules that reach a changed one in at most n imports.
Within(changed, edges, n) ==
  LET ball[i \in 0 .. n] ==
        IF i = 0 THEN changed
        ELSE LET near == ball[i - 1] IN near \cup {e[1] : e \in {f \in edges : f[2] \in near}}
  IN  ball[n]

\* Blast features that are not null are those of the whole graph: every module that depends
\* on a changed one is counted, as direct or transitive and with the longest of the distances.
BlastIsExact ==
  \A s \in DOMAIN features : features[s].values.blast # None =>
    LET within(n) == Within(Changed(s), s.edges, n)
        far == Cardinality(s.modules)
        blast == features[s].values.blast
    IN  /\ blast.direct = within(1) \ Changed(s)
        /\ blast.transitive = within(far) \ within(1)
        /\ within(blast.depth) = within(far)
        /\ blast.depth > 0 => within(blast.depth - 1) # within(far)

\* Whoever stored it, a score is the score of the features that are stored, and counts only
\* snapshots strictly before its own.
ScoreIsOfStoredFeatures ==
  /\ DOMAIN score = DOMAIN features
  /\ \A s \in DOMAIN features :
       /\ score[s] = Score(features[s].values)
       /\ \A r \in features[s].rows : created[r] < created[s]

\* docs/06:59: the history includes the snapshots in the window before the prediction, up to
\* the limit; known are the ones that could be read.
HistoryIsOfTheWindow ==
  \A s \in DOMAIN features :
    LET window == Window(s, features[s].known)
        counted == Window(s, features[s].rows)
    IN  counted = window \/ Cardinality(counted) = MaxHistory
================================================================================
