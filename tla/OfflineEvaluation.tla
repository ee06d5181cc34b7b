--------------------------- MODULE OfflineEvaluation ---------------------------
(***************************************************************************)
(* Datasets and offline models: an admitted source is labelled, split by   *)
(* time and checked for leakage; a baseline, two classical models and a    *)
(* semantic head are fitted on the training rows, tuned on the validation  *)
(* rows and evaluated on the test rows.  A hash is the value it is of, so  *)
(* an artifact names its data by carrying it.  A call that raises leaves   *)
(* everything as it was.  Bound: each kind of model is trained once.        *)
(***************************************************************************)
EXTENDS Integers, FiniteSets, Sequences, FiniteSetsExt

CONSTANTS
  Sources,        \* the payloads that may be extracted: sets of records with an id, the time
                  \*   at, the kind of outcome and the time seen when it was observed, head,
                  \*   patch, and the signal that its features give
  Skeleton,       \* the patch without its numbers
  AsOf, Window,   \* cutoff and observation window of the admission
  TrainBefore, ValidationBefore, TestBefore,
  Configs,        \* hyperparameters tried
  Score(_, _, _), \* what a configuration fitted on rows gives a row
  Digest(_, _),   \* canonical_hash of a configuration with a threshold, in hexadecimal order
  Thresholds, BaselineThreshold,
  MaxEpochs, Patience, MinDelta, Losses,
  MaxRevisions,   \* bound: how often a source is extracted
  None

OfflineAssumption ==
  /\ AsOf \in Int /\ Window \in Int
  /\ TrainBefore \in Int /\ ValidationBefore \in Int /\ TestBefore \in Int
  /\ \A payload \in Sources : \A r \in payload : r.at \in Int /\ r.seen \in Int \cup {None}
  /\ None \notin Int
  /\ Losses \subseteq Int /\ MinDelta \in Nat
  /\ \A c, d \in Configs, t, u \in Thresholds :
       Digest(c, t) \in Int /\ (Digest(c, t) = Digest(d, u) => c = d /\ t = u)

VARIABLES
  source,      \* ExtractedSource
  revisions,
  dataset,     \* DatasetBuild: its rows
  annotation,  \* the dataset that was annotated
  semantic,    \* SemanticDataset
  embeddings,  \* the semantic dataset whose texts were embedded
  baseline,    \* evaluation of the deterministic heuristic
  classical,   \* the classical artifact
  training,    \* losses seen by the head, and its checkpoint
  head         \* the semantic artifact

vars == <<source, revisions, dataset, annotation, semantic, embeddings, baseline, classical,
          training, head>>

Init ==
  /\ source = None /\ revisions = 0 /\ dataset = None /\ annotation = None /\ semantic = None
  /\ embeddings = None /\ baseline = None /\ classical = None /\ training = None /\ head = None

--------------------------------------------------------------------------------
(* Labels, splits and leakage *)

Positive == {"explicit_revert", "hotfix", "rapid_followup_fix", "failed_required_check"}
Late(r)  == r.at + Window > AsOf

Label(r) ==
  IF Late(r) \/ r.kind \in {None, "ambiguous"} \/ r.seen = None THEN "unknown"
  ELSE IF r.seen > r.at + Window THEN "unknown"
  ELSE IF r.kind \in Positive THEN "proxy_positive" ELSE "proxy_negative"

\* An observation that is impossible is an error and not an unknown label.
Impossible(r) ==
  /\ ~ Late(r) /\ r.kind \notin {None, "ambiguous"} /\ r.seen # None
  /\ \/ r.seen < r.at \/ r.seen > AsOf
     \/ r.kind = "no_proxy_observed" /\ r.seen <= r.at + Window /\ r.seen # r.at + Window

\* TemporalSplitPolicy.assign
Split(r) ==
  CASE Label(r) = "unknown" \/ r.at >= TestBefore -> "excluded"
    [] OTHER -> IF r.at < TrainBefore THEN "train"
                ELSE IF r.at < ValidationBefore THEN "validation" ELSE "test"

Row(r) == [id |-> r.id, at |-> r.at, seen |-> r.seen, head |-> r.head, patch |-> r.patch,
           signal |-> r.signal, label |-> Label(r), split |-> Split(r)]
Eligible(rows, split) == {r \in rows : r.split = split}
Included(rows)        == {r \in rows : r.split # "excluded"}

LeaksByHead(rows) ==   \* mutated form: only the commits are compared
  \E r, s \in Included(rows) : r.split # s.split /\ r.head = s.head
Leaks(rows) ==
  \E r, s \in Included(rows) :
    r.split # s.split /\ (r.head = s.head \/ Skeleton[r.patch] = Skeleton[s.patch])

Extract(payload) ==
  /\ revisions < MaxRevisions /\ payload # source
  /\ \A r \in payload : r.at <= AsOf
  /\ source' = payload /\ revisions' = revisions + 1
  /\ UNCHANGED <<dataset, annotation, semantic, embeddings, baseline, classical, training, head>>

Build ==
  /\ source # None /\ ~ \E r \in source : Impossible(r)
  /\ LET rows == {Row(r) : r \in source} IN
       /\ ~ Leaks(rows) /\ dataset # rows
       /\ dataset' = rows
  /\ UNCHANGED <<source, revisions, annotation, semantic, embeddings, baseline, classical,
                 training, head>>

--------------------------------------------------------------------------------
(* Metrics and selection *)

\* Counts of the confusion matrix of scored rows at a threshold, and comparisons of ratios.
Confusion(rows, score, t) ==
  LET positive(r) == r.label = "proxy_positive"
      n(hit, actual) == Cardinality({r \in rows : (score[r] >= t) = hit /\ positive(r) = actual})
  IN [tp |-> n(TRUE, TRUE), fp |-> n(TRUE, FALSE), fn |-> n(FALSE, TRUE), tn |-> n(FALSE, FALSE), at |-> t]
Nonzero(n)   == IF n = 0 THEN 1 ELSE n
RecallMet(c) == c.tp + c.fn > 0 /\ 4 * c.tp >= 3 * (c.tp + c.fn)
Cost(c)      == 5 * c.fn + 2 * c.fp
Compare(a, b, m, n) == a * n - b * m    \* sign of a/m - b/n
F1(c, d)     == Compare(2 * c.tp, 2 * d.tp, Nonzero(2 * c.tp + c.fp + c.fn), Nonzero(2 * d.tp + d.fp + d.fn))
Precision(c, d) == Compare(c.tp, d.tp, Nonzero(c.tp + c.fp), Nonzero(d.tp + d.fp))

\* Average precision, times the number of positives and a denominator common to all precisions,
\* which makes those of the same rows comparable integers; where only one label occurs there
\* is none and the code counts it as zero.
AveragePrecision(rows, score) ==
  LET positives == {r \in rows : r.label = "proxy_positive"}
      above(sample, r) == Cardinality({s \in sample : score[s] >= score[r]})
      precision(r) == (above(positives, r) * ProductSet(1 .. Cardinality(rows))) \div above(rows, r)
  IN  IF positives = rows THEN 0 ELSE MapThenSumSet(precision, positives)

\* The first difference of a sequence of criteria decides.
Beats(differences) ==
  \E i \in DOMAIN differences : differences[i] > 0 /\ \A j \in 1 .. i - 1 : differences[j] = 0

Table(rows, score) == {Confusion(rows, score, t) : t \in Thresholds}
Floored(table)     == LET met == {c \in table : RecallMet(c)} IN IF met = {} THEN table ELSE met
SelectThreshold(rows, score) ==
  CHOOSE c \in Floored(Table(rows, score)) :
    \A d \in Floored(Table(rows, score)) \ {c} :
      Beats(<<Cost(d) - Cost(c), F1(c, d), Precision(c, d), c.at - d.at>>)

\* evaluate_baseline: the threshold is frozen in the code, and must be what validation selects.
Heuristic(rows)   == [r \in rows |-> r.signal]
SelectBaseline(rows) ==
  LET met == {c \in Table(rows, Heuristic(rows)) : RecallMet(c)}
  IN  IF met = {} THEN None
      ELSE (CHOOSE c \in met :
              \A d \in met \ {c} : Beats(<<Precision(c, d), F1(c, d), c.at - d.at>>)).at
EvaluateBaseline ==
  /\ dataset # None /\ baseline = None
  /\ LET validation == Eligible(dataset, "validation")
         test == Eligible(dataset, "test")
     IN  /\ validation # {} /\ test # {}
         /\ SelectBaseline(validation) = BaselineThreshold
         /\ baseline' = [of |-> dataset, test |-> Confusion(test, Heuristic(test), BaselineThreshold)]
  /\ UNCHANGED <<source, revisions, dataset, annotation, semantic, embeddings, classical,
                 training, head>>

FittedOnAll(rows) == Included(rows)   \* mutated form: imputation and scaling see every row
Fitted(rows)      == Eligible(rows, "train")

\* Each configuration with its threshold on the validation rows, and the one to keep.
Candidates(train, validation) ==
  LET scores(c) == [r \in validation |-> Score(c, train, r)]
  IN  {[config |-> c, metrics |-> SelectThreshold(validation, scores(c)),
        prAuc |-> AveragePrecision(validation, scores(c))] : c \in Configs}
Hash(candidate) == Digest(candidate.config, candidate.metrics.at)
BestOf(candidates) ==
  CHOOSE a \in candidates : \A b \in candidates \ {a} :
    Beats(<<Cost(b.metrics) - Cost(a.metrics), F1(a.metrics, b.metrics), a.prAuc - b.prAuc,
            Hash(a) - Hash(b)>>)
Choice(rows) == BestOf(Candidates(Fitted(rows), Eligible(rows, "validation")))

Complete(rows) == \A split \in {"train", "validation", "test"} : Eligible(rows, split) # {}
TrainClassical ==
  /\ dataset # None /\ classical = None /\ Complete(dataset)
  /\ LET test == Eligible(dataset, "test")
         chosen == Choice(dataset)
         score == [r \in test |-> Score(chosen.config, Fitted(dataset), r)]
     IN  classical' = [of |-> dataset, config |-> chosen.config, threshold |-> chosen.metrics.at,
                       test |-> Confusion(test, score, chosen.metrics.at)]
  /\ UNCHANGED <<source, revisions, dataset, annotation, semantic, embeddings, baseline,
                 training, head>>

--------------------------------------------------------------------------------
(* The semantic dataset and its head *)

Annotate ==
  /\ dataset # None /\ annotation' = dataset
  /\ UNCHANGED <<source, revisions, dataset, semantic, embeddings, baseline, classical,
                 training, head>>

\* The rows and their splits come from the dataset, the texts from the source as it now is:
\* of the source only the identities are compared with those of the dataset.
Derive ==
  /\ dataset # None /\ annotation = dataset
  /\ {r.id : r \in source} = {r.id : r \in dataset}
  /\ LET text(r) == (CHOOSE s \in source : s.id = r.id).patch
         rows == {[id |-> r.id, split |-> r.split, text |-> text(r)] : r \in dataset}
     IN  /\ \A r, s \in rows : r.text = s.text => r.split = s.split
         /\ semantic' = [of |-> dataset, rows |-> rows]
  /\ UNCHANGED <<source, revisions, dataset, annotation, embeddings, baseline, classical,
                 training, head>>

Embed ==
  /\ semantic # None /\ embeddings' = semantic
  /\ UNCHANGED <<source, revisions, dataset, annotation, semantic, baseline, classical,
                 training, head>>

\* validate_frozen_embeddings
TrustEmbeddings == semantic # None /\ embeddings # None   \* mutated form: not compared
EmbeddingsMatch == semantic # None /\ embeddings = semantic

StartTraining ==
  /\ training = None /\ head = None /\ EmbeddingsMatch /\ Complete(semantic.rows)
  /\ training' = [of |-> semantic, vectors |-> embeddings, losses |-> <<>>, best |-> None, checkpoint |-> 0]
  /\ UNCHANGED <<source, revisions, dataset, annotation, semantic, embeddings, baseline,
                 classical, head>>

Exhausted ==
  training # None /\ (\/ Len(training.losses) = MaxEpochs
                      \/ Len(training.losses) - training.checkpoint = Patience)

\* One pass over the training rows, and the loss on the validation rows after it.
EpochKeepingLast(loss) ==   \* mutated form: every epoch overwrites the checkpoint
  /\ training # None /\ ~ Exhausted
  /\ training' = [training EXCEPT !.losses = Append(@, loss), !.best = loss, !.checkpoint = Len(training.losses) + 1]
  /\ UNCHANGED <<source, revisions, dataset, annotation, semantic, embeddings, baseline,
                 classical, head>>
Epoch(loss) ==
  /\ training # None /\ ~ Exhausted
  /\ LET seen == Append(training.losses, loss)
     IN  training' = IF training.best = None \/ loss < training.best - MinDelta
                     THEN [training EXCEPT !.losses = seen, !.best = loss, !.checkpoint = Len(seen)]
                     ELSE [training EXCEPT !.losses = seen]
  /\ UNCHANGED <<source, revisions, dataset, annotation, semantic, embeddings, baseline,
                 classical, head>>

FinishTraining ==
  /\ Exhausted
  /\ head' = [of |-> training.of, vectors |-> training.vectors, losses |-> training.losses,
              checkpoint |-> training.checkpoint]
  /\ training' = None
  /\ UNCHANGED <<source, revisions, dataset, annotation, semantic, embeddings, baseline, classical>>

Next ==
  \/ \E payload \in Sources : Extract(payload)
  \/ Build \/ EvaluateBaseline \/ TrainClassical \/ Annotate \/ Derive \/ Embed \/ StartTraining
  \/ \E loss \in Losses : Epoch(loss)
  \/ FinishTraining

Spec == Init /\ [][Next]_vars

--------------------------------------------------------------------------------
\* In a dataset that was built, no change and no skeleton of one is on two sides of a split,
\* the splits follow one another in time, and each row was watched to the end of its window.
SplitsAreSeparated ==
  dataset # None =>
    /\ \A r, s \in Included(dataset) :
         /\ r.split # s.split => r.head # s.head /\ Skeleton[r.patch] # Skeleton[s.patch]
         /\ r.split = "train" /\ s.split # "train" => r.at < s.at
         /\ s.split = "test" /\ r.split # "test" => r.at < s.at
    /\ \A r \in Included(dataset) : r.at <= r.seen /\ r.seen <= r.at + Window /\ r.at + Window <= AsOf

\* What is chosen on the validation rows does not depend on the test rows: two datasets that
\* agree up to the test split give the same configuration and threshold.
SelectionIgnoresTest ==
  classical # None =>
    \A payload \in Sources :
      LET other == {Row(r) : r \in payload} IN
        (/\ Complete(other)
         /\ \A split \in {"train", "validation"} : Eligible(other, split) = Eligible(classical.of, split))
        => LET chosen == Choice(other) IN
             classical.config = chosen.config /\ classical.threshold = chosen.metrics.at

\* The head was fitted on the vectors of its own dataset, and its checkpoint is, to the
\* declared tolerance, the best of all the epochs that were run.
HeadIsTheBestOfItsData ==
  head # None =>
    /\ head.vectors = head.of
    /\ \A e \in DOMAIN head.losses : head.losses[head.checkpoint] <= head.losses[e] + MinDelta

================================================================================
