---------------------------- MODULE RetrievalIndex ----------------------------
(***************************************************************************)
(* The evidence of one repository and its indexes: the lexical profile and *)
(* the embedding profiles, one per artifact version.  Ingestions, builds   *)
(* and queries run side by side, each as several transactions; documents   *)
(* expire meanwhile and the retention of expired embeddings removes their  *)
(* rows.  A document stands for its one chunk.                             *)
(***************************************************************************)
EXTENDS Integers, FiniteSets

CONSTANTS
  Documents,    \* evidence documents that may be ingested
  Providers,    \* embedding providers; two of them may claim one version
  Versions,     \* versions of embedding artifacts
  VersionOf,    \* the version a provider's artifact declares
  Callers,      \* processes that ingest, build and query
  BatchSize,    \* EMBEDDING_BATCH_SIZE
  MaxChunks,    \* MAX_INDEX_CHUNKS
  MaxCalls,     \* bound on the calls started
  MaxExpired,   \* bound on the documents that expire
  Lexical, NoProvider

ASSUME RetrievalAssumption ==
  /\ VersionOf \in [Providers -> Versions]
  /\ Lexical \notin Versions /\ NoProvider \notin Providers
  /\ BatchSize \in Nat \ {0} /\ MaxChunks \in Nat \ {0}
  /\ MaxCalls \in Nat /\ MaxExpired \in Nat

Profiles == Versions \cup {Lexical}

VARIABLES
  documents,     \* ingested documents
  expired,       \* those whose retain_until has passed
  lifecycle,     \* of each profile, ABSENT while it has no row
  artifact,      \* the provider a version's row was created for
  entries,       \* indexed chunks of each profile
  charged,       \* quantity reserved under the key of an embedding profile, 0 if none
  call,          \* what each caller is doing
  started,       \* calls started so far
  acknowledged   \* documents whose ingestion was reported as created

store == <<documents, expired, lifecycle, artifact, entries, charged>>
vars == <<store, call, started, acknowledged>>

Idle == [pc |-> "idle"]
Live == documents \ expired
Init ==
  /\ documents = {} /\ expired = {} /\ acknowledged = {} /\ started = 0
  /\ lifecycle = [p \in Profiles |-> "ABSENT"]
  /\ artifact = [v \in Versions |-> NoProvider]
  /\ entries = [p \in Profiles |-> {}]
  /\ charged = [v \in Versions |-> 0]
  /\ call = [c \in Callers |-> Idle]

At(c, pc) == call[c].pc = pc
GoTo(c, pc) == call' = [call EXCEPT ![c].pc = pc]
Begin(c, work) ==
  /\ At(c, "idle") /\ started < MaxCalls
  /\ started' = started + 1
  /\ call' = [call EXCEPT ![c] = work]
Finish(c) == call' = [call EXCEPT ![c] = Idle]
SetLifecycle(p, l) == lifecycle' = [lifecycle EXCEPT ![p] = l]
Store(p, ds) == entries' = [entries EXCEPT ![p] = @ \cup ds]

--------------------------------------------------------------------------------
(* Ingestion *)

\* A document that is known already only has its chunk indexed where an active lexical
\* profile misses it.
StartIngest(c, d) ==
  /\ \/ /\ d \notin documents
        /\ Begin(c, [pc |-> "insert", document |-> d])
     \/ /\ d \in documents /\ lifecycle[Lexical] = "ACTIVE" /\ Cardinality(Live) <= MaxChunks
        /\ Begin(c, [pc |-> "catchup", missing |-> Live \ entries[Lexical]])
  /\ UNCHANGED <<store, acknowledged>>

\* Each entry of a catch-up commits alone; another ingestion may have stored it first.
CatchUp(c) ==
  /\ At(c, "catchup")
  /\ \/ /\ call[c].missing \subseteq entries[Lexical] /\ Finish(c)
        /\ UNCHANGED entries
     \/ \E d \in call[c].missing \ entries[Lexical] :
          /\ Store(Lexical, {d})
          /\ call' = [call EXCEPT ![c].missing = @ \ {d}]
     \/ call[c].missing \cap entries[Lexical] # {} /\ Finish(c) /\ UNCHANGED entries
  /\ UNCHANGED <<documents, expired, lifecycle, artifact, charged, acknowledged, started>>

\* The document and its chunks are one transaction; when a concurrent ingestion of the
\* same document commits first, the call raises or returns the existing row.
InsertDocument(c) ==
  LET d == call[c].document IN
  /\ At(c, "insert")
  /\ \/ d \in documents /\ Finish(c) /\ UNCHANGED documents
     \/ d \notin documents /\ documents' = documents \cup {d} /\ GoTo(c, "profile")
  /\ UNCHANGED <<expired, lifecycle, artifact, entries, charged, acknowledged, started>>

\* get_or_create: the lifecycle read here is the one written back after the build.
GetLexicalProfile(c) ==
  LET found == IF lifecycle[Lexical] = "ABSENT" THEN "BUILDING" ELSE lifecycle[Lexical] IN
  /\ At(c, "profile")
  /\ SetLifecycle(Lexical, found)
  /\ call' = [call EXCEPT ![c] =
       [pc |-> "find", document |-> call[c].document, read |-> found]]
  /\ UNCHANGED <<documents, expired, artifact, entries, charged, acknowledged, started>>

MissingBefore(p) == (documents \cap acknowledged) \ entries[p]   \* mutated form: own chunk not read
MissingOf(p) == Live \ entries[p]
FindUnindexed(c) ==
  /\ At(c, "find")
  /\ \/ /\ Cardinality(Live) > MaxChunks
        /\ SetLifecycle(Lexical, "FAILED") /\ Finish(c)
     \/ /\ Cardinality(Live) <= MaxChunks
        /\ call' = [call EXCEPT ![c] = [pc |-> "index", document |-> call[c].document,
                      read |-> call[c].read, missing |-> MissingOf(Lexical)]]
        /\ UNCHANGED lifecycle
  /\ UNCHANGED <<documents, expired, artifact, entries, charged, acknowledged, started>>

\* The validation of an entry sees a committed duplicate and raises past the handler;
\* the unique constraint raises into it, and the profile becomes FAILED.
Collision(c, p, ds) ==
  /\ ds \cap entries[p] # {}
  /\ \/ SetLifecycle(p, "FAILED")
     \/ UNCHANGED lifecycle
  /\ Finish(c)
  /\ UNCHANGED entries

IndexLexical(c) ==
  /\ At(c, "index")
  /\ \/ Collision(c, Lexical, call[c].missing)
     \/ /\ call[c].missing \cap entries[Lexical] = {}
        /\ Store(Lexical, call[c].missing)
        /\ SetLifecycle(Lexical, IF call[c].read = "ACTIVE" THEN "ACTIVE" ELSE "READY")
        /\ GoTo(c, "publish")
  /\ UNCHANGED <<documents, expired, artifact, charged, acknowledged, started>>

\* activate_lexical_profile; the one lexical version has no other profile to replace.
ActivateLexical(c) ==
  /\ At(c, "publish")
  /\ IF lifecycle[Lexical] \in {"READY", "ACTIVE"}
     THEN /\ SetLifecycle(Lexical, "ACTIVE")
          /\ acknowledged' = acknowledged \cup {call[c].document}
     ELSE UNCHANGED <<lifecycle, acknowledged>>
  /\ Finish(c)
  /\ UNCHANGED <<documents, expired, artifact, entries, charged, started>>

--------------------------------------------------------------------------------
(* Embedding builds *)

StartBuild(c, q, activate) ==
  LET v == VersionOf[q] IN
  /\ artifact[v] \in {q, NoProvider}
  /\ artifact' = [artifact EXCEPT ![v] = q]
  /\ lifecycle' = [lifecycle EXCEPT ![v] = IF @ = "ABSENT" THEN "BUILDING" ELSE @]
  /\ Begin(c, [pc |-> "list", version |-> v, activate |-> activate])
  /\ UNCHANGED <<documents, expired, entries, charged, acknowledged>>

ListChunks(c) ==
  LET v == call[c].version
      missing == MissingOf(v)
  IN
  /\ At(c, "list")
  /\ IF Cardinality(Live) > MaxChunks
     THEN Finish(c)
     ELSE call' = [call EXCEPT ![c] =
            [pc |-> IF missing = {} THEN "embed" ELSE "reserve", version |-> v,
             activate |-> call[c].activate, missing |-> missing]]
  /\ UNCHANGED <<store, acknowledged, started>>

\* One key per profile for all its builds: a repeated quantity replays, another one is
\* refused, and so is a first one without room.
ReserveAny(c) ==   \* mutated form: a key that was used before is taken as paid
  LET v == call[c].version IN
  /\ At(c, "reserve")
  /\ charged' = [charged EXCEPT ![v] = IF @ = 0 THEN Cardinality(call[c].missing) ELSE @]
  /\ GoTo(c, "embed")
  /\ UNCHANGED <<documents, expired, lifecycle, artifact, entries, acknowledged, started>>
ReserveItems(c) ==
  LET v == call[c].version
      quantity == Cardinality(call[c].missing)
  IN
  /\ At(c, "reserve")
  /\ \/ /\ charged[v] \in {0, quantity}
        /\ charged' = [charged EXCEPT ![v] = quantity]
        /\ GoTo(c, "embed")
     \/ charged[v] # quantity /\ Finish(c) /\ UNCHANGED charged
  /\ UNCHANGED <<documents, expired, lifecycle, artifact, entries, acknowledged, started>>

\* A batch is embedded outside and stored inside a transaction of its own.
EmbedBatch(c) ==
  LET v == call[c].version IN
  /\ At(c, "embed")
  /\ \E batch \in SUBSET call[c].missing :
       /\ batch # {} /\ Cardinality(batch) <= BatchSize
       /\ \/ Collision(c, v, batch)
          \/ /\ batch \cap entries[v] = {}
             /\ Store(v, batch)
             /\ call' = [call EXCEPT ![c].missing = @ \ batch]
             /\ UNCHANGED lifecycle
  /\ UNCHANGED <<documents, expired, artifact, charged, acknowledged, started>>

ProviderFails(c) ==
  /\ At(c, "embed") /\ call[c].missing # {}
  /\ SetLifecycle(call[c].version, "FAILED")
  /\ Finish(c)
  /\ UNCHANGED <<documents, expired, artifact, entries, charged, acknowledged, started>>

\* The lifecycle is written whatever it was: an active profile is READY again.
SaveReady(c) ==
  /\ At(c, "embed") /\ call[c].missing = {}
  /\ SetLifecycle(call[c].version, "READY")
  /\ IF call[c].activate THEN GoTo(c, "activate") ELSE Finish(c)
  /\ UNCHANGED <<documents, expired, artifact, entries, charged, acknowledged, started>>

\* The number of entries, not the entries, is compared with the live chunks.
LooksComplete(v) == Cardinality(entries[v]) = Cardinality(Live)
MayActivate(v) == lifecycle[v] \in {"READY", "ACTIVE"} /\ LooksComplete(v)

ActivateAlone(c) ==   \* mutated form: every other profile is demoted, also when refused
  LET v == call[c].version IN
  /\ At(c, "activate")
  /\ lifecycle' = [w \in Profiles |->
       CASE w = v /\ MayActivate(v) -> "ACTIVE"
         [] w \in Versions \ {v} /\ lifecycle[w] = "ACTIVE" -> "READY"
         [] OTHER -> lifecycle[w]]
  /\ Finish(c)
  /\ UNCHANGED <<documents, expired, artifact, entries, charged, acknowledged, started>>
ActivateEmbedding(c) ==
  LET v == call[c].version IN
  /\ At(c, "activate")
  /\ IF MayActivate(v)
     THEN lifecycle' = [w \in Profiles |->
            CASE w = v -> "ACTIVE"
              [] w \in Versions \ {v} /\ lifecycle[w] = "ACTIVE" -> "READY"
              [] OTHER -> lifecycle[w]]
     ELSE UNCHANGED lifecycle
  /\ Finish(c)
  /\ UNCHANGED <<documents, expired, artifact, entries, charged, acknowledged, started>>

--------------------------------------------------------------------------------
(* Queries: lexical and semantic candidates are read one after the other. *)

StartQuery(c, q) ==
  /\ Begin(c, [pc |-> "match", provider |-> q, outdated |-> expired])
  /\ UNCHANGED <<store, acknowledged>>

AnyHit(p) == entries[p]   \* mutated form: no filter on retain_until
Servable(p) == entries[p] \ expired

QueryLexical(c) ==
  /\ At(c, "match")
  /\ call' = [call EXCEPT ![c] =
       [pc |-> "select", provider |-> call[c].provider, outdated |-> call[c].outdated,
        hits |-> IF lifecycle[Lexical] = "ACTIVE" THEN Servable(Lexical) ELSE {}]]
  /\ UNCHANGED <<store, acknowledged, started>>

SameVersion(v, q) == VersionOf[q] = v   \* mutated form: only the version is compared
SameArtifact(v, q) == artifact[v] = q
Answer(c, hits, v) ==
  call' = [call EXCEPT ![c] =
    [pc |-> "answered", provider |-> call[c].provider, outdated |-> call[c].outdated,
     hits |-> call[c].hits \cup hits, ranked |-> hits, version |-> v]]

SelectProfile(c) ==
  /\ At(c, "select")
  /\ \/ \E v \in Versions :
          /\ lifecycle[v] = "ACTIVE" /\ SameArtifact(v, call[c].provider)
          /\ call' = [call EXCEPT ![c] =
               [pc |-> "search", provider |-> call[c].provider,
                outdated |-> call[c].outdated, hits |-> call[c].hits, version |-> v]]
     \/ /\ \A v \in Versions :
             lifecycle[v] = "ACTIVE" => ~ SameArtifact(v, call[c].provider)
        /\ Answer(c, {}, Lexical)
  /\ UNCHANGED <<store, acknowledged, started>>

\* The provider may fail; otherwise the profile selected before the call is searched.
QuerySemantic(c) ==
  LET v == call[c].version IN
  /\ At(c, "search")
  /\ Answer(c, {}, v) \/ Answer(c, Servable(v), v)
  /\ UNCHANGED <<store, acknowledged, started>>

Return(c) ==
  /\ At(c, "answered") /\ Finish(c)
  /\ UNCHANGED <<store, acknowledged, started>>

--------------------------------------------------------------------------------
(* Environment: time, retention and killed processes. *)

Expire(d) ==
  /\ d \in Live /\ Cardinality(expired) < MaxExpired
  /\ expired' = expired \cup {d}
  /\ UNCHANGED <<documents, lifecycle, artifact, entries, charged, call, acknowledged, started>>

PurgeEmbedding(v, d) ==
  /\ d \in entries[v] \cap expired
  /\ entries' = [entries EXCEPT ![v] = @ \ {d}]
  /\ UNCHANGED <<documents, expired, lifecycle, artifact, charged, call, acknowledged, started>>

Killed(c) ==   \* a query leaves nothing behind
  /\ ~ At(c, "idle") /\ "outdated" \notin DOMAIN call[c] /\ Finish(c)
  /\ UNCHANGED <<store, acknowledged, started>>

Step(c) ==
  \/ CatchUp(c) \/ InsertDocument(c) \/ GetLexicalProfile(c) \/ FindUnindexed(c)
  \/ IndexLexical(c) \/ ActivateLexical(c)
  \/ ListChunks(c) \/ ReserveItems(c) \/ EmbedBatch(c) \/ ProviderFails(c) \/ SaveReady(c)
  \/ ActivateEmbedding(c)
  \/ QueryLexical(c) \/ SelectProfile(c) \/ QuerySemantic(c) \/ Return(c)

Next ==
  \/ \E c \in Callers :
       \/ Step(c) \/ Killed(c)
       \/ \E d \in Documents : StartIngest(c, d)
       \/ \E q \in Providers : StartQuery(c, q) \/ \E a \in BOOLEAN : StartBuild(c, q, a)
  \/ \E d \in Documents : Expire(d) \/ \E v \in Versions : PurgeEmbedding(v, d)

Spec == Init /\ [][Next]_vars

--------------------------------------------------------------------------------
EmbeddingPcs == {"list", "reserve", "embed", "activate"}

\* An ingestion that reports a created document left its chunk in the lexical index,
\* unless the document expired, whoever else was indexing at the same time.
IngestedIsIndexed == \A d \in acknowledged : d \in entries[Lexical] \/ d \in expired

\* A build never embeds more items than were reserved under the key of its profile.
EmbedsWhatWasReserved ==
  \A c \in Callers : At(c, "embed") =>
    Cardinality(call[c].missing) <= charged[call[c].version]

\* A query is answered with evidence that had not expired when it was asked, and its
\* vector is compared only with vectors of the very artifact that made it.
HitsAreFreshAndComparable ==
  \A c \in Callers : At(c, "answered") =>
    /\ call[c].hits \cap call[c].outdated = {}
    /\ call[c].hits \subseteq documents
    /\ call[c].ranked # {} => artifact[call[c].version] = call[c].provider

\* While a version is built beside the active one, nothing happens to the active one: it
\* keeps serving until another version takes its place or a build of its own disturbs it.
SideBySide ==
  [][\A v \in Versions :
       lifecycle[v] = "ACTIVE" /\ lifecycle'[v] # "ACTIVE" =>
         \/ \E w \in Versions \ {v} : lifecycle[w] # "ACTIVE" /\ lifecycle'[w] = "ACTIVE"
         \/ \E c \in Callers : call[c].pc \in EmbeddingPcs /\ call[c].version = v]_vars

================================================================================
