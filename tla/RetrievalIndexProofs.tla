------------------------- MODULE RetrievalIndexProofs -------------------------
(***************************************************************************)
(* Proofs about RetrievalIndex for any documents, providers, versions and  *)
(* callers.  Callers act on what they read in earlier transactions; the    *)
(* invariant says what of it still holds: lexical entries and artifacts    *)
(* stay, documents only expire, and what was paid for is never less than   *)
(* what is left to embed.                                                  *)
(***************************************************************************)
EXTENDS RetrievalIndex, FiniteSetTheorems, TLAPS

Lifecycles == {"ABSENT", "BUILDING", "READY", "ACTIVE", "FAILED"}
Found == Lifecycles \ {"ABSENT"}
Sets == SUBSET documents

\* What a caller has in hand at each step.
CatchUps == [pc : {"catchup"}, missing : Sets]
Inserts  == [pc : {"insert", "profile"}, document : Documents]
Finds    == [pc : {"find"}, document : Documents, read : Found]
Indexing == [pc : {"index", "publish"}, document : Documents, read : Found, missing : Sets]
Lists    == [pc : {"list"}, version : Versions, activate : BOOLEAN]
Builds   == [pc : {"reserve", "embed", "activate"}, version : Versions, activate : BOOLEAN,
             missing : Sets]
Matches  == [pc : {"match"}, provider : Providers, outdated : SUBSET expired]
Selects  == [pc : {"select"}, provider : Providers, outdated : SUBSET expired, hits : Sets]
Searches == [pc : {"search"}, provider : Providers, outdated : SUBSET expired, hits : Sets,
             version : Versions]
Answers  == [pc : {"answered"}, provider : Providers, outdated : SUBSET expired, hits : Sets,
             ranked : Sets, version : Profiles]
Works == {Idle} \cup CatchUps \cup Inserts \cup Finds \cup Indexing \cup Lists \cup Builds
         \cup Matches \cup Selects \cup Searches \cup Answers

StoreOK ==
  /\ documents \in SUBSET Documents /\ IsFiniteSet(documents)
  /\ expired \in SUBSET documents
  /\ lifecycle \in [Profiles -> Lifecycles]
  /\ artifact \in [Versions -> Providers \cup {NoProvider}]
  /\ entries \in [Profiles -> SUBSET documents]
  /\ charged \in [Versions -> Nat]
TypeOK == StoreOK /\ call \in [Callers -> Works]

\* The chunk of an ingested document is on its way into the lexical index, or there.
Reached(c) ==
  /\ call[c].pc \in {"profile", "find", "index"} => call[c].document \in documents
  /\ At(c, "index") =>
       call[c].document \in call[c].missing \cup entries[Lexical] \cup expired
  /\ At(c, "publish") => call[c].document \in entries[Lexical] \cup expired

\* What is left to embed was paid for.
Paid(c) == At(c, "embed") => Cardinality(call[c].missing) <= charged[call[c].version]

\* A query keeps what was fresh when it began, and the artifact it selected.
Fresh(c) ==
  /\ call[c].pc \in {"select", "search", "answered"} =>
       call[c].hits \cap call[c].outdated = {}
  /\ At(c, "search") => artifact[call[c].version] = call[c].provider
  /\ At(c, "answered") /\ call[c].ranked # {} =>
       call[c].version \in Versions /\ artifact[call[c].version] = call[c].provider

Good(c) == Reached(c) /\ Paid(c) /\ Fresh(c)

OneActive ==
  \A v, w \in Versions : lifecycle[v] = "ACTIVE" /\ lifecycle[w] = "ACTIVE" => v = w

IInv == TypeOK /\ IngestedIsIndexed /\ OneActive /\ \A c \in Callers : Good(c)

--------------------------------------------------------------------------------
(* Types *)

\* The step a caller is at tells what it has in hand.
LEMMA Shapes ==
  ASSUME NEW work \in Works
  PROVE  /\ work.pc = "idle" => work = Idle
         /\ work.pc = "catchup" => work \in CatchUps
         /\ work.pc \in {"insert", "profile"} => work \in Inserts
         /\ work.pc = "find" => work \in Finds
         /\ work.pc \in {"index", "publish"} => work \in Indexing
         /\ work.pc = "list" => work \in Lists
         /\ work.pc \in {"reserve", "embed", "activate"} => work \in Builds
         /\ work.pc = "match" => work \in Matches
         /\ work.pc = "select" => work \in Selects
         /\ work.pc = "search" => work \in Searches
         /\ work.pc = "answered" => work \in Answers
<1>1. Idle.pc = "idle"
  BY DEF Idle
<1>2. /\ \A w \in CatchUps : w.pc = "catchup"
      /\ \A w \in Inserts : w.pc \in {"insert", "profile"}
      /\ \A w \in Finds : w.pc = "find"
      /\ \A w \in Indexing : w.pc \in {"index", "publish"}
      /\ \A w \in Lists : w.pc = "list"
      /\ \A w \in Builds : w.pc \in {"reserve", "embed", "activate"}
  BY DEF CatchUps, Inserts, Finds, Indexing, Lists, Builds
<1>3. /\ \A w \in Matches : w.pc = "match"
      /\ \A w \in Selects : w.pc = "select"
      /\ \A w \in Searches : w.pc = "search"
      /\ \A w \in Answers : w.pc = "answered"
  BY DEF Matches, Selects, Searches, Answers
<1>. QED
  BY <1>1, <1>2, <1>3 DEF Works

\* More documents and more expired ones only make room for more.
LEMMA WorksGrow ==
  ASSUME documents \subseteq documents', expired \subseteq expired'
  PROVE  Works \subseteq Works'
<1>1. Sets \subseteq Sets'
  BY DEF Sets
<1>2. /\ CatchUps \subseteq CatchUps' /\ Inserts \subseteq Inserts' /\ Finds \subseteq Finds'
      /\ Indexing \subseteq Indexing' /\ Lists \subseteq Lists' /\ Builds \subseteq Builds'
  BY <1>1 DEF CatchUps, Inserts, Finds, Indexing, Lists, Builds
<1>3. /\ Matches \subseteq Matches' /\ Selects \subseteq Selects'
      /\ Searches \subseteq Searches' /\ Answers \subseteq Answers'
  BY <1>1 DEF Matches, Selects, Searches, Answers
<1>. QED
  BY <1>2, <1>3 DEF Works, Idle

--------------------------------------------------------------------------------
(* What every step does to the store, and to the callers that do not take it *)

Lasts ==
  /\ documents \subseteq documents' /\ expired \subseteq expired'
  /\ entries[Lexical] \subseteq entries'[Lexical]
  /\ \A v \in Versions : artifact[v] \in {NoProvider, artifact'[v]}
  /\ \A v \in Versions : charged[v] \in {0, charged'[v]}

Builder(c) ==
  ListChunks(c) \/ ReserveItems(c) \/ EmbedBatch(c) \/ ProviderFails(c) \/ SaveReady(c)
  \/ ActivateEmbedding(c) \/ \E q \in Providers, a \in BOOLEAN : StartBuild(c, q, a)
Ingester(c) ==
  CatchUp(c) \/ InsertDocument(c) \/ GetLexicalProfile(c) \/ FindUnindexed(c) \/ IndexLexical(c)
  \/ ActivateLexical(c) \/ \E d \in Documents : StartIngest(c, d)
Querier(c) ==
  QueryLexical(c) \/ SelectProfile(c) \/ QuerySemantic(c) \/ Return(c)
  \/ \E q \in Providers : StartQuery(c, q)


\* The same, field by field.
LEMMA InHand ==
  ASSUME TypeOK, NEW c \in Callers
  PROVE  /\ call[c] \in Works
         /\ call[c].pc \in {"insert", "profile", "find", "index", "publish"} =>
              call[c].document \in Documents
         /\ call[c].pc \in {"find", "index", "publish"} => call[c].read \in Found
         /\ call[c].pc \in {"catchup", "index", "reserve", "embed", "activate"} =>
              call[c].missing \in SUBSET documents /\ IsFiniteSet(call[c].missing)
         /\ call[c].pc \in {"list", "reserve", "embed", "activate", "search"} =>
              call[c].version \in Versions
         /\ call[c].pc \in {"match", "select", "search", "answered"} =>
              /\ call[c].provider \in Providers
              /\ call[c].outdated \in SUBSET expired
         /\ call[c].pc \in {"select", "search", "answered"} =>
              call[c].hits \in SUBSET documents
<1>1. call[c] \in Works
  BY DEF TypeOK
<1>2. \A S \in SUBSET documents : IsFiniteSet(S)
  BY FS_Subset DEF TypeOK, StoreOK
<1>. QED
  BY <1>1, <1>2, Shapes
  DEF CatchUps, Inserts, Finds, Indexing, Lists, Builds, Matches, Selects, Searches, Answers, Sets

LEMMA EntriesStored ==
  ASSUME TypeOK, NEW p \in Profiles, NEW ds \in SUBSET documents, Store(p, ds)
  PROVE  /\ entries' \in [Profiles -> SUBSET documents]
         /\ entries[Lexical] \subseteq entries'[Lexical]
  BY DEF TypeOK, StoreOK, Store, Profiles

LEMMA LifecycleSet ==
  ASSUME TypeOK, NEW p \in Profiles, NEW l \in Lifecycles, SetLifecycle(p, l)
  PROVE  lifecycle' \in [Profiles -> Lifecycles]
  BY DEF TypeOK, StoreOK, SetLifecycle

LEMMA IngestKeepsStore ==
  ASSUME TypeOK, NEW c \in Callers, Ingester(c)
  PROVE  StoreOK' /\ Lasts
<1>. USE DEF TypeOK, StoreOK, Lasts
<1>0. Lexical \in Profiles
  BY DEF Profiles
<1>1. CASE CatchUp(c)
  <2>1. /\ UNCHANGED <<documents, expired, lifecycle, artifact, charged>>
        /\ UNCHANGED entries \/ \E d \in documents : Store(Lexical, {d})
    BY <1>1, InHand DEF CatchUp, At
  <2>2. entries' \in [Profiles -> SUBSET documents] /\ entries[Lexical] \subseteq entries'[Lexical]
    BY <1>0, <2>1, EntriesStored
  <2>. QED
    BY <2>1, <2>2
<1>2. CASE InsertDocument(c)
  <2>1. /\ UNCHANGED <<expired, lifecycle, artifact, entries, charged>>
        /\ UNCHANGED documents \/ \E d \in Documents : documents' = documents \cup {d}
    BY <1>2, InHand DEF InsertDocument, At
  <2>2. documents' \in SUBSET Documents /\ IsFiniteSet(documents') /\ documents \subseteq documents'
    BY <2>1, FS_AddElement
  <2>. QED
    BY <2>1, <2>2
<1>3. CASE GetLexicalProfile(c) \/ FindUnindexed(c) \/ ActivateLexical(c)
           \/ \E d \in Documents : StartIngest(c, d)
  BY <1>0, <1>3
  DEF GetLexicalProfile, FindUnindexed, ActivateLexical, StartIngest, SetLifecycle, Lifecycles,
      store
<1>4. CASE IndexLexical(c)
  <2>1. /\ UNCHANGED <<documents, expired, artifact, charged>>
        /\ UNCHANGED entries \/ \E ds \in SUBSET documents : Store(Lexical, ds)
        /\ UNCHANGED lifecycle \/ \E l \in Lifecycles : SetLifecycle(Lexical, l)
    BY <1>4, InHand DEF IndexLexical, Collision, At, Lifecycles
  <2>2. entries' \in [Profiles -> SUBSET documents] /\ entries[Lexical] \subseteq entries'[Lexical]
    BY <1>0, <2>1, EntriesStored
  <2>3. lifecycle' \in [Profiles -> Lifecycles]
    BY <1>0, <2>1, LifecycleSet
  <2>. QED
    BY <2>1, <2>2, <2>3
<1>. QED
  BY <1>1, <1>2, <1>3, <1>4 DEF Ingester

LEMMA BuildKeepsStore ==
  ASSUME TypeOK, NEW c \in Callers, Builder(c)
  PROVE  StoreOK' /\ Lasts
<1>. USE DEF TypeOK, StoreOK, Lasts
<1>1. CASE \E q \in Providers, a \in BOOLEAN : StartBuild(c, q, a)
  BY <1>1, RetrievalAssumption DEF StartBuild, Profiles, Lifecycles
<1>2. CASE ListChunks(c)
  BY <1>2 DEF ListChunks, store
<1>3. CASE ReserveItems(c)
  <2>1. call[c].version \in Versions /\ Cardinality(call[c].missing) \in Nat
    BY <1>3, InHand, FS_CardinalityType DEF ReserveItems, At
  <2>. QED
    BY <1>3, <2>1 DEF ReserveItems
<1>4. CASE EmbedBatch(c)
  <2>1. call[c].version \in Profiles
    BY <1>4, InHand DEF EmbedBatch, At, Profiles
  <2>2. /\ UNCHANGED <<documents, expired, artifact, charged>>
        /\ UNCHANGED entries \/ \E ds \in SUBSET documents : Store(call[c].version, ds)
        /\ UNCHANGED lifecycle \/ SetLifecycle(call[c].version, "FAILED")
    BY <1>4, InHand DEF EmbedBatch, Collision, At
  <2>3. entries' \in [Profiles -> SUBSET documents] /\ entries[Lexical] \subseteq entries'[Lexical]
    BY <2>1, <2>2, EntriesStored
  <2>4. lifecycle' \in [Profiles -> Lifecycles]
    BY <2>1, <2>2, LifecycleSet DEF Lifecycles
  <2>. QED
    BY <2>2, <2>3, <2>4
<1>5. CASE ProviderFails(c) \/ SaveReady(c)
  <2>1. call[c].version \in Profiles
    BY <1>5, InHand DEF ProviderFails, SaveReady, At, Profiles
  <2>. QED
    BY <1>5, <2>1, LifecycleSet DEF ProviderFails, SaveReady, Lifecycles
<1>6. CASE ActivateEmbedding(c)
  BY <1>6 DEF ActivateEmbedding, Lifecycles
<1>. QED
  BY <1>1, <1>2, <1>3, <1>4, <1>5, <1>6 DEF Builder

LEMMA OthersKeepStore ==
  ASSUME TypeOK,
         \/ \E c \in Callers : Querier(c) \/ Killed(c)
         \/ \E d \in Documents : Expire(d) \/ \E v \in Versions : PurgeEmbedding(v, d)
         \/ UNCHANGED vars
  PROVE  StoreOK' /\ Lasts
<1>. USE DEF TypeOK, StoreOK, Lasts
<1>1. CASE \E d \in Documents : Expire(d)
  BY <1>1 DEF Expire, Live
<1>2. CASE \E d \in Documents, v \in Versions : PurgeEmbedding(v, d)
  BY <1>2, RetrievalAssumption DEF PurgeEmbedding, Profiles
<1>3. CASE UNCHANGED store
  BY <1>3 DEF store
<1>. QED
  BY <1>1, <1>2, <1>3
  DEF Querier, QueryLexical, SelectProfile, QuerySemantic, Return, StartQuery, Killed, vars

--------------------------------------------------------------------------------
(* Callers *)

Sound(c) == call'[c] \in Works' /\ Good(c)'
Alone(c) == call' = [call EXCEPT ![c] = call'[c]]

LEMMA OthersStaySound ==
  ASSUME IInv, StoreOK', Lasts, NEW c \in Callers, call'[c] = call[c]
  PROVE  Sound(c)
<1>. USE DEF IInv, TypeOK, Good, At
<1>1. call'[c] \in Works'
  BY WorksGrow DEF Lasts
<1>2. Reached(c)'
  BY DEF Reached, Lasts
<1>3. Paid(c)'
  <2>. SUFFICES ASSUME At(c, "embed")
                PROVE  Cardinality(call[c].missing) <= charged'[call[c].version]
    BY DEF Paid
  <2>1. call[c].version \in Versions /\ Cardinality(call[c].missing) \in Nat
    BY InHand, FS_CardinalityType
  <2>. QED
    BY <2>1 DEF Paid, Lasts, StoreOK
<1>4. Fresh(c)'
  <2>1. /\ At(c, "search") => call[c].version \in Versions
        /\ call[c].pc \in {"search", "answered"} => call[c].provider # NoProvider
    BY InHand, RetrievalAssumption
  <2>. QED
    BY <2>1 DEF Fresh, Lasts
<1>. QED
  BY <1>1, <1>2, <1>3, <1>4 DEF Sound

LEMMA FinishedIsSound ==
  ASSUME TypeOK, NEW c \in Callers, Finish(c)
  PROVE  Sound(c) /\ Alone(c)
  BY DEF TypeOK, Finish, Sound, Alone, Good, Reached, Paid, Fresh, At, Idle, Works

LEMMA IngestIsSound ==
  ASSUME IInv, NEW c \in Callers, Ingester(c)
  PROVE  Sound(c) /\ Alone(c)
<1>. DEFINE new == call'[c]
<1>0. TypeOK /\ StoreOK' /\ Lasts /\ call[c] \in Works
  BY IngestKeepsStore DEF IInv, TypeOK
<1>1. ASSUME new \in Works', Reached(c)', new.pc \notin {"embed", "select", "search", "answered"}
      PROVE  Sound(c)
  BY <1>1 DEF Sound, Good, Paid, Fresh, At
<1>2. CASE CatchUp(c)
  <2>1. CASE Finish(c)
    BY <1>0, <2>1, FinishedIsSound
  <2>2. ASSUME NEW d, call' = [call EXCEPT ![c].missing = @ \ {d}] PROVE Sound(c) /\ Alone(c)
    <3>1. new \in CatchUps' /\ new.pc = "catchup" /\ Alone(c)
      BY <1>0, <1>2, <2>2, Shapes DEF CatchUp, At, CatchUps, Sets, TypeOK, Lasts, Alone
    <3>. QED
      BY <1>1, <3>1 DEF Works, Reached, At
  <2>. QED
    BY <1>2, <2>1, <2>2 DEF CatchUp
<1>3. CASE InsertDocument(c)
  <2>1. CASE Finish(c)
    BY <1>0, <2>1, FinishedIsSound
  <2>2. CASE GoTo(c, "profile") /\ call[c].document \in documents'
    <3>1. new \in Inserts' /\ new.pc = "profile" /\ new.document \in documents' /\ Alone(c)
      BY <1>0, <1>3, <2>2, Shapes DEF InsertDocument, GoTo, At, Inserts, TypeOK, Alone
    <3>. QED
      BY <1>1, <3>1 DEF Works, Reached, At
  <2>. QED
    BY <1>3, <2>1, <2>2 DEF InsertDocument
<1>4. CASE GetLexicalProfile(c)
  <2>. DEFINE found == IF lifecycle[Lexical] = "ABSENT" THEN "BUILDING" ELSE lifecycle[Lexical]
  <2>1. new = [pc |-> "find", document |-> call[c].document, read |-> found] /\ Alone(c)
    BY <1>0, <1>4 DEF GetLexicalProfile, TypeOK, Alone
  <2>2. found \in Found
    BY <1>0 DEF TypeOK, StoreOK, Profiles, Found, Lifecycles
  <2>3. call[c].document \in Documents /\ call[c].document \in documents'
    BY <1>0, <1>4, InHand DEF GetLexicalProfile, At, IInv, Good, Reached
  <2>4. new \in Finds'
    BY <2>1, <2>2, <2>3 DEF Finds
  <2>5. Reached(c)' /\ new.pc = "find"
    BY <2>1, <2>3 DEF Reached, At
  <2>. QED
    BY <1>1, <2>1, <2>4, <2>5 DEF Works
<1>5. CASE FindUnindexed(c)
  <2>1. CASE Finish(c)
    BY <1>0, <2>1, FinishedIsSound
  <2>2. CASE call' = [call EXCEPT ![c] = [pc |-> "index", document |-> call[c].document,
                        read |-> call[c].read, missing |-> MissingOf(Lexical)]]
    <3>1. /\ new = [pc |-> "index", document |-> call[c].document, read |-> call[c].read,
                    missing |-> MissingOf(Lexical)]
          /\ Alone(c)
      BY <1>0, <2>2 DEF TypeOK, Alone
    <3>2. /\ call[c].document \in documents /\ call[c].document \in Documents
          /\ call[c].read \in Found
      BY <1>0, <1>5, InHand DEF FindUnindexed, At, IInv, Good, Reached
    <3>3. MissingOf(Lexical) \in Sets' /\ documents = documents' /\ UNCHANGED <<entries, expired>>
      BY <1>5 DEF FindUnindexed, MissingOf, Live, Sets
    <3>4. new \in Indexing'
      BY <3>1, <3>2, <3>3 DEF Indexing
    <3>5. Reached(c)'
      BY <3>1, <3>2, <3>3 DEF Reached, MissingOf, Live, At
    <3>. QED
      BY <1>1, <3>1, <3>4, <3>5 DEF Works
  <2>. QED
    BY <1>5, <2>1, <2>2 DEF FindUnindexed
<1>6. CASE IndexLexical(c)
  <2>1. CASE Finish(c)
    BY <1>0, <2>1, FinishedIsSound
  <2>2. CASE GoTo(c, "publish") /\ Store(Lexical, call[c].missing)
    <3>1. new \in Indexing' /\ new.pc = "publish" /\ new.document = call[c].document /\ Alone(c)
      BY <1>0, <1>6, <2>2, Shapes DEF IndexLexical, GoTo, At, Indexing, Sets, TypeOK, Lasts, Alone
    <3>2. call[c].document \in entries'[Lexical] \cup expired'
      BY <1>0, <1>6, <2>2 DEF IndexLexical, Store, At, IInv, Good, Reached, StoreOK, TypeOK,
          Profiles
    <3>. QED
      BY <1>1, <3>1, <3>2 DEF Works, Reached, At
  <2>. QED
    BY <1>6, <2>1, <2>2 DEF IndexLexical, Collision
<1>7. CASE ActivateLexical(c)
  BY <1>0, <1>7, FinishedIsSound DEF ActivateLexical
<1>8. ASSUME NEW d \in Documents, StartIngest(c, d) PROVE Sound(c) /\ Alone(c)
  <2>1. CASE call' = [call EXCEPT ![c] = [pc |-> "insert", document |-> d]]
    <3>1. new = [pc |-> "insert", document |-> d] /\ Alone(c)
      BY <1>0, <2>1 DEF TypeOK, Alone
    <3>. QED
      BY <1>1, <3>1 DEF Works, Inserts, Reached, At
  <2>2. ASSUME NEW missed \in Sets',
               call' = [call EXCEPT ![c] = [pc |-> "catchup", missing |-> missed]]
        PROVE  Sound(c) /\ Alone(c)
    <3>1. new = [pc |-> "catchup", missing |-> missed] /\ Alone(c)
      BY <1>0, <2>2 DEF TypeOK, Alone
    <3>2. new \in CatchUps' /\ new.pc = "catchup"
      BY <2>2, <3>1 DEF CatchUps
    <3>. QED
      BY <1>1, <3>1, <3>2 DEF Works, Reached, At
  <2>3. Live \ entries[Lexical] \in Sets'
    BY <1>0 DEF Sets, Live, Lasts
  <2>. QED
    BY <1>8, <2>1, <2>2, <2>3 DEF StartIngest, Begin
<1>. QED
  BY <1>2, <1>3, <1>4, <1>5, <1>6, <1>7, <1>8 DEF Ingester

LEMMA BuildIsSound ==
  ASSUME IInv, NEW c \in Callers, Builder(c)
  PROVE  Sound(c) /\ Alone(c)
<1>. DEFINE new == call'[c]
<1>0. TypeOK /\ StoreOK' /\ Lasts /\ call[c] \in Works
  BY BuildKeepsStore DEF IInv, TypeOK
<1>1. ASSUME new \in Works', Paid(c)', new.pc \in {"list", "reserve", "embed", "activate"}
      PROVE  Sound(c)
  BY <1>1 DEF Sound, Good, Reached, Fresh, At
<1>2. ASSUME NEW q \in Providers, NEW a \in BOOLEAN, StartBuild(c, q, a) PROVE Sound(c) /\ Alone(c)
  <2>1. new = [pc |-> "list", version |-> VersionOf[q], activate |-> a] /\ Alone(c)
    BY <1>0, <1>2 DEF StartBuild, Begin, TypeOK, Alone
  <2>2. new \in Lists'
    BY <2>1, RetrievalAssumption DEF Lists
  <2>. QED
    BY <1>1, <2>1, <2>2 DEF Works, Paid, At
<1>3. CASE ListChunks(c)
  <2>1. CASE Finish(c)
    BY <1>0, <2>1, FinishedIsSound
  <2>2. CASE ~ Finish(c)
    <3>. DEFINE missing == MissingOf(call[c].version)
    <3>1. /\ new = [pc |-> IF missing = {} THEN "embed" ELSE "reserve", version |-> call[c].version,
                    activate |-> call[c].activate, missing |-> missing]
          /\ Alone(c)
      BY <1>0, <1>3, <2>2 DEF ListChunks, TypeOK, Alone
    <3>2. call[c].version \in Versions /\ call[c].activate \in BOOLEAN
      BY <1>0, <1>3, Shapes DEF ListChunks, At, Lists
    <3>3. missing \in Sets'
      BY <1>0 DEF MissingOf, Live, Sets, Lasts
    <3>4. missing = {} => Cardinality(missing) = 0
      BY FS_EmptySet
    <3>. HIDE DEF missing
    <3>5. new \in Builds' /\ new.pc \in {"embed", "reserve"}
      BY <3>1, <3>2, <3>3 DEF Builds
    <3>6. Paid(c)'
      BY <1>0, <3>1, <3>2, <3>4 DEF Paid, At, StoreOK
    <3>. QED
      BY <1>1, <3>1, <3>5, <3>6 DEF Works
  <2>. QED
    BY <2>1, <2>2
<1>4. CASE ReserveItems(c)
  <2>1. CASE Finish(c)
    BY <1>0, <2>1, FinishedIsSound
  <2>2. CASE ~ Finish(c)
    <3>1. call[c] \in Builds /\ call[c].version \in Versions /\ Cardinality(call[c].missing) \in Nat
      BY <1>0, <1>4, Shapes, InHand, FS_CardinalityType DEF ReserveItems, At
    <3>2. new = [call[c] EXCEPT !.pc = "embed"] /\ Alone(c)
      BY <1>0, <1>4, <2>2 DEF ReserveItems, GoTo, TypeOK, Alone
    <3>3. /\ new.pc = "embed" /\ new.version = call[c].version /\ new.missing = call[c].missing
          /\ new \in Builds'
      BY <1>0, <3>1, <3>2 DEF Builds, Sets, Lasts
    <3>4. Cardinality(call[c].missing) <= charged'[call[c].version]
      BY <1>0, <1>4, <2>2, <3>1 DEF ReserveItems, TypeOK, StoreOK
    <3>. QED
      BY <1>1, <3>2, <3>3, <3>4 DEF Works, Paid, At
  <2>. QED
    BY <2>1, <2>2
<1>5. CASE EmbedBatch(c)
  <2>1. CASE Finish(c)
    BY <1>0, <2>1, FinishedIsSound
  <2>2. CASE ~ Finish(c)
    <3>1. PICK batch : call' = [call EXCEPT ![c].missing = @ \ batch]
      BY <1>5, <2>2 DEF EmbedBatch, Collision
    <3>2. /\ call[c] \in Builds /\ At(c, "embed") /\ call[c].version \in Versions
          /\ IsFiniteSet(call[c].missing)
      BY <1>0, <1>5, Shapes, InHand DEF EmbedBatch, At
    <3>3. new = [call[c] EXCEPT !.missing = @ \ batch] /\ Alone(c)
      BY <1>0, <3>1 DEF TypeOK, Alone
    <3>4. /\ new.pc = "embed" /\ new.version = call[c].version
          /\ new.missing = call[c].missing \ batch /\ new \in Builds'
      BY <1>0, <3>2, <3>3 DEF Builds, Sets, Lasts, At
    <3>5. /\ Cardinality(new.missing) <= Cardinality(call[c].missing)
          /\ Cardinality(new.missing) \in Nat /\ Cardinality(call[c].missing) \in Nat
      BY <3>2, <3>4, FS_Subset, FS_CardinalityType
    <3>6. Cardinality(call[c].missing) <= charged[call[c].version] /\ charged' = charged
      BY <1>5, <3>2 DEF EmbedBatch, IInv, Good, Paid
    <3>. QED
      BY <1>0, <1>1, <3>2, <3>3, <3>4, <3>5, <3>6 DEF Works, Paid, At, TypeOK, StoreOK
  <2>. QED
    BY <2>1, <2>2
<1>6. CASE SaveReady(c)
  <2>1. CASE Finish(c)
    BY <1>0, <2>1, FinishedIsSound
  <2>2. CASE ~ Finish(c)
    <3>1. call[c] \in Builds
      BY <1>0, <1>6, Shapes DEF SaveReady, At
    <3>2. new = [call[c] EXCEPT !.pc = "activate"] /\ Alone(c)
      BY <1>0, <1>6, <2>2 DEF SaveReady, GoTo, TypeOK, Alone
    <3>3. new.pc = "activate" /\ new \in Builds'
      BY <1>0, <3>1, <3>2 DEF Builds, Sets, Lasts
    <3>. QED
      BY <1>1, <3>2, <3>3 DEF Works, Paid, At
  <2>. QED
    BY <2>1, <2>2
<1>7. CASE ProviderFails(c) \/ ActivateEmbedding(c)
  BY <1>0, <1>7, FinishedIsSound DEF ProviderFails, ActivateEmbedding
<1>. QED
  BY <1>2, <1>3, <1>4, <1>5, <1>6, <1>7 DEF Builder

LEMMA QueryIsSound ==
  ASSUME IInv, NEW c \in Callers, Querier(c)
  PROVE  Sound(c) /\ Alone(c)
<1>. DEFINE new == call'[c]
<1>0. TypeOK /\ StoreOK' /\ Lasts /\ UNCHANGED store
  BY OthersKeepStore
  DEF IInv, TypeOK, Querier, QueryLexical, SelectProfile, QuerySemantic, Return, StartQuery
<1>1. ASSUME new \in Works', Fresh(c)', new.pc \in {"match", "select", "search", "answered"}
      PROVE  Sound(c)
  BY <1>1 DEF Sound, Good, Reached, Paid, At
<1>2. ASSUME NEW p \in Profiles PROVE Servable(p) \in Sets
  BY <1>0 DEF Servable, Sets, TypeOK, StoreOK
<1>3. Sets' = Sets /\ expired' = expired /\ artifact' = artifact
  BY <1>0 DEF Sets, store
<1>4. ASSUME NEW q \in Providers, StartQuery(c, q) PROVE Sound(c) /\ Alone(c)
  <2>1. new = [pc |-> "match", provider |-> q, outdated |-> expired] /\ Alone(c)
    BY <1>0, <1>4 DEF StartQuery, Begin, TypeOK, Alone
  <2>2. new \in Matches'
    BY <1>3, <2>1 DEF Matches
  <2>. QED
    BY <1>1, <2>1, <2>2 DEF Works, Fresh, At
<1>5. CASE QueryLexical(c)
  <2>. DEFINE hits == IF lifecycle[Lexical] = "ACTIVE" THEN Servable(Lexical) ELSE {}
  <2>1. /\ new = [pc |-> "select", provider |-> call[c].provider, outdated |-> call[c].outdated,
                  hits |-> hits]
        /\ Alone(c)
    BY <1>0, <1>5 DEF QueryLexical, TypeOK, Alone
  <2>2. call[c].provider \in Providers /\ call[c].outdated \in SUBSET expired
    BY <1>0, <1>5, InHand DEF QueryLexical, At
  <2>3. hits \in Sets /\ hits \cap call[c].outdated = {}
    BY <1>2, <2>2 DEF Servable, Profiles, Sets
  <2>. HIDE DEF hits
  <2>4. new \in Selects' /\ Fresh(c)'
    BY <1>3, <2>1, <2>2, <2>3 DEF Selects, Fresh, At
  <2>. QED
    BY <1>1, <2>1, <2>4 DEF Works
<1>6. ASSUME NEW hits \in Sets, NEW v \in Profiles, Answer(c, hits, v),
             call[c].provider \in Providers, call[c].outdated \in SUBSET expired,
             call[c].hits \in Sets, call[c].hits \cap call[c].outdated = {},
             hits \cap expired = {}, hits # {} => v \in Versions /\ artifact[v] = call[c].provider
      PROVE  Sound(c) /\ Alone(c)
  <2>1. /\ new = [pc |-> "answered", provider |-> call[c].provider,
                  outdated |-> call[c].outdated, hits |-> call[c].hits \cup hits,
                  ranked |-> hits, version |-> v]
        /\ Alone(c)
    BY <1>0, <1>6 DEF Answer, TypeOK, Alone
  <2>2. call[c].hits \cup hits \in Sets /\ (call[c].hits \cup hits) \cap call[c].outdated = {}
    BY <1>6 DEF Sets
  <2>3. new \in Answers' /\ Fresh(c)'
    BY <1>3, <1>6, <2>1, <2>2 DEF Answers, Fresh, At
  <2>. QED
    BY <1>1, <2>1, <2>3 DEF Works
<1>7. CASE SelectProfile(c)
  <2>1. /\ call[c].provider \in Providers /\ call[c].outdated \in SUBSET expired
        /\ call[c].hits \in Sets /\ call[c].hits \cap call[c].outdated = {}
    BY <1>0, <1>7, InHand DEF SelectProfile, At, IInv, Good, Fresh, Sets
  <2>2. CASE Answer(c, {}, Lexical)
    BY <1>6, <2>1, <2>2 DEF Sets, Profiles
  <2>3. ASSUME NEW v \in Versions, SameArtifact(v, call[c].provider),
               call' = [call EXCEPT ![c] = [pc |-> "search", provider |-> call[c].provider,
                          outdated |-> call[c].outdated, hits |-> call[c].hits, version |-> v]]
        PROVE  Sound(c) /\ Alone(c)
    <3>1. /\ new = [pc |-> "search", provider |-> call[c].provider,
                    outdated |-> call[c].outdated, hits |-> call[c].hits, version |-> v]
          /\ Alone(c)
      BY <1>0, <2>3 DEF TypeOK, Alone
    <3>2. new \in Searches'
      BY <1>3, <2>1, <3>1 DEF Searches
    <3>3. Fresh(c)'
      BY <1>3, <2>1, <2>3, <3>1 DEF Fresh, At, SameArtifact
    <3>. QED
      BY <1>1, <3>1, <3>2, <3>3 DEF Works
  <2>. QED
    BY <1>7, <2>2, <2>3 DEF SelectProfile
<1>8. CASE QuerySemantic(c)
  <2>1. /\ call[c].provider \in Providers /\ call[c].outdated \in SUBSET expired
        /\ call[c].hits \in Sets /\ call[c].hits \cap call[c].outdated = {}
        /\ call[c].version \in Versions /\ artifact[call[c].version] = call[c].provider
    BY <1>0, <1>8, InHand DEF QuerySemantic, At, IInv, Good, Fresh, Sets
  <2>2. /\ call[c].version \in Profiles /\ {} \in Sets
        /\ Servable(call[c].version) \in Sets /\ Servable(call[c].version) \cap expired = {}
    BY <1>2, <2>1 DEF Sets, Servable, Profiles
  <2>. QED
    BY <1>6, <1>8, <2>1, <2>2 DEF QuerySemantic
<1>9. CASE Return(c)
  BY <1>0, <1>9, FinishedIsSound DEF Return
<1>. QED
  BY <1>4, <1>5, <1>7, <1>8, <1>9 DEF Querier

--------------------------------------------------------------------------------
(* Every step *)

LEMMA StepKinds ==
  ASSUME Next
  PROVE  \/ \E c \in Callers : Ingester(c) \/ Builder(c) \/ Querier(c) \/ Killed(c)
         \/ \E d \in Documents : Expire(d) \/ \E v \in Versions : PurgeEmbedding(v, d)
  BY DEF Next, Step, Ingester, Builder, Querier

LEMMA StoreLasts ==
  ASSUME IInv, [Next]_vars
  PROVE  StoreOK' /\ Lasts
  BY StepKinds, IngestKeepsStore, BuildKeepsStore, OthersKeepStore DEF IInv

LEMMA CallersStaySound ==
  ASSUME IInv, [Next]_vars
  PROVE  TypeOK' /\ \A c \in Callers : Good(c)'
<1>0. TypeOK /\ StoreOK' /\ Lasts
  BY StoreLasts DEF IInv
<1>1. UNCHANGED call \/ \E c \in Callers : Sound(c) /\ Alone(c)
  BY <1>0, StepKinds, IngestIsSound, BuildIsSound, QueryIsSound, FinishedIsSound
  DEF Killed, Expire, PurgeEmbedding, vars
<1>2. call' = [e \in Callers |-> call'[e]]
  BY <1>0, <1>1 DEF TypeOK, Alone
<1>3. ASSUME NEW c \in Callers PROVE Sound(c)
  <2>1. Sound(c) \/ call'[c] = call[c]
    BY <1>0, <1>1 DEF TypeOK, Alone
  <2>. QED
    BY <1>0, <2>1, OthersStaySound
<1>4. call' \in [Callers -> Works']
  BY <1>2, <1>3 DEF Sound
<1>. QED
  BY <1>0, <1>3, <1>4 DEF Sound, TypeOK

\* Only an ingestion that reached the index is acknowledged.
LEMMA AcknowledgedIsIndexed ==
  ASSUME IInv, [Next]_vars
  PROVE  IngestedIsIndexed'
<1>0. TypeOK /\ Lasts /\ IngestedIsIndexed /\ \A c \in Callers : Good(c)
  BY StoreLasts DEF IInv
<1>1. \/ UNCHANGED acknowledged
      \/ \E c \in Callers : At(c, "publish") /\ acknowledged' = acknowledged \cup {call[c].document}
  BY StepKinds
  DEF Ingester, Builder, Querier, CatchUp, InsertDocument, GetLexicalProfile, FindUnindexed,
      IndexLexical, ActivateLexical, StartIngest, ListChunks, ReserveItems, EmbedBatch,
      ProviderFails, SaveReady, ActivateEmbedding, StartBuild, QueryLexical, SelectProfile,
      QuerySemantic, Return, StartQuery, Killed, Expire, PurgeEmbedding, vars
<1>2. \A c \in Callers : At(c, "publish") => call[c].document \in entries[Lexical] \cup expired
  BY <1>0 DEF Good, Reached
<1>. QED
  BY <1>0, <1>1, <1>2 DEF IngestedIsIndexed, Lasts

--------------------------------------------------------------------------------
(* Which version serves *)

Demoted(v) == lifecycle[v] = "ACTIVE" /\ lifecycle'[v] # "ACTIVE"
WorksOn(c, v) == call[c].pc \in EmbeddingPcs /\ call[c].version = v

LEMMA LifecycleStep ==
  ASSUME IInv, [Next]_vars
  PROVE  \/ \A v \in Versions : lifecycle'[v] = "ACTIVE" <=> lifecycle[v] = "ACTIVE"
         \/ \E c \in Callers : \E v \in Versions :
              /\ WorksOn(c, v) /\ lifecycle'[v] # "ACTIVE"
              /\ \A w \in Versions \ {v} : lifecycle'[w] = lifecycle[w]
         \/ \E c \in Callers : \E v \in Versions :
              /\ WorksOn(c, v) /\ lifecycle'[v] = "ACTIVE"
              /\ \A w \in Versions \ {v} : lifecycle'[w] # "ACTIVE"
<1>. DEFINE Same == \A v \in Versions : lifecycle'[v] = "ACTIVE" <=> lifecycle[v] = "ACTIVE"
            Lost(c, v) == /\ WorksOn(c, v) /\ lifecycle'[v] # "ACTIVE"
                          /\ \A w \in Versions \ {v} : lifecycle'[w] = lifecycle[w]
            Won(c, v) == /\ WorksOn(c, v) /\ lifecycle'[v] = "ACTIVE"
                         /\ \A w \in Versions \ {v} : lifecycle'[w] # "ACTIVE"
<1>0. TypeOK /\ StoreOK
  BY DEF IInv, TypeOK
<1>1. ASSUME NEW c \in Callers, Ingester(c) PROVE Same
  <2>1. UNCHANGED lifecycle \/ \E l : SetLifecycle(Lexical, l)
    BY <1>1
    DEF Ingester, CatchUp, InsertDocument, GetLexicalProfile, FindUnindexed, IndexLexical,
        Collision, ActivateLexical, StartIngest, store
  <2>. QED
    BY <1>0, <2>1, RetrievalAssumption DEF SetLifecycle, StoreOK, Profiles
<1>2. ASSUME NEW c \in Callers, Builder(c)
      PROVE  Same \/ \E v \in Versions : Lost(c, v) \/ Won(c, v)
  <2>1. CASE ListChunks(c) \/ ReserveItems(c)
    BY <2>1 DEF ListChunks, ReserveItems, store
  <2>2. CASE \E q \in Providers, a \in BOOLEAN : StartBuild(c, q, a)
    BY <1>0, <2>2, RetrievalAssumption DEF StartBuild, StoreOK, Profiles
  <2>3. CASE EmbedBatch(c) \/ ProviderFails(c) \/ SaveReady(c)
    <3>1. WorksOn(c, call[c].version) /\ call[c].version \in Versions
      BY <1>0, <2>3, InHand DEF EmbedBatch, ProviderFails, SaveReady, At, WorksOn, EmbeddingPcs
    <3>2. UNCHANGED lifecycle \/ \E l \in {"READY", "FAILED"} : SetLifecycle(call[c].version, l)
      BY <2>3 DEF EmbedBatch, Collision, ProviderFails, SaveReady
    <3>3. ASSUME NEW l \in {"READY", "FAILED"}, SetLifecycle(call[c].version, l)
          PROVE  Lost(c, call[c].version)
      BY <1>0, <3>1, <3>3 DEF SetLifecycle, StoreOK, Profiles
    <3>. QED
      BY <3>1, <3>2, <3>3
  <2>4. CASE ActivateEmbedding(c)
    <3>1. WorksOn(c, call[c].version) /\ call[c].version \in Versions
      BY <1>0, <2>4, InHand DEF ActivateEmbedding, At, WorksOn, EmbeddingPcs
    <3>2. CASE MayActivate(call[c].version)
      <4>1. Won(c, call[c].version)
        BY <2>4, <3>1, <3>2 DEF ActivateEmbedding, Profiles
      <4>. QED
        BY <3>1, <4>1
    <3>. QED
      BY <2>4, <3>2 DEF ActivateEmbedding
  <2>. QED
    BY <1>2, <2>1, <2>2, <2>3, <2>4 DEF Builder
<1>3. ASSUME NEW c \in Callers, Querier(c) \/ Killed(c) PROVE Same
  BY <1>3
  DEF Querier, QueryLexical, SelectProfile, QuerySemantic, Return, StartQuery, Killed, store
<1>4. ASSUME NEW d \in Documents, Expire(d) \/ \E v \in Versions : PurgeEmbedding(v, d) PROVE Same
  BY <1>4 DEF Expire, PurgeEmbedding
<1>5. CASE UNCHANGED vars
  BY <1>5 DEF vars, store
<1>. QED
  BY <1>1, <1>2, <1>3, <1>4, <1>5, StepKinds

--------------------------------------------------------------------------------
(* Theorems *)

LEMMA InitEstablishes == Init => IInv
<1>. SUFFICES ASSUME Init PROVE IInv
  OBVIOUS
<1>1. TypeOK
  BY FS_EmptySet DEF Init, TypeOK, StoreOK, Works, Lifecycles
<1>2. \A c \in Callers : Good(c)
  BY DEF Init, Idle, Good, Reached, Paid, Fresh, At
<1>3. IngestedIsIndexed /\ OneActive
  BY DEF Init, IngestedIsIndexed, OneActive, Profiles
<1>. QED
  BY <1>1, <1>2, <1>3 DEF IInv

LEMMA NextPreserves == IInv /\ [Next]_vars => IInv'
<1>. SUFFICES ASSUME IInv, [Next]_vars PROVE IInv'
  OBVIOUS
<1>1. OneActive'
  BY LifecycleStep DEF IInv, OneActive
<1>. QED
  BY <1>1, CallersStaySound, AcknowledgedIsIndexed DEF IInv

\* The inductive invariant: the types, what is acknowledged is indexed, at most one version
\* serves, and what every caller has read is still true enough to act on.
THEOREM RetrievalInvariant == Spec => []IInv
<1>. QED
  BY InitEstablishes, NextPreserves, PTL DEF Spec

\* Every variable keeps its type: profiles move through the lifecycles of the model, the
\* entries of every profile are ingested documents, reservations are counts.
THEOREM TypeCorrect == Spec => []TypeOK
<1>1. IInv => TypeOK
  BY DEF IInv
<1>. QED
  BY <1>1, RetrievalInvariant, PTL

\* An ingestion that is reported as created left its chunk in the lexical index, or the
\* document has expired, however many ingestions index at the same time.
THEOREM IngestionsAreIndexed == Spec => []IngestedIsIndexed
<1>1. IInv => IngestedIsIndexed
  BY DEF IInv
<1>. QED
  BY <1>1, RetrievalInvariant, PTL

\* No build embeds more chunks than were reserved under the key of its profile, whatever
\* builds of the same profile reserved and embedded between its transactions.
THEOREM BuildsEmbedWhatTheyReserved == Spec => []EmbedsWhatWasReserved
<1>1. IInv => EmbedsWhatWasReserved
  BY DEF IInv, Good, Paid, EmbedsWhatWasReserved
<1>. QED
  BY <1>1, RetrievalInvariant, PTL

\* A query is answered with stored evidence that had not expired when it was asked, and its
\* vector is compared with vectors of its own artifact only, although the profile it
\* selected may have been demoted, failed or rebuilt before it is searched.
THEOREM AnswersAreFreshAndComparable == Spec => []HitsAreFreshAndComparable
<1>1. ASSUME IInv PROVE HitsAreFreshAndComparable
  <2>. SUFFICES ASSUME NEW c \in Callers, At(c, "answered")
                PROVE  /\ call[c].hits \cap call[c].outdated = {}
                       /\ call[c].hits \subseteq documents
                       /\ call[c].ranked # {} => artifact[call[c].version] = call[c].provider
    BY DEF HitsAreFreshAndComparable
  <2>1. call[c].hits \in SUBSET documents
    BY <1>1, InHand DEF IInv, At
  <2>. QED
    BY <1>1, <2>1 DEF IInv, Good, Fresh, At
<1>. QED
  BY <1>1, RetrievalInvariant, PTL

\* At most one version of the embeddings serves at a time.
THEOREM OneVersionServes == Spec => []OneActive
<1>1. IInv => OneActive
  BY DEF IInv
<1>. QED
  BY <1>1, RetrievalInvariant, PTL

\* The active version keeps serving while another one is built beside it: it stops only in
\* the step that activates another version, or while a build of its own version runs.
THEOREM VersionsAreBuiltSideBySide == Spec => SideBySide
<1>. DEFINE Disturbed(v) ==
       \/ \E w \in Versions \ {v} : lifecycle[w] # "ACTIVE" /\ lifecycle'[w] = "ACTIVE"
       \/ \E c \in Callers : call[c].pc \in EmbeddingPcs /\ call[c].version = v
<1>1. ASSUME IInv, [Next]_vars, NEW v \in Versions, Demoted(v) PROVE Disturbed(v)
  BY <1>1, LifecycleStep DEF Demoted, WorksOn, IInv, OneActive
<1>2. IInv /\ [Next]_vars =>
        [\A v \in Versions :
           lifecycle[v] = "ACTIVE" /\ lifecycle'[v] # "ACTIVE" => Disturbed(v)]_vars
  BY <1>1 DEF Demoted
<1>. QED
  BY <1>2, RetrievalInvariant, PTL DEF Spec, SideBySide

================================================================================
