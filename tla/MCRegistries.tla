----------------------------- MODULE MCRegistries -----------------------------
(* The registries of the gateway for TLC: corpora, realms, their secrets, question sets,       *)
(* settings, prompts and external RAGs.  They are collections of their own behind handlers of   *)
(* their own, so a behaviour is about one of them and the others stay Off: TLC goes through the *)
(* sum of their states and not through the product.  "overlap" is the realms once more, with    *)
(* two clients at a time and a gateway that may stop.  Requests on corpora are interchangeable, *)
(* and so are secrets.                                                                          *)
EXTENDS Integers, Sequences, TLC

CONSTANTS
    Parts,      \* the components to go through
    Nil, NoRealm, NoKey,
    CorpusClients, CorpusKinds,
    RealmClient, OverlapClients, RealmNames, OverlapNames, RagIds, RealmFiles, RealmDocs,
    RealmCalls, OverlapCalls,
    Resources, Headers, Keys, Secrets, SecretClients, SecretWrites,
    DatasetPages, DatasetRealms, Answers, GoldenFiles, DatasetIds, DatasetDocs, DatasetCalls,
    SettingsRealms, GlobalScope, Models, EnvModel, Packs, OwnParts, PackRegisters,
    SettingsClients, Puts,
    PromptHandlers, PromptRealms, PromptTemplates, PromptImported, PromptVersions,
    PromptRequests, PromptFaults,
    HeaderNames, HeaderValues, MaskShown, Urls, RagDatasets, Editors, RagEdits

Symmetry == Permutations(CorpusClients) \cup Permutations(Secrets)

\* Export files of a realm with one RAG and its dataset.
SmallFiles == {[name |-> n, rags |-> <<i>>, datasets |-> <<i>>] : n \in OverlapNames, i \in RagIds}

\* Two packs that share a component.
SharingPacks == <<<<"parser", "refusal", "hooks one">>, <<"naive", "refusal", "hooks two">>>>

\* Realm r1 with two templates, r2 with one that took a suffix; an import into r3.
PromptTemplate(v, s, r, active, by) ==
    [id |-> <<v, s>>, realm |-> r, version |-> v, active |-> active, by |-> by]
Installed == {PromptTemplate(1, 0, "r1", TRUE, "install"),
              PromptTemplate(2, 0, "r1", FALSE, "install"),
              PromptTemplate(1, 1, "r2", TRUE, "install")}
TwoRealmsInstalled == {[files |-> Installed, docs |-> Installed]}
ThirdRealmImported == PromptTemplate(1, 0, "r3", TRUE, "export")

VARIABLES
    part,       \* the component this behaviour is about
    records, inserted, exists, held, loader, listedLoads, cleared,
    realms, rags, datasets, exports, client, postedRag, posts, oid,
    secret, key, editor, file, tool, writes,
    doc, page, listed, ids, docs, calls,
    saved, where, put, generator, owner, contributed, loaded, start, up, puts,
    files, stored, writing, handler, started, faults, seeded,
    rag, sets, edit, cascade, probe, sent, posted, meant, edits

Corpora == INSTANCE CorpusRegistry WITH
    Clients <- CorpusClients, Kinds <- CorpusKinds, None <- Nil, client <- loader,
    listed <- listedLoads
RealmStore == INSTANCE RealmRegistry WITH
    Names <- RealmNames, Clients <- {RealmClient}, Files <- RealmFiles, Crashes <- FALSE,
    MaxDocs <- RealmDocs, MaxCalls <- RealmCalls, files <- exports, posted <- postedRag,
    calls <- posts
RealmOverlap == INSTANCE RealmRegistry WITH
    Names <- OverlapNames, Clients <- OverlapClients, Files <- RealmFiles, Crashes <- TRUE,
    MaxDocs <- RealmDocs, MaxCalls <- OverlapCalls, files <- exports, posted <- postedRag,
    calls <- posts
SecretStore == INSTANCE RealmSecrets WITH
    Clients <- SecretClients, Values <- Secrets, MaxWrites <- SecretWrites, client <- editor
QuestionSets == INSTANCE DatasetEdits WITH
    Pages <- DatasetPages, Realms <- DatasetRealms, Files <- GoldenFiles, MaxIds <- DatasetIds,
    MaxDocs <- DatasetDocs, MaxCalls <- DatasetCalls, None <- Nil
Settings == INSTANCE GatewaySettings WITH
    Realms <- SettingsRealms, Global <- GlobalScope, Own <- OwnParts,
    Registers <- PackRegisters, Clients <- SettingsClients, MaxEdits <- Puts, edit <- put,
    edits <- puts
Prompts == INSTANCE PromptActivation WITH
    Handler <- PromptHandlers, Realm <- PromptRealms, Templates <- PromptTemplates,
    Imported <- PromptImported, MaxVersion <- PromptVersions, MaxRequests <- PromptRequests,
    MaxFaults <- PromptFaults, None <- Nil, docs <- stored
External == INSTANCE ExternalRag WITH
    Names <- HeaderNames, Values <- HeaderValues, Mask <- MaskShown, Datasets <- RagDatasets,
    MaxEdits <- RagEdits, calls <- sent

corporaVars == <<records, inserted, exists, held, loader, listedLoads, cleared>>
realmsVars == <<realms, rags, datasets, exports, client, postedRag, posts, oid>>
secretsVars == <<secret, key, editor, file, tool, writes>>
datasetsVars == <<doc, page, listed, ids, docs, calls>>
settingsVars == <<saved, where, put, generator, owner, contributed, loaded, start, up, puts>>
promptsVars == <<files, stored, writing, handler, started, faults, seeded>>
externalVars == <<rag, sets, edit, cascade, probe, sent, posted, meant, edits>>
vars == <<part, corporaVars, realmsVars, secretsVars, datasetsVars, settingsVars, promptsVars,
    externalVars>>

ASSUME CorporaAssumption == Corpora!ClientsAssumption /\ Corpora!KindsAssumption
ASSUME RealmsAssumption == RealmStore!Assumptions /\ RealmOverlap!Assumptions
ASSUME SecretsAssumption == SecretStore!Assumptions
ASSUME DatasetsAssumption == QuestionSets!Assumptions
ASSUME SettingsAssumption == Settings!Assumptions
ASSUME PromptsAssumption == Prompts!Assumptions
ASSUME ExternalAssumption == External!Assumptions

Off == [off |-> TRUE]
CorporaOff == records = Off /\ inserted = Off /\ exists = Off /\ held = Off /\ loader = Off /\
    listedLoads = Off /\ cleared = Off
RealmsOff == realms = Off /\ rags = Off /\ datasets = Off /\ exports = Off /\ client = Off /\
    postedRag = Off /\ posts = Off /\ oid = Off
SecretsOff == secret = Off /\ key = Off /\ editor = Off /\ file = Off /\ tool = Off /\
    writes = Off
DatasetsOff == doc = Off /\ page = Off /\ listed = Off /\ ids = Off /\ docs = Off /\ calls = Off
SettingsOff == saved = Off /\ where = Off /\ put = Off /\ generator = Off /\ owner = Off /\
    contributed = Off /\ loaded = Off /\ start = Off /\ up = Off /\ puts = Off
PromptsOff == files = Off /\ stored = Off /\ writing = Off /\ handler = Off /\ started = Off /\
    faults = Off /\ seeded = Off
ExternalOff == rag = Off /\ sets = Off /\ edit = Off /\ cascade = Off /\ probe = Off /\
    sent = Off /\ posted = Off /\ meant = Off /\ edits = Off

Init ==
    /\ part \in Parts
    /\ IF part = "corpora" THEN Corpora!Init ELSE CorporaOff
    /\ IF part = "realms" THEN RealmStore!Init ELSE IF part = "overlap" THEN RealmOverlap!Init ELSE RealmsOff
    /\ IF part = "secrets" THEN SecretStore!Init ELSE SecretsOff
    /\ IF part = "datasets" THEN QuestionSets!Init ELSE DatasetsOff
    /\ IF part = "settings" THEN Settings!Init ELSE SettingsOff
    /\ IF part = "prompts" THEN Prompts!Init ELSE PromptsOff
    /\ IF part = "external" THEN External!Init ELSE ExternalOff

CorporaStep ==
    /\ part = "corpora" /\ Corpora!Next
    /\ UNCHANGED <<part, realmsVars, secretsVars, datasetsVars, settingsVars, promptsVars,
                 externalVars>>
RealmStoreStep ==
    /\ part = "realms" /\ RealmStore!Next
    /\ UNCHANGED <<part, corporaVars, secretsVars, datasetsVars, settingsVars, promptsVars,
                 externalVars>>
RealmOverlapStep ==
    /\ part = "overlap" /\ RealmOverlap!Next
    /\ UNCHANGED <<part, corporaVars, secretsVars, datasetsVars, settingsVars, promptsVars,
                 externalVars>>
SecretStoreStep ==
    /\ part = "secrets" /\ SecretStore!Next
    /\ UNCHANGED <<part, corporaVars, realmsVars, datasetsVars, settingsVars, promptsVars,
                 externalVars>>
QuestionSetsStep ==
    /\ part = "datasets" /\ QuestionSets!Next
    /\ UNCHANGED <<part, corporaVars, realmsVars, secretsVars, settingsVars, promptsVars,
                 externalVars>>
SettingsStep ==
    /\ part = "settings" /\ Settings!Next
    /\ UNCHANGED <<part, corporaVars, realmsVars, secretsVars, datasetsVars, promptsVars,
                 externalVars>>
PromptsStep ==
    /\ part = "prompts" /\ Prompts!Next
    /\ UNCHANGED <<part, corporaVars, realmsVars, secretsVars, datasetsVars, settingsVars,
                 externalVars>>
ExternalStep ==
    /\ part = "external" /\ External!Next
    /\ UNCHANGED <<part, corporaVars, realmsVars, secretsVars, datasetsVars, settingsVars,
                 promptsVars>>
Next == CorporaStep \/ RealmStoreStep \/ RealmOverlapStep \/ SecretStoreStep \/
        QuestionSetsStep \/ SettingsStep \/ PromptsStep \/ ExternalStep

Spec == Init /\ [][Next]_vars

----------------------------------------------------------------------------
(* Properties *)

\* Every component's variables keep to the shapes its module gives them.
TypeOK ==
    /\ part = "corpora" => Corpora!TypeOK
    /\ part = "realms" => RealmStore!TypeOK
    /\ part = "overlap" => RealmOverlap!TypeOK
    /\ part = "secrets" => SecretStore!TypeOK
    /\ part = "datasets" => QuestionSets!TypeOK
    /\ part = "settings" => Settings!TypeOK
    /\ part = "prompts" => Prompts!TypeOK
    /\ part = "external" => External!TypeOK

\* What was deleted softly or for good comes back by a restore or a new registration only,
\* whatever edit or test read it before: a corpus, an external RAG.
DeletedStaysDeleted ==
    /\ [][part = "corpora" => Corpora!DeletedStaysDeleted]_vars
    /\ [][part = "external" => External!DeletedStaysDeleted]_vars

\* The record of a corpus follows its loads: the last registration that no delete met is what is
\* listed, what is known of how an index was built is not forgotten, and a hard delete beside
\* which nothing loads and that no backend refuses leaves no index it named.
RecordFollowsTheLoads ==
    /\ [](part = "corpora" => Corpora!LastLoadIsListed /\ Corpora!HardDeleteDropsWhatItNamed)
    /\ [][part = "corpora" => Corpora!ManifestIsNeverForgotten]_vars

\* With one client at a time every realm has an id of its own and no RAG is left with a realm
\* that is gone, through any sequence of creations, imports and hard deletes; a dry run writes
\* nothing, also with several clients at a time.
RealmsStayWhole ==
    /\ [](part = "realms" => RealmStore!OneRealmPerId /\ RealmStore!RagsHaveTheirRealm)
    /\ [][part = "overlap" => RealmOverlap!DryRunWritesNothing]_vars

\* No write adds a secret in the clear.  A key command that comes to its end, also one that
\* takes up what a stopped one left, leaves of the slots nobody else wrote since it read them
\* none in the clear, and a rotation none under another key; wherever it is stopped, each of
\* them is the secret it was.
SecretsGetSealed ==
    /\ [][part = "secrets" => SecretStore!NothingNewInTheClear]_vars
    /\ [][part = "secrets" => SecretStore!SealedAfterTheTool]_vars
    /\ [][part = "secrets" => SecretStore!HalfWayKeepsTheSecrets]_vars

\* No overlap undoes an edit of a RAG's addresses or knobs, nor writes over a prompt's text; and an
\* edited question is scored with the answer it shows and says that it was edited.
EditsAreKept ==
    /\ [](part = "external" => External!NoEditIsLost)
    /\ [](part = "datasets" => QuestionSets!ScoredWithWhatIsShown /\ QuestionSets!EditsAreMarked)
    /\ [][part = "prompts" => Prompts!FilesKeepTheirText]_vars

\* What a realm activates or asks for stays its own: its templates come before any other's, an
\* activation changes no other realm's and leaves one active as long as nothing was seeded or
\* stopped half way, a pack is one it activated, a list of question sets is the realm's.
RealmsDoNotMix ==
    /\ [](part = "prompts" => Prompts!OwnTemplatesComeFirst /\ Prompts!OneActiveUntilSeeded)
    /\ [](part = "settings" => Settings!OnlyItsOwnPacks)
    /\ [][part = "prompts" => Prompts!ActivationStaysInItsRealm]_vars
    /\ [][part = "settings" => Settings!ActivatedIsLoaded]_vars
    /\ [][part = "datasets" => QuestionSets!ListIsOfTheRealm]_vars
==============================================================================
