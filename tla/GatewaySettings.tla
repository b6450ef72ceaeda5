---------------------------- MODULE GatewaySettings ----------------------------
(***************************************************************************)
(* Settings and domain packs of the gateway: routers/settings.py,          *)
(* routers/domain_packs.py, core/domain/loader.py and the part of main.py  *)
(* that loads packs at start and gives a chat its hooks.  Settings are     *)
(* stored per scope; the components of packs and the model of the default  *)
(* generator are one per process.                                          *)
(***************************************************************************)
EXTENDS Integers, Sequences, FiniteSets, FiniteSetsExt, Functions

CONSTANTS
    Realms, Global,     \* scopes of settings; Global stands for no realm
    Models, EnvModel,   \* OLLAMA_MODEL
    Packs,              \* pack ids, numbered in the order of their names
    Own,                \* components of the platform
    Registers,          \* Registers[p]: components a pack registers, in order; its last is its hooks
    Clients,
    MaxEdits            \* bound: PUT requests

Assumptions ==
    /\ Global \notin Realms /\ EnvModel \in Models /\ Packs \subseteq Nat \ {0}
    /\ \A p \in Packs : Registers[p] \in Seq(Range(Registers[p])) /\ Registers[p] # <<>>
    /\ MaxEdits \in Nat

Scopes == Realms \cup {Global}
Defaults == [model |-> EnvModel, packs |-> {}]      \* _DEFAULT_SETTINGS
Dirs == <<"built in", "installation">>              \* pack_dirs()
Idle == [op |-> "idle"]

VARIABLES
    saved,          \* saved[s]: the settings document of a scope, or absent
    where,          \* where[p]: the directories that have the pack
    edit,           \* edit[c]: a PUT between its read and its write
    generator,      \* the model of the registered generator
    owner,          \* owner[x]: who registered a component last
    contributed,    \* PACK_COMPONENTS
    loaded,         \* pack -> the directory it was imported from
    start,          \* the last start: the scopes it could read, how far each pack gets, the packs
                    \* that are still to be loaded
    up,
    edits

vars == <<saved, where, edit, generator, owner, contributed, loaded, start, up, edits>>

Core == 0     \* the platform itself
Absent == [absent |-> TRUE]
NoFun == [x \in {} |-> 0]

Init ==
    /\ saved = [s \in Scopes |-> Absent]
    /\ where \in [Packs -> SUBSET (1..Len(Dirs))]
    /\ edit = [c \in Clients |-> Idle]
    /\ generator = EnvModel
    /\ owner = [x \in Own |-> Core] /\ contributed = NoFun /\ loaded = NoFun
    /\ start = Idle /\ up = FALSE /\ edits = 0

---------------------------------------------------------------------------
(* Settings *)

Stored(s) == IF saved[s] = Absent THEN Defaults ELSE saved[s]

\* _get_settings_doc: a store that does not answer is as good as no document.
Readings(s) == {Stored(s), Defaults}

Change(op, doc, what) ==
    IF op = "model" THEN [doc EXCEPT !.model = what] ELSE [doc EXCEPT !.packs = what]

Offer == {<<"model", m>> : m \in Models} \cup {<<"packs", ps>> : ps \in SUBSET Packs}

\* PUT /settings/model and PUT /domain-packs: the document is read ...
Put(c) ==
    /\ up /\ edit[c] = Idle /\ edits < MaxEdits
    /\ \E s \in Scopes, o \in Offer : \E doc \in Readings(s) :
          edit' = [edit EXCEPT ![c] = [op |-> o[1], scope |-> s, what |-> o[2], read |-> doc,
                                       blind |-> doc # Stored(s)]]
    /\ edits' = edits + 1
    /\ UNCHANGED <<saved, where, generator, owner, contributed, loaded, start, up>>

\* ... and saved whole; a save that fails is answered "updated" all the same.
Answer(c) ==
    LET e == edit[c] IN
    /\ up /\ e # Idle
    /\ edit' = [edit EXCEPT ![c] = Idle]
    /\ saved' \in {saved, [saved EXCEPT ![e.scope] = Change(e.op, e.read, e.what)]}
    /\ generator' = IF e.op = "model" THEN e.what ELSE generator
    /\ UNCHANGED <<where, owner, contributed, loaded, start, up, edits>>

---------------------------------------------------------------------------
(* Loading packs *)

\* discover_packs: the last directory that has the pack.
Listed == [p \in {q \in Packs : where[q] # {}} |-> Max(where[p])]
\* _import_pack_module: the first.
Imported == [p \in {q \in Packs : where[q] # {}} |-> Min(where[p])]

\* "Computed as the difference in the registry before and after the load".
NewParts(parts, before) == parts \ DOMAIN before

\* f with what is known of p.
With(f, p, what) == [q \in DOMAIN f \cup {p} |-> IF q = p THEN what ELSE f[q]]

\* load_active_packs of one pack: n of its components are registered before it raises, all
\* of them when it does not.  What is new in the registry is what the pack contributed.
LoadOne(p, n) ==
    LET parts == {Registers[p][i] : i \in 1..n} IN
    IF p \notin DOMAIN Imported THEN UNCHANGED <<owner, contributed, loaded>>
    ELSE /\ owner' = [x \in DOMAIN owner \cup parts |-> IF x \in parts THEN p ELSE owner[x]]
         /\ IF n < Len(Registers[p]) THEN UNCHANGED <<contributed, loaded>>
            ELSE /\ contributed' = With(contributed, p, NewParts(parts, owner))
                 /\ loaded' = With(loaded, p, Imported[p])

\* _collect_active_packs_across_realms
ActiveAnywhere(reads) == UNION {reads[s].packs : s \in DOMAIN reads}

\* How each pack's register ends: the number of components it gets to.
Outcomes ==
    {n \in [Packs -> {1} \cup {Len(Registers[p]) : p \in Packs}] :
        \A p \in Packs : n[p] \in {1, Len(Registers[p])}}

\* The lifespan: what the platform registers; the packs of every scope that could be read ...
Start ==
    /\ ~up /\ start = Idle
    /\ \E scopes \in {Scopes, {Global}} : \E n \in Outcomes :
          start' = [scopes |-> scopes, got |-> n,
                    todo |-> ActiveAnywhere([s \in scopes |-> Stored(s)])]
    /\ owner' = [x \in Own |-> Core] /\ contributed' = NoFun /\ loaded' = NoFun
    /\ generator' = EnvModel
    /\ UNCHANGED <<saved, where, edit, up, edits>>

\* ... are loaded, one after the other ...
LoadPack ==
    /\ ~up /\ start # Idle /\ start.todo # {}
    /\ LET p == Min(start.todo)
       IN  LoadOne(p, start.got[p]) /\ start' = [start EXCEPT !.todo = @ \ {p}]
    /\ UNCHANGED <<saved, where, edit, generator, up, edits>>

\* ... and the gateway answers.
Serve ==
    /\ ~up /\ start # Idle /\ start.todo = {} /\ up' = TRUE
    /\ UNCHANGED <<saved, where, edit, generator, owner, contributed, loaded, start, edits>>

\* The process ends, while it starts or later.
Stop ==
    /\ start # Idle /\ start' = Idle /\ up' = FALSE
    /\ edit' = [c \in Clients |-> Idle]
    /\ UNCHANGED <<saved, where, generator, owner, contributed, loaded, edits>>

Next == Start \/ LoadPack \/ Serve \/ Stop \/ \E c \in Clients : Put(c) \/ Answer(c)

Spec == Init /\ [][Next]_vars

---------------------------------------------------------------------------
(* What a realm sees *)

\* components_outside_packs
Hidden(active) == UNION {contributed[p] : p \in DOMAIN contributed \ active}

Offered(active) == DOMAIN owner \ Hidden(active)

HooksOf(p) == Registers[p][Len(Registers[p])]

\* _build_chat_pipeline: the hooks of the realm's packs that are in the registry.
ChatHooks(active) == {p \in active : HooksOf(p) \in DOMAIN owner}

---------------------------------------------------------------------------
(* Properties *)

\* A component of the platform is always there, whatever packs register over it, and a pack
\* contributed what is in the registry.
TypeOK ==
    /\ saved \in [Scopes -> [model : Models, packs : SUBSET Packs] \cup {Absent}]
    /\ Own \subseteq DOMAIN owner
    /\ \A p \in DOMAIN contributed : contributed[p] \subseteq DOMAIN owner \ Own
    /\ DOMAIN loaded = DOMAIN contributed

\* A pack that a realm activated is loaded, with all it registers, by the next start that
\* could enumerate the realms, when the pack can be found and its register does not raise.
ActivatedIsLoaded ==
    (~up /\ up') =>
       \A s \in start.scopes : \A p \in Stored(s).packs \cap DOMAIN Imported :
           start.got[p] = Len(Registers[p])
               => p \in DOMAIN loaded' /\ Range(Registers[p]) \subseteq DOMAIN owner'

\* Activation is each realm's own: what a pack alone registered and a realm did not activate
\* is neither offered to it nor heard in its chat, and no two packs are credited with the
\* same component.
OnlyItsOwnPacks ==
    up => \A s \in Scopes : LET active == Stored(s).packs IN
        /\ \A p \in DOMAIN loaded \ active : contributed[p] \cap Offered(active) = {}
        /\ ChatHooks(active) \subseteq active
        /\ \A p, q \in DOMAIN contributed : p # q => contributed[p] \cap contributed[q] = {}

-----------------------------------------------------------------------------
(* What the code, its tests or its documents say and the code does not keep (README). *)

\* "switching the active model": the packs of the scope stay as they are.
PacksSurviveAModelChange ==
    [][\A c \in Clients :
          (edit[c] # Idle /\ edit'[c] = Idle /\ edit[c].op = "model" /\ up')
              => \A s \in Scopes : s = edit[c].scope /\ saved'[s] # saved[s]
                     => saved'[s].packs = Stored(s).packs]_vars

\* "Active model managed via PUT /settings/model": the model shown without a realm is the one in use.
ModelShownIsUsed == (up /\ \A c \in Clients : edit[c] = Idle) => generator = Stored(Global).model

\* "The registry without other packs' internals": nothing of a pack the realm did not activate.
OtherPacksStayHidden ==
    up => \A s \in Scopes : \A x \in Offered(Stored(s).packs) :
              owner[x] = Core \/ owner[x] \in Stored(s).packs

\* "plus what the permitted ones did".
OwnPackIsOffered ==
    up => \A s \in Scopes : \A p \in DOMAIN loaded \cap Stored(s).packs :
              Range(Registers[p]) \subseteq Offered(Stored(s).packs)

\* "an installation whose pack has the same id as one shipped here gets its own".
InstallationGetsItsOwn == \A p \in DOMAIN loaded : loaded[p] = Listed[p]
=============================================================================
