--------------------------- MODULE RegistriesProofs ---------------------------
(***************************************************************************)
(* Proofs about the registries, for any clients, realms, keys and values:  *)
(* secrets, corpora and external RAGs first, then the realms and what is   *)
(* kept for each of them: question sets, prompts and settings.             *)
(***************************************************************************)
EXTENDS MCRegistries, ListFacts

----------------------------------------------------------------------------
(* Secrets *)

\* The values a key seals.
SealedUnder(k) == {SecretStore!Sealed(k, v) : v \in Secrets}

SecretTypes ==
    /\ secret \in [SecretStore!Slots -> SecretStore!Stored]
    /\ key \in Keys \cup {NoKey}
    /\ editor \in [SecretClients -> {SecretStore!Free} \cup
           [op : {"write"}, slot : SecretStore!Slots, sent : SecretStore!Sendable,
            read : SecretStore!Stored]]
    /\ file \in [SecretStore!Slots -> SecretStore!Stored \cup {SecretStore!Mask}]
    /\ writes \in Nat

\* A command that writes has a plan of secrets under its new key; while nobody writes beside
\* it, what it reads back is what it wrote.
ToolIsOnCourse ==
    tool.op = "write" =>
        /\ tool.new \in Keys
        /\ DOMAIN tool.plan \subseteq SecretStore!Slots
        /\ tool.left \subseteq DOMAIN tool.plan
        /\ tool.check \subseteq DOMAIN tool.plan
        /\ tool.left \cap tool.check = {}
        /\ \A s \in DOMAIN tool.plan : tool.plan[s] \in SealedUnder(tool.new)
        /\ tool.others \subseteq SecretStore!Slots
        /\ tool.others = {} => tool.unreadable = 0
        /\ DOMAIN tool = {"op", "new", "old", "plan", "left", "check", "unreadable", "others",
                          "resumed"}

\* A slot nobody else wrote since the command read it: what is left to write is the secret the
\* plan was made of, what was written is as planned, and the rest needs no sealing.
ToolAlone ==
    tool.op = "write" =>
        \A s \in SecretStore!Slots \ tool.others :
            /\ s \in tool.left => /\ secret[s].kind # "unset"
                                  /\ tool.plan[s] = SecretStore!Sealed(tool.new, secret[s].value)
            /\ s \in DOMAIN tool.plan \ tool.left => secret[s] = tool.plan[s]
            /\ s \notin DOMAIN tool.plan =>
                   \/ secret[s] = SecretStore!Unset
                   \/ tool.old = NoKey /\ secret[s].kind = "sealed"

SecretInv == SecretTypes /\ ToolIsOnCourse /\ ToolAlone

\* A record of the clients' and of the database is one of the kinds it can be.
LEMMA StoredKinds ==
    ASSUME NEW v \in SecretStore!Stored
    PROVE  \/ v = SecretStore!Unset
           \/ v.kind = "plain" /\ \E w \in Secrets : v = SecretStore!Plain(w)
           \/ v.kind = "sealed" /\ \E k \in Keys, w \in Secrets : v = SecretStore!Sealed(k, w)
  BY DEF SecretStore!Stored, SecretStore!Unset, SecretStore!Plain, SecretStore!Sealed

\* What for_storage writes is what was there, nothing, or sealed: a secret is never put in the clear.
LEMMA StorageSeals ==
    ASSUME NEW said \in SecretStore!Sendable, NEW had \in SecretStore!Stored,
           NEW k \in Keys \cup {NoKey}, NEW new \in SecretStore!ForStorage(said, had, k)
    PROVE  /\ new \in SecretStore!Stored
           /\ SecretStore!ForStorage(said, had, k) = {new}
           /\ new = had \/ new.kind # "plain"
  BY DEF SecretStore!Sendable, SecretStore!ForStorage, SecretStore!Stored, SecretStore!Unset,
         SecretStore!Plain, SecretStore!Sealed, SecretStore!Mask, SecretStore!Empty

\* The command makes its plan of what it is to seal: under the new key, one by one.
LEMMA PlanSeals ==
    ASSUME NEW v \in SecretStore!Stored, NEW new \in Keys, NEW old, SecretStore!ToSeal(v, old)
    PROVE  SecretStore!Resealed(new, old, v) \in SealedUnder(new)
  BY StoredKinds DEF SecretStore!ToSeal, SecretStore!Resealed, SealedUnder, SecretStore!Unset,
         SecretStore!Plain, SecretStore!Sealed

\* Of the secrets a step of another component touches none.
LEMMA SecretsStep ==
    ASSUME part = "secrets", [Next]_vars
    PROVE  part' = part /\ (SecretStore!Next \/ UNCHANGED secretsVars)
  BY DEF Next, vars, CorporaStep, RealmStoreStep, RealmOverlapStep, SecretStoreStep,
         QuestionSetsStep, SettingsStep, PromptsStep, ExternalStep

LEMMA SecretInit == ASSUME part = "secrets", Init PROVE SecretInv
  BY DEF Init, SecretStore!Init, SecretInv, SecretTypes, ToolIsOnCourse, ToolAlone,
         SecretStore!Free, SecretStore!Unset, SecretStore!Stored

\* Requests and the command keep to the shapes, the masks excepted that an export writes.
LEMMA SecretTypeStep == ASSUME SecretInv, SecretStore!Next PROVE SecretTypes'
<1> USE DEF SecretInv, SecretTypes
<1>1. ASSUME NEW c \in SecretClients, SecretStore!Read(c) PROVE SecretTypes'
  BY <1>1 DEF SecretStore!Read, SecretStore!Sent, SecretStore!Sendable
<1>2. ASSUME NEW c \in SecretClients, SecretStore!Write(c) PROVE SecretTypes'
  <2> DEFINE new == SecretStore!ForStorage(editor[c].sent, editor[c].read, key)
  <2>1. /\ editor[c].slot \in SecretStore!Slots /\ editor[c].sent \in SecretStore!Sendable
        /\ editor[c].read \in SecretStore!Stored
    BY <1>2 DEF SecretStore!Write, SecretStore!Free
  <2>2. new # {} => (CHOOSE v \in new : TRUE) \in SecretStore!Stored
    BY <2>1, StorageSeals
  <2>3. secret' \in [SecretStore!Slots -> SecretStore!Stored]
    BY <1>2, <2>1, <2>2 DEF SecretStore!Write
  <2>4. QED
    BY <1>2, <2>3 DEF SecretStore!Write
<1>3. CASE SecretStore!Export
  BY <1>3 DEF SecretStore!Export, SecretStore!Exported, SecretStore!Masked, SecretStore!Stored
<1>4. CASE SecretStore!Import
  BY <1>4 DEF SecretStore!Import, SecretStore!Travelled, SecretStore!Stored
<1>5. CASE SecretStore!Restart
  BY <1>5 DEF SecretStore!Restart
<1>6. CASE SecretStore!StartTool
  BY <1>6 DEF SecretStore!StartTool
<1>7. CASE SecretStore!WriteOne
  BY <1>7 DEF SecretStore!WriteOne, ToolIsOnCourse, SealedUnder, SecretStore!Stored
<1>8. CASE SecretStore!ReadBack \/ SecretStore!EndTool \/ SecretStore!StopTool
  BY <1>8 DEF SecretStore!ReadBack, SecretStore!EndTool, SecretStore!StopTool
<1>9. QED
  BY <1>1, <1>2, <1>3, <1>4, <1>5, <1>6, <1>7, <1>8 DEF SecretStore!Next

\* What others write beside the command goes into its account of them, and nothing else does.
LEMMA BesideOthers ==
    ASSUME ToolIsOnCourse, NEW S \in SUBSET SecretStore!Slots, S # {}, tool' = SecretStore!Beside(S)
    PROVE  /\ ToolIsOnCourse'
           /\ tool'.op = "write" => tool' = [tool EXCEPT !.others = tool.others \cup S]
           /\ tool'.op = tool.op
<1>1. CASE tool.op = "write"
  <2>1. tool' = [tool EXCEPT !.others = tool.others \cup S]
    BY <1>1 DEF SecretStore!Beside
  <2>2. QED
    BY <1>1, <2>1 DEF ToolIsOnCourse
<1>2. CASE tool.op # "write"
  BY <1>2 DEF SecretStore!Beside, ToolIsOnCourse
<1>3. QED
  BY <1>1, <1>2

\* The command writes what it planned, each document once, and reads every one back.
LEMMA ToolStep == ASSUME SecretInv, SecretStore!Next PROVE ToolIsOnCourse'
<1>1. ASSUME UNCHANGED tool PROVE ToolIsOnCourse'
  BY <1>1 DEF SecretInv, ToolIsOnCourse
<1>2. CASE SecretStore!StartTool
  <2>1. PICK new \in Keys, old \in Keys \cup {NoKey} :
           tool' = [op |-> IF SecretStore!Aborts(old) THEN "aborted" ELSE "write", new |-> new,
                    old |-> old,
                    plan |-> [s \in {t \in SecretStore!Slots : SecretStore!ToSeal(secret[t], old)} |->
                                SecretStore!Resealed(new, old, secret[s])],
                    left |-> {t \in SecretStore!Slots : SecretStore!ToSeal(secret[t], old)},
                    check |-> {}, unreadable |-> 0, others |-> {},
                    resumed |-> \E s \in SecretStore!Slots :
                                   secret[s].kind = "sealed" /\ secret[s].key = old]
    BY <1>2 DEF SecretStore!StartTool
  <2>2. \A s \in SecretStore!Slots : SecretStore!ToSeal(secret[s], old) =>
            SecretStore!Resealed(new, old, secret[s]) \in SealedUnder(new)
    BY PlanSeals DEF SecretInv, SecretTypes
  <2>3. QED
    BY <2>1, <2>2 DEF ToolIsOnCourse
<1>3. CASE SecretStore!WriteOne
  BY <1>3 DEF SecretStore!WriteOne, SecretInv, ToolIsOnCourse
<1>4. CASE SecretStore!ReadBack
  <2>1. PICK s \in tool.check :
           tool' = IF secret[s].kind = "sealed" /\ ~SecretStore!Opens(tool.new, secret[s])
                   THEN [tool EXCEPT !.op = "aborted"]
                   ELSE [tool EXCEPT !.check = {},
                           !.unreadable = IF secret[s] = tool.plan[s] THEN @ ELSE @ + 1]
    BY <1>4 DEF SecretStore!ReadBack
  <2>2. tool.op = "write" /\ (tool.others = {} => secret[s] = tool.plan[s])
    BY <1>4, <2>1 DEF SecretStore!ReadBack, SecretInv, ToolIsOnCourse, ToolAlone
  <2>3. CASE tool'.op = "write"
    <3>1. tool' = [tool EXCEPT !.check = {}, !.unreadable = tool'.unreadable]
      BY <2>1, <2>2, <2>3 DEF SecretInv, ToolIsOnCourse
    <3>2. tool.others = {} => tool'.unreadable = tool.unreadable
      BY <2>1, <2>2, <2>3 DEF SecretInv, ToolIsOnCourse
    <3>3. QED
      BY <2>2, <3>1, <3>2 DEF SecretInv, ToolIsOnCourse
  <2>4. QED
    BY <2>3 DEF ToolIsOnCourse
<1>5. CASE SecretStore!EndTool
  BY <1>5 DEF SecretStore!EndTool, SecretInv, ToolIsOnCourse
<1>6. CASE SecretStore!StopTool
  BY <1>6 DEF SecretStore!StopTool, SecretStore!Free, ToolIsOnCourse
<1>7. ASSUME NEW c \in SecretClients, SecretStore!Write(c) PROVE ToolIsOnCourse'
  <2>1. UNCHANGED tool \/ tool' = SecretStore!Beside({editor[c].slot})
    BY <1>7 DEF SecretStore!Write
  <2>2. editor[c].slot \in SecretStore!Slots
    BY <1>7 DEF SecretStore!Write, SecretInv, SecretTypes, SecretStore!Free
  <2>3. QED
    BY <2>1, <2>2, <1>1, BesideOthers DEF SecretInv
<1>8. CASE SecretStore!Import
  <2>1. CASE SecretStore!Slots = {}
    BY <1>8, <2>1 DEF SecretStore!Import, SecretStore!Beside, SecretInv, ToolIsOnCourse
  <2>2. QED
    BY <1>8, <2>1, BesideOthers DEF SecretStore!Import, SecretInv
<1>9. QED
  BY <1>1, <1>2, <1>3, <1>4, <1>5, <1>6, <1>7, <1>8 DEF SecretStore!Next, SecretStore!Read,
     SecretStore!Export, SecretStore!Restart

\* What the command writes it planned from what the slot had, and others account for theirs.
LEMMA AloneStep == ASSUME SecretInv, SecretStore!Next PROVE ToolAlone'
<1>1. ASSUME UNCHANGED <<tool, secret>> PROVE ToolAlone'
  BY <1>1 DEF SecretInv, ToolAlone
<1>2. ASSUME NEW c \in SecretClients, SecretStore!Write(c) PROVE ToolAlone'
  <2>1. editor[c].slot \in SecretStore!Slots
    BY <1>2 DEF SecretStore!Write, SecretInv, SecretTypes, SecretStore!Free
  <2>2. CASE UNCHANGED secret /\ UNCHANGED tool
    BY <1>1, <2>2
  <2>3. CASE /\ tool' = SecretStore!Beside({editor[c].slot})
             /\ \E x : secret' = [secret EXCEPT ![editor[c].slot] = x]
    <3>1. tool'.op = "write" => tool' = [tool EXCEPT !.others = tool.others \cup {editor[c].slot}]
      BY <2>1, <2>3, BesideOthers DEF SecretInv
    <3>2. tool'.op = tool.op
      BY <2>1, <2>3, BesideOthers DEF SecretInv
    <3>3. QED
      BY <2>1, <2>3, <3>1, <3>2 DEF SecretInv, SecretTypes, ToolAlone, ToolIsOnCourse
  <2>4. QED
    BY <1>2, <2>2, <2>3 DEF SecretStore!Write
<1>3. CASE SecretStore!Import
  <2>1. CASE tool.op = "write"
    <3>1. tool' = [tool EXCEPT !.others = tool.others \cup SecretStore!Slots]
      BY <1>3, <2>1 DEF SecretStore!Import, SecretStore!Beside
    <3>2. tool'.others = tool.others \cup SecretStore!Slots
      BY <2>1, <3>1 DEF SecretInv, ToolIsOnCourse
    <3>3. QED
      BY <3>2 DEF ToolAlone
  <2>2. CASE tool.op # "write"
    BY <1>3, <2>2 DEF SecretStore!Import, SecretStore!Beside, ToolAlone
  <2>3. QED
    BY <2>1, <2>2
<1>4. CASE SecretStore!StartTool
  <2>1. PICK new \in Keys, old \in Keys \cup {NoKey} :
           /\ tool'.new = new /\ tool'.old = old
           /\ tool'.left = {t \in SecretStore!Slots : SecretStore!ToSeal(secret[t], old)}
           /\ tool'.plan = [s \in {t \in SecretStore!Slots : SecretStore!ToSeal(secret[t], old)} |->
                               SecretStore!Resealed(new, old, secret[s])]
    BY <1>4 DEF SecretStore!StartTool
  <2>2. \A s \in SecretStore!Slots : SecretStore!ToSeal(secret[s], old) =>
           /\ secret[s].kind # "unset"
           /\ SecretStore!Resealed(new, old, secret[s]) = SecretStore!Sealed(new, secret[s].value)
    BY DEF SecretStore!ToSeal, SecretStore!Resealed
  <2>3. \A s \in SecretStore!Slots : ~SecretStore!ToSeal(secret[s], old) =>
           secret[s] = SecretStore!Unset \/ (old = NoKey /\ secret[s].kind = "sealed")
    BY StoredKinds DEF SecretInv, SecretTypes, SecretStore!ToSeal
  <2>4. UNCHANGED secret /\ DOMAIN tool'.plan = tool'.left
    BY <1>4, <2>1 DEF SecretStore!StartTool
  <2>5. \A s \in SecretStore!Slots : s \in tool'.left =>
           tool'.plan[s] = SecretStore!Sealed(tool'.new, secret'[s].value)
    BY <2>1, <2>2, <2>4
  <2>6. QED
    BY <2>1, <2>2, <2>3, <2>4, <2>5 DEF ToolAlone
<1>5. CASE SecretStore!WriteOne
  <2>1. PICK s \in tool.left :
           /\ secret' = [secret EXCEPT ![s] = tool.plan[s]]
           /\ tool' = [tool EXCEPT !.left = @ \ {s}, !.check = {s}]
    BY <1>5 DEF SecretStore!WriteOne
  <2>2. s \in SecretStore!Slots /\ s \in DOMAIN tool.plan /\ tool.op = "write"
    BY <1>5, <2>1 DEF SecretStore!WriteOne, SecretInv, ToolIsOnCourse
  <2>3. /\ tool'.left = tool.left \ {s} /\ tool'.plan = tool.plan /\ tool'.others = tool.others
        /\ tool'.old = tool.old /\ tool'.new = tool.new
    BY <2>1, <2>2 DEF SecretInv, ToolIsOnCourse
  <2>4. QED
    BY <2>1, <2>2, <2>3 DEF SecretInv, SecretTypes, ToolAlone
<1>6. CASE SecretStore!ReadBack
  <2>1. UNCHANGED secret /\ tool.op = "write"
    BY <1>6 DEF SecretStore!ReadBack
  <2>2. /\ tool'.left = tool.left /\ tool'.plan = tool.plan /\ tool'.others = tool.others
        /\ tool'.old = tool.old /\ tool'.new = tool.new
    BY <1>6 DEF SecretStore!ReadBack, SecretInv, ToolIsOnCourse
  <2>3. QED
    BY <2>1, <2>2 DEF SecretInv, ToolAlone
<1>7. CASE SecretStore!EndTool \/ SecretStore!StopTool
  <2>1. tool'.op # "write"
    BY <1>7 DEF SecretStore!EndTool, SecretStore!StopTool, SecretStore!Free, SecretInv,
       ToolIsOnCourse
  <2>2. QED
    BY <2>1 DEF ToolAlone
<1>8. QED
  BY <1>1, <1>2, <1>3, <1>4, <1>5, <1>6, <1>7 DEF SecretStore!Next, SecretStore!Read,
     SecretStore!Export, SecretStore!Restart

\* What a step writes in the clear, a request or an export had read in the clear.
LEMMA OnlyWhatWasClear == ASSUME SecretInv, SecretStore!Next PROVE SecretStore!NothingNewInTheClear
<1> SUFFICES ASSUME NEW s \in SecretStore!Slots, secret'[s].kind = "plain", secret'[s] # secret[s]
             PROVE  \/ \E c \in SecretClients : editor[c].op = "write" /\ editor[c].read = secret'[s]
                    \/ file[s] = secret'[s]
  BY DEF SecretStore!NothingNewInTheClear
<1> USE DEF SecretInv, SecretTypes
<1>1. ASSUME NEW c \in SecretClients, SecretStore!Write(c)
      PROVE  editor[c].op = "write" /\ editor[c].read = secret'[s]
  <2> DEFINE new == SecretStore!ForStorage(editor[c].sent, editor[c].read, key)
  <2>1. /\ editor[c].slot \in SecretStore!Slots /\ editor[c].sent \in SecretStore!Sendable
        /\ editor[c].read \in SecretStore!Stored /\ editor[c].op = "write"
    BY <1>1 DEF SecretStore!Write, SecretStore!Free
  <2>2. new # {} /\ s = editor[c].slot /\ secret'[s] = CHOOSE v \in new : TRUE
    BY <1>1, <2>1 DEF SecretStore!Write
  <2>3. secret'[s] \in new
    BY <2>2
  <2>4. QED
    BY <2>1, <2>3, StorageSeals
<1>2. CASE SecretStore!Import
  BY <1>2 DEF SecretStore!Import, SecretStore!Travelled, SecretStore!Unset
<1>3. CASE SecretStore!WriteOne
  <2>1. PICK t \in tool.left : secret' = [secret EXCEPT ![t] = tool.plan[t]]
    BY <1>3 DEF SecretStore!WriteOne
  <2>2. tool.plan[t].kind = "sealed"
    BY <1>3, <2>1 DEF SecretStore!WriteOne, ToolIsOnCourse, SealedUnder, SecretStore!Sealed
  <2>3. QED
    BY <2>1, <2>2
<1>4. QED
  BY <1>1, <1>2, <1>3 DEF SecretStore!Next, SecretStore!Read, SecretStore!Export,
     SecretStore!Restart, SecretStore!StartTool, SecretStore!ReadBack, SecretStore!EndTool,
     SecretStore!StopTool

\* The command that ends has written all it planned.
LEMMA ToolLeavesNoneClear ==
    ASSUME SecretInv, SecretStore!Next PROVE SecretStore!SealedAfterTheTool
<1> SUFFICES ASSUME tool.op = "write", tool'.op = "ended"
             PROVE  /\ tool.others = {} => tool'.unreadable = 0
                    /\ \A s \in SecretStore!Slots \ tool.others :
                          \/ secret[s] = SecretStore!Unset
                          \/ secret[s].kind = "sealed" /\ secret[s].key = tool.new
                          \/ /\ tool.old = NoKey /\ secret[s].kind = "sealed"
                             /\ s \notin DOMAIN tool.plan
  BY DEF SecretStore!SealedAfterTheTool
<1>1. SecretStore!EndTool
  <2>1. ASSUME UNCHANGED tool PROVE FALSE
    BY <2>1
  <2>2. ASSUME NEW S, tool' = SecretStore!Beside(S) PROVE FALSE
    BY <2>2 DEF SecretStore!Beside, SecretInv, ToolIsOnCourse
  <2>3. ~SecretStore!StartTool
    BY DEF SecretStore!StartTool
  <2>4. ~SecretStore!WriteOne
    BY DEF SecretStore!WriteOne, SecretInv, ToolIsOnCourse
  <2>5. ~SecretStore!ReadBack
    BY DEF SecretStore!ReadBack, SecretInv, ToolIsOnCourse
  <2>6. ~SecretStore!StopTool
    BY DEF SecretStore!StopTool, SecretStore!Free
  <2>7. QED
    BY <2>1, <2>2, <2>3, <2>4, <2>5, <2>6 DEF SecretStore!Next, SecretStore!Read,
       SecretStore!Write, SecretStore!Export, SecretStore!Import, SecretStore!Restart
<1>2. tool.left = {} /\ tool'.unreadable = tool.unreadable
  BY <1>1 DEF SecretStore!EndTool, SecretInv, ToolIsOnCourse
<1>3. \A s \in DOMAIN tool.plan :
          tool.plan[s].kind = "sealed" /\ tool.plan[s].key = tool.new
  BY DEF SecretInv, ToolIsOnCourse, SealedUnder, SecretStore!Sealed
<1>4. QED
  BY <1>2, <1>3 DEF SecretInv, ToolIsOnCourse, ToolAlone

\* What the command writes is the secret that was there, under the new key.
LEMMA ToolKeepsTheSecrets ==
    ASSUME SecretInv, SecretStore!Next PROVE SecretStore!HalfWayKeepsTheSecrets
<1> SUFFICES ASSUME NEW s \in SecretStore!Slots, tool.op = "write", s \notin tool.others,
                    tool'.op # "free", s \notin tool'.others, secret'[s] # secret[s]
             PROVE  /\ secret[s].kind # "unset"
                    /\ secret'[s] = SecretStore!Sealed(tool.new, secret[s].value)
  BY DEF SecretStore!HalfWayKeepsTheSecrets
<1>1. ASSUME NEW c \in SecretClients, SecretStore!Write(c) PROVE FALSE
  <2>1. tool' = SecretStore!Beside({editor[c].slot}) /\ s = editor[c].slot
    BY <1>1 DEF SecretStore!Write, SecretInv, SecretTypes
  <2>2. QED
    BY <2>1 DEF SecretStore!Beside, SecretInv, ToolIsOnCourse
<1>2. CASE SecretStore!Import
  BY <1>2 DEF SecretStore!Import, SecretStore!Beside, SecretInv, ToolIsOnCourse
<1>3. CASE SecretStore!WriteOne
  <2>1. PICK t \in tool.left : secret' = [secret EXCEPT ![t] = tool.plan[t]]
    BY <1>3 DEF SecretStore!WriteOne
  <2>2. t = s /\ secret'[s] = tool.plan[s]
    BY <2>1 DEF SecretInv, SecretTypes
  <2>3. QED
    BY <2>1, <2>2 DEF SecretInv, ToolAlone
<1>4. QED
  BY <1>1, <1>2, <1>3 DEF SecretStore!Next, SecretStore!Read, SecretStore!Export,
     SecretStore!Restart, SecretStore!StartTool, SecretStore!ReadBack, SecretStore!EndTool,
     SecretStore!StopTool

\* The secrets' part of the suite keeps SecretInv, and no step of it breaks either promise.
LEMMA SecretsAlways == Spec => [](part = "secrets" => SecretInv)
<1>1. Init => (part = "secrets" => SecretInv)
  BY SecretInit
<1>2. (part = "secrets" => SecretInv) /\ [Next]_vars => (part = "secrets" => SecretInv)'
  <2> SUFFICES ASSUME part = "secrets" => SecretInv, [Next]_vars, part' = "secrets"
               PROVE  SecretInv'
    OBVIOUS
  <2>1. part = "secrets"
    BY DEF Next, vars, CorporaStep, RealmStoreStep, RealmOverlapStep, SecretStoreStep,
         QuestionSetsStep, SettingsStep, PromptsStep, ExternalStep
  <2>2. CASE SecretStore!Next
    BY <2>1, <2>2, SecretTypeStep, ToolStep, AloneStep DEF SecretInv
  <2>3. CASE UNCHANGED secretsVars
    BY <2>1, <2>3 DEF SecretInv, SecretTypes, ToolIsOnCourse, ToolAlone, secretsVars
  <2>4. QED
    BY <2>1, <2>2, <2>3, SecretsStep
<1>3. QED
  BY <1>1, <1>2, PTL DEF Spec

\* For any slots, keys, secrets and clients, whatever writes overlap or are stopped: nothing is
\* added in the clear; a key command that ends leaves of the slots nobody else wrote since it
\* read them none in the clear, and a rotation none under another key; and stopped anywhere it
\* leaves each of them the secret it was (core/secrets.py, tools/realm_secrets.py).
THEOREM SecretsAreSealed == Spec => SecretsGetSealed
<1>1. ASSUME part = "secrets" => SecretInv, [Next]_vars
      PROVE  /\ [part = "secrets" => SecretStore!NothingNewInTheClear]_vars
             /\ [part = "secrets" => SecretStore!SealedAfterTheTool]_vars
             /\ [part = "secrets" => SecretStore!HalfWayKeepsTheSecrets]_vars
  <2> SUFFICES ASSUME part = "secrets", ~UNCHANGED vars
               PROVE  /\ SecretStore!NothingNewInTheClear /\ SecretStore!SealedAfterTheTool
                      /\ SecretStore!HalfWayKeepsTheSecrets
    OBVIOUS
  <2>1. SecretStore!Next
    BY <1>1 DEF Next, vars, CorporaStep, RealmStoreStep, RealmOverlapStep, SecretStoreStep,
         QuestionSetsStep, SettingsStep, PromptsStep, ExternalStep
  <2>2. QED
    BY <1>1, <2>1, OnlyWhatWasClear, ToolLeavesNoneClear, ToolKeepsTheSecrets
<1>2. QED
  BY <1>1, SecretsAlways, PTL DEF Spec, SecretsGetSealed

----------------------------------------------------------------------------
(* Corpora *)

\* Whom an edit may be about: Corpora!Targets.
Aims == {0} \cup UNION {Corpora!Targets(k) : k \in CorpusKinds}

CorpusRequests ==
    [kind : CorpusKinds \cup {"idle", "done"}, at : 1..6, found : BOOLEAN, target : Aims,
     seen : SUBSET Corpora!Backends, built : SUBSET Corpora!Backends, calm : BOOLEAN]

\* A request under way stands at one of its steps.
RequestsOK(how) ==
    /\ how \in [CorpusClients -> CorpusRequests]
    /\ \A c \in CorpusClients : how[c].kind \in CorpusKinds =>
           how[c].at \in DOMAIN Corpora!Program[how[c].kind]

CorpusTypes ==
    /\ Corpora!TypeOK
    /\ RequestsOK(loader)
    /\ cleared \subseteq {"dense", "sparse"}

\* A registration that found a record, and that no delete has met since, still has one to
\* write to: whoever would remove it is not past its own reading.
RecordIsStillThere ==
    \A c \in CorpusClients :
        (Corpora!At(c, "write") /\ loader[c].found /\ loader[c].calm) =>
            /\ records # {}
            /\ \A d \in CorpusClients : loader[d].kind \in {"soft", "hard"} => loader[d].at = 1

\* What a hard delete has dropped so far, with no load beside it, is gone.
DropsAreOnCourse ==
    \A c \in CorpusClients : (loader[c].kind = "hard" /\ loader[c].calm) =>
        /\ loader[c].at \in {3, 4} => {"dense"} \cap loader[c].seen \cap exists = {}
        /\ loader[c].at = 4 => {"sparse"} \cap loader[c].seen \cap exists = {}

CorpusInv ==
    /\ CorpusTypes /\ RecordIsStillThere /\ DropsAreOnCourse
    /\ Corpora!LastLoadIsListed /\ Corpora!HardDeleteDropsWhatItNamed

\* The steps of each kind of request, as its program has them.
LEMMA StepsOfKinds ==
    /\ DOMAIN Corpora!Program = {"ingest", "cli", "snapshot", "dump", "cypher", "external",
                                 "soft", "restore", "edit", "hard"}
    /\ Corpora!Program["ingest"] = <<"dense", "sparse", "find", "write", "find", "write">>
    /\ Corpora!Program["cli"] = <<"dense", "sparse", "find", "write">>
    /\ Corpora!Program["snapshot"] = <<"replace", "find", "write">>
    /\ Corpora!Program["dump"] = <<"bulk", "find", "write">>
    /\ Corpora!Program["cypher"] = <<"graph", "find", "write">>
    /\ Corpora!Program["external"] = <<"find", "write">>
    /\ Corpora!Program["soft"] = <<"look", "mark">>
    /\ Corpora!Program["restore"] = <<"look", "unmark">>
    /\ Corpora!Program["edit"] = <<"look", "describe">>
    /\ Corpora!Program["hard"] = <<"look", "dropdense", "dropsparse", "remove">>
  BY DEF Corpora!Program

LEMMA StepsFit ==
    ASSUME NEW k \in DOMAIN Corpora!Program
    PROVE  /\ Len(Corpora!Program[k]) \in 1..6
           /\ DOMAIN Corpora!Program[k] = 1..Len(Corpora!Program[k])
           /\ k \in {"soft", "restore", "edit"} => Len(Corpora!Program[k]) = 2
           /\ k = "hard" => Len(Corpora!Program[k]) = 4
           /\ k = "ingest" => Len(Corpora!Program[k]) = 6
           /\ \A i \in DOMAIN Corpora!Program[k] : i < Len(Corpora!Program[k]) =>
                  i + 1 \in DOMAIN Corpora!Program[k] /\ i + 1 \in 1..6
<1> DEFINE p == Corpora!Program[k]
<1>1. CASE k = "ingest"
  <2>1. p = <<"dense", "sparse", "find", "write", "find", "write">>
    BY <1>1, StepsOfKinds
  <2>2. Len(p) = 6 /\ DOMAIN p = 1..6
    BY <2>1
  <2>3. QED
    BY <1>1, <2>2
<1>2. CASE k \in {"cli", "hard"}
  <2>1. \/ p = <<"dense", "sparse", "find", "write">>
        \/ p = <<"look", "dropdense", "dropsparse", "remove">>
    BY <1>2, StepsOfKinds
  <2>2. Len(p) = 4 /\ DOMAIN p = 1..4
    BY <2>1
  <2>3. QED
    BY <1>2, <2>2
<1>3. CASE k \in {"snapshot", "dump", "cypher"}
  <2>1. \E s \in {"replace", "bulk", "graph"} : p = <<s, "find", "write">>
    BY <1>3, StepsOfKinds
  <2>2. Len(p) = 3 /\ DOMAIN p = 1..3
    BY <2>1
  <2>3. QED
    BY <1>3, <2>2
<1>4. CASE k \in {"external", "soft", "restore", "edit"}
  <2>1. \E s, t \in {"find", "write", "look", "mark", "unmark", "describe"} : p = <<s, t>>
    BY <1>4, StepsOfKinds
  <2>2. Len(p) = 2 /\ DOMAIN p = 1..2
    BY <2>1
  <2>3. QED
    BY <1>4, <2>2
<1>5. k \in {"ingest", "cli", "snapshot", "dump", "cypher", "external", "soft", "restore",
             "edit", "hard"}
  BY StepsOfKinds
<1>6. QED
  BY <1>1, <1>2, <1>3, <1>4, <1>5

\* Where a request stands when it is to register, and when it deletes.
LEMMA WhereItStands ==
    ASSUME NEW c \in CorpusClients
    PROVE  /\ Corpora!At(c, "write") => loader[c].kind \in Corpora!Loads
           /\ Corpora!At(c, "find") => loader[c].kind \in Corpora!Loads
           /\ Corpora!At(c, "look") =>
                  loader[c].kind \in {"soft", "restore", "edit", "hard"} /\ loader[c].at = 1
           /\ Corpora!At(c, "mark") => loader[c].kind = "soft" /\ loader[c].at = 2
           /\ Corpora!At(c, "dropdense") => loader[c].kind = "hard" /\ loader[c].at = 2
           /\ Corpora!At(c, "dropsparse") => loader[c].kind = "hard" /\ loader[c].at = 3
           /\ Corpora!At(c, "remove") => loader[c].kind = "hard" /\ loader[c].at = 4
  BY StepsOfKinds DEF Corpora!At, Corpora!Loads
\* A request with a field replaced is a request.
LEMMA RequestFields ==
    ASSUME NEW r \in CorpusRequests
    PROVE  /\ r.at \in 1..6 /\ r.calm \in BOOLEAN /\ r.found \in BOOLEAN
           /\ r.kind \in CorpusKinds \cup {"idle", "done"}
           /\ r.seen \subseteq Corpora!Backends /\ r.built \subseteq Corpora!Backends
  BY DEF CorpusRequests

LEMMA RequestAt ==
    ASSUME NEW r \in CorpusRequests, NEW i \in 1..6
    PROVE  LET q == [r EXCEPT !.at = i] IN
           /\ q \in CorpusRequests
           /\ q.at = i /\ q.kind = r.kind /\ q.seen = r.seen /\ q.built = r.built
           /\ q.calm = r.calm /\ q.found = r.found
  BY DEF CorpusRequests

LEMMA RequestCalm ==
    ASSUME NEW r \in CorpusRequests, NEW calm \in BOOLEAN
    PROVE  LET q == [r EXCEPT !.calm = calm] IN
           /\ q \in CorpusRequests
           /\ q.at = r.at /\ q.kind = r.kind /\ q.seen = r.seen /\ q.built = r.built
           /\ q.calm = calm /\ q.found = r.found
  BY DEF CorpusRequests

LEMMA RequestBuilt ==
    ASSUME NEW r \in CorpusRequests, NEW built \in SUBSET Corpora!Backends
    PROVE  LET q == [r EXCEPT !.built = built] IN
           /\ q \in CorpusRequests
           /\ q.at = r.at /\ q.kind = r.kind /\ q.seen = r.seen /\ q.built = built
           /\ q.calm = r.calm /\ q.found = r.found
  BY DEF CorpusRequests

LEMMA RequestBegun ==
    ASSUME NEW r \in CorpusRequests, NEW k \in CorpusKinds, NEW target \in Aims
    PROVE  LET q == [r EXCEPT !.kind = k, !.target = target] IN
           q \in CorpusRequests /\ q.kind = k /\ q.at = r.at /\ q.calm = r.calm
  BY DEF CorpusRequests

\* Nobody, and a request that has ended.
LEMMA RequestRests ==
    /\ Corpora!Idle \in CorpusRequests /\ Corpora!Done \in CorpusRequests
    /\ Corpora!Idle.kind = "idle" /\ Corpora!Idle.at = 1 /\ Corpora!Done.kind = "done"
    /\ "done" \notin CorpusKinds /\ "idle" \notin CorpusKinds
<1>1. "done" \notin CorpusKinds /\ "idle" \notin CorpusKinds
  BY CorporaAssumption, StepsOfKinds DEF CorporaAssumption, Corpora!KindsAssumption
<1>2. Corpora!Idle \in CorpusRequests /\ Corpora!Idle.kind = "idle" /\ Corpora!Idle.at = 1
  BY DEF Corpora!Idle, Aims, Corpora!Backends, CorpusRequests
<1>3. Corpora!Done \in CorpusRequests /\ Corpora!Done.kind = "done"
  BY <1>2 DEF Corpora!Done, CorpusRequests
<1>4. QED
  BY <1>1, <1>2, <1>3

\* A request goes on to its next step, or is done; its neighbours stay where they are.
LEMMA RequestMoves ==
    ASSUME RequestsOK(loader), NEW c \in CorpusClients, NEW s, Corpora!At(c, s)
    PROVE  /\ RequestsOK(Corpora!Advance(c)) /\ RequestsOK(Corpora!Ends(c))
           /\ Corpora!Ends(c)[c].kind = "done"
           /\ \/ Corpora!Advance(c)[c].kind = "done"
              \/ /\ Corpora!Advance(c)[c] = [loader[c] EXCEPT !.at = @ + 1]
                 /\ loader[c].at + 1 \in DOMAIN Corpora!Program[loader[c].kind]
           /\ \A d \in CorpusClients \ {c} :
                  Corpora!Advance(c)[d] = loader[d] /\ Corpora!Ends(c)[d] = loader[d]
<1> USE DEF RequestsOK
<1> DEFINE k == loader[c].kind
<1>1. k \in CorpusKinds /\ k \in DOMAIN Corpora!Program /\ loader[c].at \in DOMAIN Corpora!Program[k]
  <2>1. k \in DOMAIN Corpora!Program /\ loader[c].at \in DOMAIN Corpora!Program[k]
    BY DEF Corpora!At
  <2>2. k \in CorpusKinds \cup {"idle", "done"}
    BY RequestFields
  <2>3. QED
    BY <2>1, <2>2, StepsOfKinds
<1>2. Corpora!Ends(c) = [loader EXCEPT ![c] = Corpora!Done]
  BY DEF Corpora!Ends
<1>3. RequestsOK(Corpora!Ends(c)) /\ Corpora!Ends(c)[c].kind = "done"
  BY <1>2, RequestRests
<1>4. CASE loader[c].at < Len(Corpora!Program[k])
  <2>1. Corpora!Advance(c) = [loader EXCEPT ![c] = [loader[c] EXCEPT !.at = @ + 1]]
    BY <1>4 DEF Corpora!Advance
  <2>3. loader[c].at + 1 \in DOMAIN Corpora!Program[k] /\ loader[c].at + 1 \in 1..6
    BY <1>1, <1>4, StepsFit
  <2>4. /\ [loader[c] EXCEPT !.at = @ + 1] \in CorpusRequests
        /\ [loader[c] EXCEPT !.at = @ + 1].at = loader[c].at + 1
        /\ [loader[c] EXCEPT !.at = @ + 1].kind = k
    <3>1. loader[c] \in CorpusRequests
      OBVIOUS
    <3>2. QED
      BY <2>3, <3>1, RequestAt
  <2>5. RequestsOK(Corpora!Advance(c))
    BY <2>1, <2>3, <2>4
  <2>6. QED
    BY <1>2, <1>3, <2>1, <2>3, <2>5
<1>5. CASE ~(loader[c].at < Len(Corpora!Program[k]))
  BY <1>2, <1>3, <1>5 DEF Corpora!Advance
<1>6. QED
  BY <1>4, <1>5

\* A load that writes fragments disturbs the hard deletes under way, and nobody else.
LEMMA DisturbMoves ==
    ASSUME RequestsOK(loader), NEW c \in CorpusClients, NEW s, Corpora!At(c, s),
           loader[c].kind # "hard",
           NEW how, RequestsOK(how), \A d \in CorpusClients \ {c} : how[d] = loader[d]
    PROVE  /\ RequestsOK(Corpora!Disturb(how))
           /\ Corpora!Disturb(how)[c] = how[c]
           /\ \A d \in CorpusClients \ {c} :
                  IF loader[d].kind = "hard"
                  THEN Corpora!Disturb(how)[d] = [loader[d] EXCEPT !.calm = FALSE]
                  ELSE Corpora!Disturb(how)[d] = loader[d]
<1> USE DEF RequestsOK
<1>1. \A d \in CorpusClients : d \in Corpora!Under({"hard"}) <=> loader[d].kind = "hard"
  <2> SUFFICES ASSUME NEW d \in CorpusClients, loader[d].kind = "hard"
               PROVE  loader[d].at \in DOMAIN Corpora!Program[loader[d].kind]
    BY DEF Corpora!Under
  <2>1. loader[d].kind \in CorpusKinds
    BY RequestFields
  <2>2. QED
    BY <2>1
<1>2. Corpora!Disturb(how) = [d \in CorpusClients |->
          IF loader[d].kind = "hard" THEN [how[d] EXCEPT !.calm = FALSE] ELSE how[d]]
  BY <1>1 DEF Corpora!Disturb
<1>3. \A d \in CorpusClients : /\ [how[d] EXCEPT !.calm = FALSE] \in CorpusRequests
                              /\ [how[d] EXCEPT !.calm = FALSE].kind = how[d].kind
                              /\ [how[d] EXCEPT !.calm = FALSE].at = how[d].at
  BY RequestCalm
<1>4. RequestsOK(Corpora!Disturb(how))
  BY <1>2, <1>3
<1>5. QED
  BY <1>2, <1>4

\* A load notes what it has built.
LEMMA BuiltMoves ==
    ASSUME NEW how, RequestsOK(how), NEW c \in CorpusClients,
           NEW built \in SUBSET Corpora!Backends
    PROVE  LET noted == [how EXCEPT ![c].built = built] IN
           /\ RequestsOK(noted)
           /\ noted[c].kind = how[c].kind /\ noted[c].at = how[c].at
           /\ \A d \in CorpusClients \ {c} : noted[d] = how[d]
<1> DEFINE q == [how[c] EXCEPT !.built = built]  noted == [how EXCEPT ![c] = q]
<1>1. how[c] \in CorpusRequests
  BY DEF RequestsOK
<1>2. q \in CorpusRequests /\ q.kind = how[c].kind /\ q.at = how[c].at
  BY <1>1, RequestBuilt
<1>3. QED
  BY <1>2 DEF RequestsOK

\* What a step of a load may touch: its own request, the calm of the hard deletes, and the
\* indexes; where it adds an index, no hard delete is calm.
LoadTouches(c) ==
    /\ RequestsOK(loader')
    /\ loader'[c].kind \in Corpora!Loads \cup {"done"} /\ ~Corpora!At(c, "write")'
    /\ \A d \in CorpusClients \ {c} :
           \/ loader'[d] = loader[d]
           \/ loader[d].kind = "hard" /\ loader'[d] = [loader[d] EXCEPT !.calm = FALSE]
    /\ \/ exists' \subseteq exists /\ cleared' = cleared
       \/ /\ cleared' = {}
          /\ \A d \in CorpusClients \ {c} :
                 loader[d].kind = "hard" => loader'[d] = [loader[d] EXCEPT !.calm = FALSE]
    /\ exists' \subseteq Corpora!Backends \ {"graph"}
    /\ held' \in [Corpora!Backends -> SUBSET CorpusClients]
    /\ \A b \in {"dense", "sparse"} : b \notin exists' => held'[b] = {}
    /\ UNCHANGED <<records, inserted, listedLoads>>

\* Where the request of a load stands after a step that is no registration.
LEMMA LoadGoesOn ==
    ASSUME RequestsOK(loader), NEW c \in CorpusClients,
           NEW s \in {"dense", "sparse", "replace", "bulk", "graph"}, Corpora!At(c, s)
    PROVE  /\ loader[c].kind \in Corpora!Loads /\ loader[c].kind # "hard"
           /\ loader[c].at + 1 \in DOMAIN Corpora!Program[loader[c].kind] =>
                  Corpora!Program[loader[c].kind][loader[c].at + 1] # "write"
  BY StepsOfKinds DEF Corpora!At, Corpora!Loads

\* Where a load's step leaves the requests before it disturbs any.
LoadLeaves(c, how) ==
    /\ RequestsOK(how) /\ \A d \in CorpusClients \ {c} : how[d] = loader[d]
    /\ how[c].kind \in Corpora!Loads \cup {"done"}
    /\ ~ /\ how[c].kind \in DOMAIN Corpora!Program
         /\ how[c].at \in DOMAIN Corpora!Program[how[c].kind]
         /\ Corpora!Program[how[c].kind][how[c].at] = "write"

LEMMA LoadsLeave ==
    ASSUME RequestsOK(loader), NEW c \in CorpusClients,
           NEW s \in {"dense", "sparse", "replace", "bulk", "graph"}, Corpora!At(c, s)
    PROVE  /\ LoadLeaves(c, Corpora!Advance(c)) /\ LoadLeaves(c, Corpora!Ends(c))
           /\ \A built \in SUBSET Corpora!Backends :
                  LoadLeaves(c, [Corpora!Advance(c) EXCEPT ![c].built = built])
           /\ LoadLeaves(c, [Corpora!Advance(c) EXCEPT ![c].built = @ \cup {"sparse"}])
<1>1. "done" \notin DOMAIN Corpora!Program
  BY StepsOfKinds
<1>2. LoadLeaves(c, Corpora!Ends(c))
  BY <1>1, RequestMoves DEF LoadLeaves
<1>3. LoadLeaves(c, Corpora!Advance(c))
  <2>1. CASE Corpora!Advance(c)[c].kind = "done"
    BY <1>1, <2>1, RequestMoves DEF LoadLeaves
  <2>2. CASE /\ Corpora!Advance(c)[c] = [loader[c] EXCEPT !.at = @ + 1]
             /\ loader[c].at + 1 \in DOMAIN Corpora!Program[loader[c].kind]
    <3>1. /\ Corpora!Advance(c)[c].kind = loader[c].kind
          /\ Corpora!Advance(c)[c].at = loader[c].at + 1
      BY <2>2 DEF RequestsOK, CorpusRequests
    <3>2. QED
      BY <2>2, <3>1, LoadGoesOn, RequestMoves DEF LoadLeaves
  <2>3. QED
    BY <2>1, <2>2, RequestMoves
<1>4. ASSUME NEW built \in SUBSET Corpora!Backends
      PROVE  LoadLeaves(c, [Corpora!Advance(c) EXCEPT ![c].built = built])
  BY <1>3, BuiltMoves DEF LoadLeaves
<1>5. LoadLeaves(c, [Corpora!Advance(c) EXCEPT ![c].built = @ \cup {"sparse"}])
  <2>1. Corpora!Advance(c)[c].built \cup {"sparse"} \in SUBSET Corpora!Backends
    BY <1>3, RequestFields DEF LoadLeaves, RequestsOK, Corpora!Backends
  <2>2. QED
    BY <1>4, <2>1
<1>6. QED
  BY <1>2, <1>3, <1>4, <1>5

\* The requests' share of LoadTouches, with nothing disturbed and with the hard deletes disturbed.
LEMMA LeftAlone ==
    ASSUME NEW c \in CorpusClients, NEW how, LoadLeaves(c, how), loader' = how
    PROVE  /\ RequestsOK(loader')
           /\ loader'[c].kind \in Corpora!Loads \cup {"done"} /\ ~Corpora!At(c, "write")'
           /\ \A d \in CorpusClients \ {c} : loader'[d] = loader[d]
  BY DEF LoadLeaves, Corpora!At

LEMMA LeftDisturbed ==
    ASSUME RequestsOK(loader), NEW c \in CorpusClients, NEW s, Corpora!At(c, s),
           loader[c].kind # "hard",
           NEW how, LoadLeaves(c, how), loader' = Corpora!Disturb(how)
    PROVE  /\ RequestsOK(loader')
           /\ loader'[c].kind \in Corpora!Loads \cup {"done"} /\ ~Corpora!At(c, "write")'
           /\ \A d \in CorpusClients \ {c} :
                  IF loader[d].kind = "hard" THEN loader'[d] = [loader[d] EXCEPT !.calm = FALSE]
                                             ELSE loader'[d] = loader[d]
<1>1. RequestsOK(how) /\ \A d \in CorpusClients \ {c} : how[d] = loader[d]
  BY DEF LoadLeaves
<1>2. /\ RequestsOK(loader') /\ loader'[c] = how[c]
      /\ \A d \in CorpusClients \ {c} :
             IF loader[d].kind = "hard" THEN loader'[d] = [loader[d] EXCEPT !.calm = FALSE]
                                        ELSE loader'[d] = loader[d]
  BY <1>1, DisturbMoves
<1>3. QED
  BY <1>2 DEF LoadLeaves, Corpora!At

\* Every step of a load, the refused and the half-done ones too.
LEMMA LoadsTouch ==
    ASSUME CorpusTypes, NEW c \in CorpusClients, Corpora!LoadStep(c) PROVE LoadTouches(c)
<1> DEFINE Fitting == /\ exists' \subseteq Corpora!Backends \ {"graph"}
                      /\ held' \in [Corpora!Backends -> SUBSET CorpusClients]
                      /\ \A b \in {"dense", "sparse"} : b \notin exists' => held'[b] = {}
<1> USE DEF CorpusTypes, Corpora!TypeOK
<1>1. CASE Corpora!LoadDense(c)
  <2>1. Fitting /\ UNCHANGED <<records, inserted, listedLoads>> /\ cleared' = {}
    BY <1>1 DEF Corpora!LoadDense, Corpora!Backends
  <2>2. PICK how \in {[Corpora!Advance(c) EXCEPT ![c].built = {"dense"}], Corpora!Ends(c)} :
           loader' = Corpora!Disturb(how)
    BY <1>1 DEF Corpora!LoadDense
  <2>3. Corpora!At(c, "dense") /\ {"dense"} \in SUBSET Corpora!Backends
    BY <1>1 DEF Corpora!LoadDense, Corpora!Backends
  <2>4. /\ LoadLeaves(c, [Corpora!Advance(c) EXCEPT ![c].built = {"dense"}])
        /\ LoadLeaves(c, Corpora!Ends(c)) /\ loader[c].kind # "hard"
    BY <2>3, LoadsLeave, LoadGoesOn
  <2>5. LoadLeaves(c, how)
    BY <2>2, <2>4
  <2>6. QED
    BY <2>1, <2>2, <2>3, <2>4, <2>5, LeftDisturbed DEF LoadTouches
<1>2. CASE Corpora!LoadSparse(c)
  <2>1. Fitting /\ UNCHANGED <<records, inserted, listedLoads>>
    BY <1>2 DEF Corpora!LoadSparse, Corpora!Backends
  <2>2. Corpora!At(c, "sparse")
    BY <1>2 DEF Corpora!LoadSparse
  <2>3. \/ \E how \in {[Corpora!Advance(c) EXCEPT ![c].built = @ \cup {"sparse"}], Corpora!Ends(c)} :
              loader' = Corpora!Disturb(how) /\ cleared' = {}
        \/ /\ loader' \in {Corpora!Advance(c), Corpora!Ends(c)}
           /\ UNCHANGED <<exists, cleared>>
    BY <1>2 DEF Corpora!LoadSparse
  <2>4. /\ LoadLeaves(c, Corpora!Advance(c)) /\ LoadLeaves(c, Corpora!Ends(c))
        /\ LoadLeaves(c, [Corpora!Advance(c) EXCEPT ![c].built = @ \cup {"sparse"}])
        /\ loader[c].kind # "hard"
    BY <2>2, LoadsLeave, LoadGoesOn
  <2>5. CASE /\ loader' \in {Corpora!Advance(c), Corpora!Ends(c)}
             /\ UNCHANGED <<exists, cleared>>
    BY <2>1, <2>4, <2>5, LeftAlone DEF LoadTouches
  <2>6. CASE \E how \in {[Corpora!Advance(c) EXCEPT ![c].built = @ \cup {"sparse"}],
                         Corpora!Ends(c)} :
                 loader' = Corpora!Disturb(how) /\ cleared' = {}
    <3>1. PICK how \in {[Corpora!Advance(c) EXCEPT ![c].built = @ \cup {"sparse"}],
                        Corpora!Ends(c)} :
                 loader' = Corpora!Disturb(how) /\ cleared' = {}
      BY <2>6
    <3>2. LoadLeaves(c, how)
      BY <2>4, <3>1
    <3>3. QED
      BY <2>1, <2>2, <2>4, <3>1, <3>2, LeftDisturbed DEF LoadTouches
  <2>7. QED
    BY <2>3, <2>5, <2>6
<1>3. CASE Corpora!ReplaceDense(c)
  <2>1. Fitting /\ UNCHANGED <<records, inserted, listedLoads>>
    BY <1>3 DEF Corpora!ReplaceDense, Corpora!Backends
  <2>2. Corpora!At(c, "replace") /\ {"dense"} \in SUBSET Corpora!Backends
    BY <1>3 DEF Corpora!ReplaceDense, Corpora!Backends
  <2>3. /\ LoadLeaves(c, [Corpora!Advance(c) EXCEPT ![c].built = {"dense"}])
        /\ LoadLeaves(c, Corpora!Ends(c)) /\ loader[c].kind # "hard"
    BY <2>2, LoadsLeave, LoadGoesOn
  <2>4. CASE loader' = Corpora!Ends(c) /\ UNCHANGED <<exists, cleared>>
    BY <2>1, <2>3, <2>4, LeftAlone DEF LoadTouches
  <2>5. CASE /\ loader' = Corpora!Disturb([Corpora!Advance(c) EXCEPT ![c].built = {"dense"}])
             /\ cleared' = {}
    BY <2>1, <2>2, <2>3, <2>5, LeftDisturbed DEF LoadTouches
  <2>6. QED
    BY <1>3, <2>4, <2>5 DEF Corpora!ReplaceDense
<1>4. CASE Corpora!BulkSparse(c)
  <2>1. Fitting /\ UNCHANGED <<records, inserted, listedLoads>>
    BY <1>4 DEF Corpora!BulkSparse, Corpora!Backends
  <2>2. Corpora!At(c, "bulk") /\ {"sparse"} \in SUBSET Corpora!Backends
    BY <1>4 DEF Corpora!BulkSparse, Corpora!Backends
  <2>3. /\ LoadLeaves(c, [Corpora!Advance(c) EXCEPT ![c].built = {"sparse"}])
        /\ LoadLeaves(c, Corpora!Ends(c)) /\ loader[c].kind # "hard"
    BY <2>2, LoadsLeave, LoadGoesOn
  <2>4. CASE loader' = Corpora!Ends(c) /\ exists' \subseteq exists /\ cleared' = cleared
    BY <2>1, <2>3, <2>4, LeftAlone DEF LoadTouches
  <2>5. CASE \E how \in {[Corpora!Advance(c) EXCEPT ![c].built = {"sparse"}], Corpora!Ends(c)} :
                loader' = Corpora!Disturb(how) /\ cleared' = {}
    BY <2>1, <2>2, <2>3, <2>5, LeftDisturbed DEF LoadTouches
  <2>6. QED
    BY <1>4, <2>4, <2>5 DEF Corpora!BulkSparse
<1>5. CASE Corpora!LoadGraph(c)
  <2>1. Fitting /\ UNCHANGED <<records, inserted, listedLoads, exists, cleared>>
    BY <1>5 DEF Corpora!LoadGraph, Corpora!Backends, Corpora!histories
  <2>2. Corpora!At(c, "graph") /\ {"graph"} \in SUBSET Corpora!Backends
    BY <1>5 DEF Corpora!LoadGraph, Corpora!Backends
  <2>3. /\ LoadLeaves(c, [Corpora!Advance(c) EXCEPT ![c].built = {"graph"}])
        /\ LoadLeaves(c, Corpora!Ends(c))
    BY <2>2, LoadsLeave
  <2>4. loader' \in {[Corpora!Advance(c) EXCEPT ![c].built = {"graph"}], Corpora!Ends(c)}
    BY <1>5 DEF Corpora!LoadGraph
  <2>5. QED
    BY <2>1, <2>3, <2>4, LeftAlone DEF LoadTouches
<1>6. QED
  BY <1>1, <1>2, <1>3, <1>4, <1>5 DEF Corpora!LoadStep

\* Of the two invariants over the requests, what a step of one request leaves to show: its own
\* share, where its neighbours stand still, no index is added and a record is left if there was one.
StillThere(c) ==
    (Corpora!At(c, "write") /\ loader[c].found /\ loader[c].calm) =>
        /\ records # {}
        /\ \A d \in CorpusClients : loader[d].kind \in {"soft", "hard"} => loader[d].at = 1
OnCourse(c) ==
    (loader[c].kind = "hard" /\ loader[c].calm) =>
        /\ loader[c].at \in {3, 4} => {"dense"} \cap loader[c].seen \cap exists = {}
        /\ loader[c].at = 4 => {"sparse"} \cap loader[c].seen \cap exists = {}

LEMMA NeighboursStay ==
    ASSUME CorpusInv, NEW c \in CorpusClients,
           \A d \in CorpusClients \ {c} : loader'[d] = loader[d],
           exists' \subseteq exists, records # {} => records' # {},
           loader'[c].kind \in {"soft", "hard"} =>
               loader'[c].at = 1 \/ (loader[c].kind \in {"soft", "hard"} /\ loader[c].at # 1),
           StillThere(c)', OnCourse(c)'
    PROVE  RecordIsStillThere' /\ DropsAreOnCourse'
<1>1. ASSUME NEW d \in CorpusClients \ {c} PROVE StillThere(d)'
  <2> SUFFICES ASSUME Corpora!At(d, "write")', loader'[d].found, loader'[d].calm
               PROVE  /\ records' # {}
                      /\ \A e \in CorpusClients :
                             loader'[e].kind \in {"soft", "hard"} => loader'[e].at = 1
    BY DEF StillThere
  <2>1. Corpora!At(d, "write") /\ loader[d].found /\ loader[d].calm
    BY DEF Corpora!At
  <2>2. QED
    BY <2>1 DEF CorpusInv, RecordIsStillThere
<1>2. ASSUME NEW d \in CorpusClients \ {c} PROVE OnCourse(d)'
  BY DEF CorpusInv, DropsAreOnCourse, OnCourse
<1>3. QED
  BY <1>1, <1>2 DEF RecordIsStillThere, DropsAreOnCourse, StillThere, OnCourse

LEMMA CorpusInit == ASSUME part = "corpora", Init PROVE CorpusInv
<1>1. Corpora!Init
  BY DEF Init
<1>2. CorpusTypes
  <2>1. Corpora!TypeOK /\ cleared \subseteq {"dense", "sparse"}
    BY <1>1 DEF Corpora!Init, Corpora!TypeOK, Corpora!Backends
  <2>2. RequestsOK(loader)
    BY <1>1, RequestRests DEF Corpora!Init, RequestsOK
  <2>3. QED
    BY <2>1, <2>2 DEF CorpusTypes
<1>3. \A c \in CorpusClients : loader[c].kind = "idle"
  BY <1>1, RequestRests DEF Corpora!Init
<1>4. QED
  BY <1>1, <1>2, <1>3, StepsOfKinds DEF CorpusInv, RecordIsStillThere, DropsAreOnCourse, Corpora!At,
     Corpora!Init, Corpora!LastLoadIsListed, Corpora!HardDeleteDropsWhatItNamed

LEMMA BeginStep ==
    ASSUME CorpusInv, NEW c \in CorpusClients, NEW k \in CorpusKinds,
           NEW target \in Corpora!Targets(k), Corpora!Begin(c, k, target)
    PROVE  CorpusInv'
<1> DEFINE q == [Corpora!Idle EXCEPT !.kind = k, !.target = target]
<1>1. target \in Aims
  BY DEF Aims
<1>2. q \in CorpusRequests /\ q.kind = k /\ q.at = 1
  BY ZenonT(40), <1>1, RequestRests, RequestBegun
<1>3. loader[c] = Corpora!Idle /\ loader' = [loader EXCEPT ![c] = q]
  BY DEF Corpora!Begin
<1>4. /\ k \in DOMAIN Corpora!Program /\ 1 \in DOMAIN Corpora!Program[k]
      /\ Corpora!Program[k][1] # "write"
  <2>1. k \in DOMAIN Corpora!Program
    BY CorporaAssumption DEF CorporaAssumption, Corpora!KindsAssumption
  <2>2. 1 \in DOMAIN Corpora!Program[k]
    BY <2>1, StepsFit
  <2>3. Corpora!Program[k][1] # "write"
    BY <2>1, StepsOfKinds
  <2>4. QED
    BY <2>1, <2>2, <2>3
<1>5. RequestsOK(loader')
  BY <1>2, <1>3, <1>4 DEF CorpusInv, CorpusTypes, RequestsOK
<1>6. loader'[c] = q /\ \A d \in CorpusClients \ {c} : loader'[d] = loader[d]
  BY <1>3 DEF CorpusInv, CorpusTypes, RequestsOK
<1>7. UNCHANGED <<records, inserted, exists, held, listedLoads, cleared>>
  BY DEF Corpora!Begin, Corpora!stores, Corpora!histories
<1>8. StillThere(c)' /\ OnCourse(c)'
  BY <1>2, <1>4, <1>6 DEF StillThere, OnCourse, Corpora!At
<1>9. RecordIsStillThere' /\ DropsAreOnCourse'
  BY <1>2, <1>6, <1>7, <1>8, NeighboursStay
<1>10. QED
  BY <1>5, <1>7, <1>9 DEF CorpusInv, CorpusTypes, Corpora!TypeOK, Corpora!LastLoadIsListed,
     Corpora!HardDeleteDropsWhatItNamed

LEMMA LoadStepKeeps ==
    ASSUME CorpusInv, NEW c \in CorpusClients, Corpora!LoadStep(c) PROVE CorpusInv'
<1>1. LoadTouches(c)
  BY LoadsTouch DEF CorpusInv
<1>2. CorpusTypes'
  BY <1>1 DEF CorpusInv, CorpusTypes, Corpora!TypeOK, LoadTouches
<1>3. \A d \in CorpusClients \ {c} :
          /\ loader'[d].kind = loader[d].kind /\ loader'[d].at = loader[d].at
          /\ loader'[d].seen = loader[d].seen /\ loader'[d].found = loader[d].found
          /\ loader'[d].calm => loader[d].calm
  <2> SUFFICES ASSUME NEW d \in CorpusClients \ {c}, loader'[d] = [loader[d] EXCEPT !.calm = FALSE]
               PROVE  /\ loader'[d].kind = loader[d].kind /\ loader'[d].at = loader[d].at
                      /\ loader'[d].seen = loader[d].seen /\ loader'[d].found = loader[d].found
                      /\ loader'[d].calm => loader[d].calm
    BY <1>1 DEF LoadTouches
  <2>1. loader[d] \in CorpusRequests
    BY DEF CorpusInv, CorpusTypes, RequestsOK
  <2>2. QED
    BY <2>1, RequestCalm
<1>4. RecordIsStillThere'
  <2> SUFFICES ASSUME NEW d \in CorpusClients, Corpora!At(d, "write")', loader'[d].found,
                      loader'[d].calm
               PROVE  /\ records' # {}
                      /\ \A e \in CorpusClients :
                             loader'[e].kind \in {"soft", "hard"} => loader'[e].at = 1
    BY DEF RecordIsStillThere
  <2>1. d # c /\ UNCHANGED records
    BY <1>1 DEF LoadTouches
  <2>2. Corpora!At(d, "write") /\ loader[d].found /\ loader[d].calm
    BY <1>3, <2>1 DEF Corpora!At
  <2>3. records # {} /\ \A e \in CorpusClients : loader[e].kind \in {"soft", "hard"} => loader[e].at = 1
    BY <2>2 DEF CorpusInv, RecordIsStillThere
  <2>4. loader'[c].kind \notin {"soft", "hard"}
    BY <1>1 DEF LoadTouches, Corpora!Loads
  <2>5. QED
    BY <1>3, <2>1, <2>3, <2>4
<1>5. DropsAreOnCourse'
  <2> SUFFICES ASSUME NEW d \in CorpusClients, loader'[d].kind = "hard", loader'[d].calm
               PROVE  OnCourse(d)'
    BY DEF DropsAreOnCourse, OnCourse
  <2>1. d # c
    BY <1>1 DEF LoadTouches, Corpora!Loads
  <2>2. exists' \subseteq exists
    <3>1. loader[d] \in CorpusRequests
      BY DEF CorpusInv, CorpusTypes, RequestsOK
    <3>2. loader'[d] # [loader[d] EXCEPT !.calm = FALSE] /\ loader[d].kind = "hard"
      BY <1>3, <2>1, <3>1, RequestCalm
    <3>3. QED
      BY <1>1, <2>1, <3>2 DEF LoadTouches
  <2>3. OnCourse(d)
    BY DEF CorpusInv, DropsAreOnCourse, OnCourse
  <2>4. QED
    BY <1>3, <2>1, <2>2, <2>3 DEF OnCourse
<1>6. Corpora!LastLoadIsListed' /\ Corpora!HardDeleteDropsWhatItNamed'
  BY <1>1 DEF LoadTouches, CorpusInv, Corpora!LastLoadIsListed, Corpora!HardDeleteDropsWhatItNamed
<1>7. QED
  BY <1>2, <1>4, <1>5, <1>6 DEF CorpusInv

\* A request that failed to register ends, or goes on to the registration of the gateway.
LEMMA FailedRegistration ==
    ASSUME RequestsOK(loader), NEW c \in CorpusClients, NEW s \in {"find", "write"}, Corpora!At(c, s),
           Corpora!RegistrationFails(c)
    PROVE  /\ RequestsOK(loader') /\ \A d \in CorpusClients \ {c} : loader'[d] = loader[d]
           /\ loader'[c].kind \in {"ingest", "done"} /\ ~Corpora!At(c, "write")'
<1>1. CASE loader' = Corpora!Ends(c)
  BY ZenonT(40), <1>1, RequestMoves, StepsOfKinds DEF Corpora!At
<1>2. CASE loader' = [loader EXCEPT ![c].at = 5] /\ loader[c].kind = "ingest"
  <2> DEFINE q == [loader[c] EXCEPT !.at = 5]
  <2>1. q \in CorpusRequests /\ q.at = 5 /\ q.kind = "ingest"
    <3>1. loader[c] \in CorpusRequests /\ 5 \in 1..6
      BY DEF RequestsOK
    <3>2. QED
      BY <1>2, <3>1, RequestAt
  <2>2. 5 \in DOMAIN Corpora!Program["ingest"] /\ Corpora!Program["ingest"][5] = "find"
    BY StepsOfKinds
  <2>3. loader' = [loader EXCEPT ![c] = q] /\ loader'[c] = q
    BY <1>2 DEF RequestsOK
  <2>4. RequestsOK(loader') /\ \A d \in CorpusClients \ {c} : loader'[d] = loader[d]
    BY <2>1, <2>2, <2>3 DEF RequestsOK
  <2>5. loader'[c].kind = "ingest" /\ loader'[c].at = 5
    BY <2>1, <2>3
  <2>6. ~Corpora!At(c, "write")'
    BY <2>2, <2>5 DEF Corpora!At
  <2>7. QED
    BY <2>4, <2>5, <2>6
<1>3. QED
  BY <1>1, <1>2 DEF Corpora!RegistrationFails

LEMMA FindKeeps ==
    ASSUME CorpusInv, NEW c \in CorpusClients, Corpora!FindRecord(c) PROVE CorpusInv'
<1>1. Corpora!At(c, "find") /\ RequestsOK(loader) /\ loader[c].kind \in Corpora!Loads
  BY WhereItStands DEF Corpora!FindRecord, CorpusInv, CorpusTypes
<1>2. UNCHANGED <<records, inserted, exists, held, listedLoads, cleared>>
  BY DEF Corpora!FindRecord, Corpora!stores, Corpora!histories
<1>3. /\ RequestsOK(loader') /\ \A d \in CorpusClients \ {c} : loader'[d] = loader[d]
      /\ loader'[c].kind \in Corpora!Loads \cup {"done"} /\ StillThere(c)'
  <2>1. CASE Corpora!RegistrationFails(c)
    BY <1>1, <2>1, FailedRegistration DEF StillThere, Corpora!Loads
  <2>2. CASE loader' = [Corpora!Advance(c) EXCEPT ![c].found = records # {},
                            ![c].calm = Corpora!Under({"soft", "hard"}) = {}]
    <3> DEFINE there == records # {}  calm == Corpora!Under({"soft", "hard"}) = {}
               q == [Corpora!Advance(c)[c] EXCEPT !.found = there, !.calm = calm]
    <3>1. /\ RequestsOK(Corpora!Advance(c))
          /\ \A d \in CorpusClients \ {c} : Corpora!Advance(c)[d] = loader[d]
          /\ Corpora!Advance(c)[c] \in CorpusRequests
          /\ Corpora!Advance(c)[c].kind \in {loader[c].kind, "done"}
      <4>1. [loader[c] EXCEPT !.at = @ + 1].kind = loader[c].kind
        BY <1>1 DEF RequestsOK, CorpusRequests
      <4>2. /\ RequestsOK(Corpora!Advance(c))
            /\ \A d \in CorpusClients \ {c} : Corpora!Advance(c)[d] = loader[d]
            /\ \/ Corpora!Advance(c)[c].kind = "done"
               \/ Corpora!Advance(c)[c] = [loader[c] EXCEPT !.at = @ + 1]
        BY <1>1, RequestMoves
      <4>3. QED
        BY <4>1, <4>2 DEF RequestsOK
    <3>2. /\ q \in CorpusRequests /\ q.kind = Corpora!Advance(c)[c].kind
          /\ q.at = Corpora!Advance(c)[c].at /\ q.found = there /\ q.calm = calm
      <4> DEFINE old == Corpora!Advance(c)[c]
      <4>1. there \in BOOLEAN /\ calm \in BOOLEAN /\ old \in CorpusRequests
        BY <3>1
      <4> HIDE DEF there, calm, old
      <4>2. /\ q \in CorpusRequests /\ q.kind = old.kind /\ q.at = old.at
            /\ q.found = there /\ q.calm = calm
        BY <4>1 DEF CorpusRequests, old
      <4>3. QED
        BY <4>2 DEF old
    <3>3. loader' = [Corpora!Advance(c) EXCEPT ![c] = q] /\ loader'[c] = q
      BY <2>2, <3>1 DEF RequestsOK
    <3>4. RequestsOK(loader')
      BY <3>1, <3>2, <3>3 DEF RequestsOK
    <3>5. \A d \in CorpusClients \ {c} : loader'[d] = loader[d]
      BY <3>1, <3>3
    <3>6. ASSUME calm PROVE \A d \in CorpusClients : loader'[d].kind \notin {"soft", "hard"}
      <4>1. \A d \in CorpusClients : loader[d].kind \notin {"soft", "hard"}
        <5> SUFFICES ASSUME NEW d \in CorpusClients, loader[d].kind \in {"soft", "hard"}
                     PROVE  d \in Corpora!Under({"soft", "hard"})
          BY <3>6
        <5>1. loader[d].kind \in CorpusKinds
          BY <1>1, RequestFields DEF RequestsOK
        <5>2. QED
          BY <1>1, <5>1 DEF RequestsOK, Corpora!Under
      <4>2. QED
        BY <1>1, <3>1, <3>2, <3>3, <3>5, <4>1 DEF Corpora!Loads
    <3>7. StillThere(c)'
      BY <1>2, <3>2, <3>3, <3>6 DEF StillThere
    <3>8. QED
      BY <1>1, <3>1, <3>2, <3>3, <3>4, <3>5, <3>7
  <2>3. QED
    BY <2>1, <2>2 DEF Corpora!FindRecord
<1>4. RecordIsStillThere' /\ DropsAreOnCourse'
  BY <1>2, <1>3, NeighboursStay DEF OnCourse, Corpora!Loads
<1>5. QED
  BY <1>2, <1>3, <1>4 DEF CorpusInv, CorpusTypes, Corpora!TypeOK, Corpora!LastLoadIsListed,
     Corpora!HardDeleteDropsWhatItNamed

\* A registration names backends, and makes a record of them.
LEMMA RecordChanges ==
    ASSUME CorpusTypes, NEW c \in CorpusClients, NEW backends \in SUBSET Corpora!Backends
    PROVE  /\ \A r \in records :
                  /\ Corpora!Refreshed(r, c, backends) \in Corpora!Record
                  /\ Corpora!Refreshed(r, c, backends).id = r.id
                  /\ Corpora!Refreshed(r, c, backends).backends = backends
                  /\ ~Corpora!Refreshed(r, c, backends).deleted
           /\ Corpora!NewRecord(c, backends) \in Corpora!Record
           /\ Corpora!NewRecord(c, backends).id = inserted + 1
           /\ Corpora!NewRecord(c, backends).backends = backends
           /\ ~Corpora!NewRecord(c, backends).deleted
<1> USE DEF CorpusTypes, Corpora!TypeOK, Corpora!Record
<1>1. ASSUME NEW r \in records
      PROVE  /\ Corpora!Refreshed(r, c, backends) \in Corpora!Record
             /\ Corpora!Refreshed(r, c, backends).id = r.id
             /\ Corpora!Refreshed(r, c, backends).backends = backends
             /\ ~Corpora!Refreshed(r, c, backends).deleted
  <2>1. r \in Corpora!Record
    OBVIOUS
  <2>2. QED
    BY <2>1 DEF Corpora!Refreshed
<1>2. QED
  BY <1>1 DEF Corpora!NewRecord

LEMMA WriteKeeps ==
    ASSUME CorpusInv, NEW c \in CorpusClients, Corpora!WriteRecord(c) PROVE CorpusInv'
<1>1. /\ Corpora!At(c, "write") /\ RequestsOK(loader) /\ loader[c].kind \in Corpora!Loads
      /\ UNCHANGED <<exists, held, cleared>>
  BY WhereItStands DEF Corpora!WriteRecord, CorpusInv, CorpusTypes
<1>2. CASE Corpora!RegistrationFails(c) /\ UNCHANGED <<records, inserted, listedLoads>>
  <2>1. /\ RequestsOK(loader') /\ \A d \in CorpusClients \ {c} : loader'[d] = loader[d]
        /\ loader'[c].kind \in {"ingest", "done"} /\ ~Corpora!At(c, "write")'
    BY <1>1, <1>2, FailedRegistration
  <2>2. RecordIsStillThere' /\ DropsAreOnCourse'
    BY <1>1, <1>2, <2>1, NeighboursStay DEF StillThere, OnCourse
  <2>3. QED
    BY <1>1, <1>2, <2>1, <2>2 DEF CorpusInv, CorpusTypes, Corpora!TypeOK, Corpora!LastLoadIsListed,
       Corpora!HardDeleteDropsWhatItNamed
<1>3. CASE \E backends \in Corpora!NamedBy(c) :
             /\ IF loader[c].found
                THEN /\ \/ \E r \in records :
                              records' = (records \ {r}) \cup {Corpora!RefreshRecord(r, c, backends)}
                        \/ records = {} /\ UNCHANGED records
                     /\ UNCHANGED inserted
                ELSE /\ records' = records \cup {Corpora!NewRecord(c, backends)}
                     /\ inserted' = inserted + 1
             /\ listedLoads' = IF loader[c].calm THEN {backends} ELSE {}
             /\ loader' = Corpora!Advance(c)
  <2>1. PICK backends \in Corpora!NamedBy(c) :
             /\ IF loader[c].found
                THEN /\ \/ \E r \in records :
                              records' = (records \ {r}) \cup {Corpora!RefreshRecord(r, c, backends)}
                        \/ records = {} /\ UNCHANGED records
                     /\ UNCHANGED inserted
                ELSE /\ records' = records \cup {Corpora!NewRecord(c, backends)}
                     /\ inserted' = inserted + 1
             /\ listedLoads' = IF loader[c].calm THEN {backends} ELSE {}
             /\ loader' = Corpora!Advance(c)
    BY <1>3
  <2>2. backends \in SUBSET Corpora!Backends
    <3>1. loader[c].built \in SUBSET Corpora!Backends
      BY <1>1, RequestFields DEF RequestsOK
    <3>2. QED
      BY <2>1, <3>1 DEF Corpora!NamedBy, Corpora!Backends
  <2>3. /\ RequestsOK(loader') /\ \A d \in CorpusClients \ {c} : loader'[d] = loader[d]
        /\ loader'[c].kind \notin {"soft", "hard"} /\ ~Corpora!At(c, "write")'
    <3>1. [loader[c] EXCEPT !.at = @ + 1].kind = loader[c].kind
          /\ [loader[c] EXCEPT !.at = @ + 1].at = loader[c].at + 1
      BY <1>1 DEF RequestsOK, CorpusRequests
    <3>2. loader[c].at + 1 \in DOMAIN Corpora!Program[loader[c].kind] =>
             Corpora!Program[loader[c].kind][loader[c].at + 1] # "write"
      BY <1>1, StepsOfKinds DEF Corpora!At, Corpora!Loads
    <3>3. /\ RequestsOK(loader') /\ \A d \in CorpusClients \ {c} : loader'[d] = loader[d]
          /\ \/ loader'[c].kind = "done"
             \/ loader'[c] = [loader[c] EXCEPT !.at = @ + 1]
      BY <1>1, <2>1, RequestMoves
    <3>4. CASE loader'[c].kind = "done"
      BY <3>3, <3>4, StepsOfKinds DEF Corpora!At
    <3>5. CASE loader'[c] = [loader[c] EXCEPT !.at = @ + 1]
      <4>1. loader'[c].kind = loader[c].kind /\ loader'[c].at = loader[c].at + 1
        BY <3>1, <3>5
      <4>2. QED
        BY <1>1, <3>2, <3>3, <4>1 DEF Corpora!At, Corpora!Loads
    <3>6. QED
      BY <3>3, <3>4, <3>5
  <2>4. /\ records' \subseteq Corpora!Record /\ inserted' \in Nat
        /\ \A r, q \in records' : r.id = q.id => r = q
        /\ \A r \in records' : r.id \in 1..inserted'
        /\ records # {} => records' # {}
        /\ \/ loader[c].found /\ records = {}
           \/ \E r \in records' : ~r.deleted /\ r.backends = backends
    <3>1. /\ records \subseteq Corpora!Record /\ inserted \in Nat
          /\ \A r, q \in records : r.id = q.id => r = q
          /\ \A r \in records : r.id \in 1..inserted
      BY DEF CorpusInv, CorpusTypes, Corpora!TypeOK
    <3>2. CASE ~loader[c].found
      <4> DEFINE new == Corpora!NewRecord(c, backends)
      <4>1. /\ new \in Corpora!Record /\ new.id = inserted + 1 /\ new.backends = backends
            /\ ~new.deleted
        BY <2>2, RecordChanges DEF CorpusInv
      <4>2. records' = records \cup {new} /\ inserted' = inserted + 1
        BY <2>1, <3>2
      <4> HIDE DEF new
      <4>3. \A r \in records : r.id # new.id
        BY <3>1, <4>1
      <4>4. QED
        BY <3>1, <4>1, <4>2, <4>3
    <3>3. CASE loader[c].found /\ records = {} /\ UNCHANGED <<records, inserted>>
      BY <3>1, <3>3
    <3>4. CASE /\ loader[c].found /\ UNCHANGED inserted
               /\ \E r \in records :
                     records' = (records \ {r}) \cup {Corpora!RefreshRecord(r, c, backends)}
      <4>1. PICK r \in records :
                   records' = (records \ {r}) \cup {Corpora!RefreshRecord(r, c, backends)}
        BY <3>4
      <4> DEFINE new == Corpora!Refreshed(r, c, backends)
      <4>2. /\ new \in Corpora!Record /\ new.id = r.id /\ new.backends = backends
            /\ ~new.deleted
        BY <2>2, RecordChanges DEF CorpusInv
      <4>3. records' = (records \ {r}) \cup {new}
        BY <4>1 DEF Corpora!RefreshRecord
      <4> HIDE DEF new
      <4>4. QED
        BY <3>1, <3>4, <4>2, <4>3
    <3>5. QED
      BY <2>1, <3>2, <3>3, <3>4
  <2>5. Corpora!LastLoadIsListed'
    <3>1. loader[c].found /\ loader[c].calm => records # {}
      BY <1>1 DEF CorpusInv, RecordIsStillThere
    <3>2. QED
      BY <2>1, <2>4, <3>1 DEF Corpora!LastLoadIsListed
  <2>6. RecordIsStillThere' /\ DropsAreOnCourse'
    BY <1>1, <2>3, <2>4, NeighboursStay DEF StillThere, OnCourse
  <2>7. QED
    BY <1>1, <2>3, <2>4, <2>5, <2>6 DEF CorpusInv, CorpusTypes, Corpora!TypeOK,
       Corpora!HardDeleteDropsWhatItNamed
<1>4. QED
  BY <1>2, <1>3 DEF Corpora!WriteRecord

LEMMA LookKeeps ==
    ASSUME CorpusInv, NEW c \in CorpusClients, Corpora!LookUp(c) PROVE CorpusInv'
<1>1. /\ Corpora!At(c, "look") /\ RequestsOK(loader) /\ loader[c].at = 1
      /\ loader[c].kind \in {"soft", "restore", "edit", "hard"}
      /\ UNCHANGED <<records, inserted, exists, held, listedLoads, cleared>>
  BY WhereItStands DEF Corpora!LookUp, CorpusInv, CorpusTypes, Corpora!stores, Corpora!histories
<1>2. CASE loader' = Corpora!Ends(c)
  <2>1. /\ RequestsOK(loader') /\ \A d \in CorpusClients \ {c} : loader'[d] = loader[d]
        /\ loader'[c].kind = "done"
    BY <1>1, <1>2, RequestMoves
  <2>2. RecordIsStillThere' /\ DropsAreOnCourse'
    BY <1>1, <2>1, NeighboursStay, StepsOfKinds DEF StillThere, OnCourse, Corpora!At
  <2>3. QED
    BY <1>1, <2>1, <2>2 DEF CorpusInv, CorpusTypes, Corpora!TypeOK, Corpora!LastLoadIsListed,
       Corpora!HardDeleteDropsWhatItNamed
<1>3. CASE \E r \in records : loader' = [d \in CorpusClients |->
                              IF d = c THEN [loader[c] EXCEPT !.at = 2, !.seen = r.backends,
                                               !.calm = Corpora!Under(Corpora!Loads) = {}]
                              ELSE IF loader[c].kind \in {"soft", "hard"}
                                      /\ d \in Corpora!Under(Corpora!Loads)
                              THEN [loader[d] EXCEPT !.calm = FALSE]
                              ELSE loader[d]]
  <2> DEFINE calm == Corpora!Under(Corpora!Loads) = {}
  <2>1. PICK r \in records : loader' = [d \in CorpusClients |->
                              IF d = c THEN [loader[c] EXCEPT !.at = 2, !.seen = r.backends,
                                               !.calm = calm]
                              ELSE IF loader[c].kind \in {"soft", "hard"}
                                      /\ d \in Corpora!Under(Corpora!Loads)
                              THEN [loader[d] EXCEPT !.calm = FALSE]
                              ELSE loader[d]]
    BY <1>3
  <2>2. calm \in BOOLEAN /\ r.backends \in SUBSET Corpora!Backends
    BY DEF CorpusInv, CorpusTypes, Corpora!TypeOK, Corpora!Record
  <2> HIDE DEF calm
  <2>3. \A d \in CorpusClients : loader[d] \in CorpusRequests
    BY <1>1 DEF RequestsOK
  <2>4. loader'[c] \in CorpusRequests /\ loader'[c].kind = loader[c].kind /\ loader'[c].at = 2
    <3> DEFINE old == loader[c]  seen == r.backends
               q == [old EXCEPT !.at = 2, !.seen = seen, !.calm = calm]
    <3>1. loader'[c] = q
      BY <2>1
    <3>2. old \in CorpusRequests /\ seen \in SUBSET Corpora!Backends /\ calm \in BOOLEAN
      BY <2>2, <2>3
    <3> HIDE DEF old, seen
    <3>3. q \in CorpusRequests /\ q.kind = old.kind /\ q.at = 2
      <4> DEFINE q1 == [old EXCEPT !.at = 2]  q2 == [q1 EXCEPT !.seen = seen]
      <4>1. q1 \in CorpusRequests /\ q1.kind = old.kind /\ q1.at = 2
        BY <3>2 DEF CorpusRequests
      <4> HIDE DEF q1
      <4>2. q2 \in CorpusRequests /\ q2.kind = old.kind /\ q2.at = 2
        BY <3>2, <4>1 DEF CorpusRequests
      <4>3. q = [q2 EXCEPT !.calm = calm]
        BY DEF q1
      <4> HIDE DEF q2, q
      <4>4. QED
        BY <3>2, <4>2, <4>3, RequestCalm
    <3>4. QED
      BY <3>1, <3>3 DEF old
  <2>5. \A d \in CorpusClients \ {c} :
            /\ loader'[d] \in CorpusRequests
            /\ loader'[d].kind = loader[d].kind /\ loader'[d].at = loader[d].at
            /\ loader'[d].seen = loader[d].seen /\ loader'[d].found = loader[d].found
            /\ loader'[d].calm => loader[d].calm
            /\ loader[c].kind \in {"soft", "hard"} /\ d \in Corpora!Under(Corpora!Loads) =>
                   ~loader'[d].calm
    <3> SUFFICES ASSUME NEW d \in CorpusClients \ {c}
                 PROVE  /\ loader'[d] \in CorpusRequests
                        /\ loader'[d].kind = loader[d].kind /\ loader'[d].at = loader[d].at
                        /\ loader'[d].seen = loader[d].seen /\ loader'[d].found = loader[d].found
                        /\ loader'[d].calm => loader[d].calm
                        /\ loader[c].kind \in {"soft", "hard"} /\ d \in Corpora!Under(Corpora!Loads)
                               => ~loader'[d].calm
      OBVIOUS
    <3>1. CASE loader[c].kind \in {"soft", "hard"} /\ d \in Corpora!Under(Corpora!Loads)
      <4>1. loader'[d] = [loader[d] EXCEPT !.calm = FALSE] /\ loader[d] \in CorpusRequests
        BY <2>1, <2>3, <3>1
      <4>2. QED
        BY ZenonT(40), <4>1, RequestCalm
    <3>2. CASE ~(loader[c].kind \in {"soft", "hard"} /\ d \in Corpora!Under(Corpora!Loads))
      <4>1. loader'[d] = loader[d]
        BY <2>1, <3>2
      <4>2. QED
        BY <2>3, <3>2, <4>1
    <3>3. QED
      BY <3>1, <3>2
  <2>6. RequestsOK(loader')
    <3>1. loader' \in [CorpusClients -> CorpusRequests]
      BY <2>1, <2>4, <2>5
    <3>2. loader[c].kind \in DOMAIN Corpora!Program /\ 2 \in DOMAIN Corpora!Program[loader[c].kind]
      BY <1>1, StepsOfKinds
    <3>3. QED
      BY <1>1, <2>4, <2>5, <3>1, <3>2 DEF RequestsOK
  <2>7. RecordIsStillThere'
    <3> SUFFICES ASSUME NEW d \in CorpusClients, Corpora!At(d, "write")', loader'[d].found,
                        loader'[d].calm
                 PROVE  /\ records' # {}
                        /\ \A e \in CorpusClients :
                               loader'[e].kind \in {"soft", "hard"} => loader'[e].at = 1
      BY DEF RecordIsStillThere
    <3>1. d # c
      BY <1>1, <2>4, StepsOfKinds DEF Corpora!At
    <3>2. Corpora!At(d, "write") /\ loader[d].found /\ loader[d].calm
      BY <2>5, <3>1 DEF Corpora!At
    <3>3. d \in Corpora!Under(Corpora!Loads)
      BY <3>2, WhereItStands DEF Corpora!At, Corpora!Under
    <3>4. loader[c].kind \notin {"soft", "hard"}
      BY <2>5, <3>1, <3>3
    <3>5. QED
      BY <1>1, <2>4, <2>5, <3>2, <3>4 DEF CorpusInv, RecordIsStillThere
  <2>8. DropsAreOnCourse'
    <3> SUFFICES ASSUME NEW d \in CorpusClients PROVE OnCourse(d)'
      BY DEF DropsAreOnCourse, OnCourse
    <3>1. CASE d = c
      BY <2>4, <3>1 DEF OnCourse
    <3>2. CASE d # c
      <4>1. OnCourse(d)
        BY DEF CorpusInv, DropsAreOnCourse, OnCourse
      <4>2. QED
        BY <1>1, <2>5, <3>2, <4>1 DEF OnCourse
    <3>3. QED
      BY <3>1, <3>2
  <2>9. QED
    BY <1>1, <2>6, <2>7, <2>8 DEF CorpusInv, CorpusTypes, Corpora!TypeOK,
       Corpora!LastLoadIsListed, Corpora!HardDeleteDropsWhatItNamed
<1>4. QED
  BY <1>2, <1>3 DEF Corpora!LookUp

\* update_one by id: the records keep their ids, whatever is set.
LEMMA SetKeepsIds ==
    ASSUME CorpusTypes, NEW c \in CorpusClients, NEW deleted \in BOOLEAN,
           records' = {IF r.id = loader[c].target THEN [r EXCEPT !.deleted = deleted] ELSE r :
                           r \in records}, UNCHANGED inserted
    PROVE  /\ records' \subseteq Corpora!Record /\ inserted' \in Nat
           /\ \A r, q \in records' : r.id = q.id => r = q
           /\ \A r \in records' : r.id \in 1..inserted'
           /\ records # {} => records' # {}
           /\ ~deleted => \A r \in records : ~r.deleted =>
                  \E q \in records' : ~q.deleted /\ q.backends = r.backends
<1> DEFINE Change(r) == IF r.id = loader[c].target THEN [r EXCEPT !.deleted = deleted] ELSE r
<1>1. ASSUME NEW r \in records
      PROVE  /\ Change(r) \in Corpora!Record /\ Change(r).id = r.id /\ Change(r) \in records'
             /\ Change(r).backends = r.backends
             /\ ~deleted /\ ~r.deleted => ~Change(r).deleted
  <2>1. r \in Corpora!Record
    BY DEF CorpusTypes, Corpora!TypeOK
  <2>2. Change(r) \in records'
    OBVIOUS
  <2>3. QED
    BY <2>1, <2>2 DEF Corpora!Record
<1>2. \A q \in records' : \E r \in records : q = Change(r)
  OBVIOUS
<1>3. /\ inserted \in Nat /\ \A r, q \in records : r.id = q.id => r = q
      /\ \A r \in records : r.id \in 1..inserted
  BY DEF CorpusTypes, Corpora!TypeOK
<1> HIDE DEF Change
<1>4. records' \subseteq Corpora!Record /\ \A r \in records' : r.id \in 1..inserted'
  BY SMTT(30), <1>1, <1>2, <1>3
<1>5. \A r, q \in records' : r.id = q.id => r = q
  BY <1>1, <1>2, <1>3
<1>6. /\ records # {} => records' # {}
      /\ ~deleted => \A r \in records : ~r.deleted =>
             \E q \in records' : ~q.deleted /\ q.backends = r.backends
  BY <1>1
<1>7. QED
  BY <1>3, <1>4, <1>5, <1>6

LEMMA EditKeeps ==
    ASSUME CorpusInv, NEW c \in CorpusClients,
           \/ Corpora!MarkDeleted(c) \/ Corpora!ClearDeleted(c) \/ Corpora!Describe(c)
           \/ Corpora!RemoveRecord(c)
    PROVE  CorpusInv'
<1>1. PICK s \in {"mark", "unmark", "describe", "remove"} :
         /\ Corpora!At(c, s) /\ loader' = Corpora!Advance(c)
         /\ UNCHANGED <<inserted, exists, held>>
  BY DEF Corpora!MarkDeleted, Corpora!ClearDeleted, Corpora!Describe, Corpora!RemoveRecord,
     Corpora!stores
<1>2. /\ loader[c].kind \in {"soft", "restore", "edit", "hard"}
      /\ loader[c].at + 1 \notin DOMAIN Corpora!Program[loader[c].kind]
  BY <1>1, StepsOfKinds DEF Corpora!At
<1>3. /\ RequestsOK(loader') /\ loader'[c].kind = "done"
      /\ \A d \in CorpusClients \ {c} : loader'[d] = loader[d]
  BY <1>1, <1>2, RequestMoves DEF CorpusInv, CorpusTypes
<1>4. StillThere(c)' /\ OnCourse(c)'
  BY <1>3, StepsOfKinds DEF StillThere, OnCourse, Corpora!At
<1>5. /\ CorpusTypes /\ RequestsOK(loader) /\ Corpora!TypeOK
      /\ Corpora!LastLoadIsListed /\ Corpora!HardDeleteDropsWhatItNamed
  BY DEF CorpusInv, CorpusTypes
<1>6. CASE Corpora!MarkDeleted(c)
  <2>1. /\ records' = {IF r.id = loader[c].target THEN [r EXCEPT !.deleted = TRUE] ELSE r :
                           r \in records}
        /\ listedLoads' = {} /\ UNCHANGED cleared
    BY <1>6 DEF Corpora!MarkDeleted, Corpora!Set
  <2>2. /\ records' \subseteq Corpora!Record /\ inserted' \in Nat
        /\ \A r, q \in records' : r.id = q.id => r = q
        /\ \A r \in records' : r.id \in 1..inserted'
        /\ records # {} => records' # {}
    BY <1>1, <1>5, <2>1, SetKeepsIds
  <2>3. RecordIsStillThere' /\ DropsAreOnCourse'
    BY <1>1, <1>3, <1>4, <2>2, NeighboursStay
  <2>4. QED
    BY <1>1, <1>3, <1>5, <2>1, <2>2, <2>3 DEF CorpusInv, CorpusTypes, Corpora!TypeOK,
       Corpora!LastLoadIsListed, Corpora!HardDeleteDropsWhatItNamed
<1>7. CASE Corpora!ClearDeleted(c)
  <2>1. /\ records' = {IF r.id = loader[c].target THEN [r EXCEPT !.deleted = FALSE] ELSE r :
                           r \in records}
        /\ UNCHANGED <<listedLoads, cleared>>
    BY <1>7 DEF Corpora!ClearDeleted, Corpora!Set, Corpora!histories
  <2>2. /\ records' \subseteq Corpora!Record /\ inserted' \in Nat
        /\ \A r, q \in records' : r.id = q.id => r = q
        /\ \A r \in records' : r.id \in 1..inserted'
        /\ records # {} => records' # {}
        /\ \A r \in records : ~r.deleted =>
               \E q \in records' : ~q.deleted /\ q.backends = r.backends
    BY <1>1, <1>5, <2>1, SetKeepsIds
  <2>3. RecordIsStillThere' /\ DropsAreOnCourse'
    BY <1>1, <1>3, <1>4, <2>2, NeighboursStay
  <2>4. Corpora!LastLoadIsListed'
    <3>1. \A backends \in listedLoads : \E r \in records : ~r.deleted /\ r.backends = backends
      BY <1>5 DEF Corpora!LastLoadIsListed
    <3>2. \A r \in records : ~r.deleted =>
             \E q \in records' : ~q.deleted /\ q.backends = r.backends
      BY <2>2
    <3>3. ASSUME NEW backends \in listedLoads
          PROVE  \E q \in records' : ~q.deleted /\ q.backends = backends
      <4>1. PICK r \in records : ~r.deleted /\ r.backends = backends
        BY <3>1, Zenon
      <4>2. PICK q \in records' : ~q.deleted /\ q.backends = r.backends
        BY <3>2, <4>1, Zenon
      <4>3. QED
        BY <4>1, <4>2, Zenon
    <3>4. listedLoads' = listedLoads
      BY <2>1
    <3>5. QED
      BY <3>3, <3>4, Zenon DEF Corpora!LastLoadIsListed
  <2>5. QED
    BY <1>1, <1>3, <1>5, <2>1, <2>2, <2>3, <2>4 DEF CorpusInv, CorpusTypes, Corpora!TypeOK,
       Corpora!HardDeleteDropsWhatItNamed
<1>8. CASE Corpora!Describe(c)
  <2>1. UNCHANGED <<records, listedLoads, cleared>>
    BY <1>8 DEF Corpora!Describe, Corpora!histories, Corpora!stores
  <2>2. RecordIsStillThere' /\ DropsAreOnCourse'
    BY <1>1, <1>3, <1>4, <2>1, NeighboursStay
  <2>3. QED
    BY <1>1, <1>3, <1>5, <2>1, <2>2 DEF CorpusInv, CorpusTypes, Corpora!TypeOK,
       Corpora!LastLoadIsListed, Corpora!HardDeleteDropsWhatItNamed
<1>9. CASE Corpora!RemoveRecord(c)
  <2>1. /\ loader[c].kind = "hard" /\ loader[c].at = 4
        /\ loader[c].seen \subseteq Corpora!Backends
    BY <1>5, <1>9, WhereItStands, RequestFields DEF Corpora!RemoveRecord, RequestsOK
  <2>2. /\ records' = {r \in records : r.id # loader[c].target} /\ listedLoads' = {}
        /\ cleared' = IF loader[c].calm THEN cleared \cup (loader[c].seen \ {"graph"}) ELSE cleared
    BY <1>9 DEF Corpora!RemoveRecord
  <2>3. RecordIsStillThere'
    <3> SUFFICES ASSUME NEW d \in CorpusClients, Corpora!At(d, "write")', loader'[d].found,
                        loader'[d].calm
                 PROVE  FALSE
      BY DEF RecordIsStillThere
    <3>1. d # c
      BY <1>3, StepsOfKinds DEF Corpora!At
    <3>2. Corpora!At(d, "write") /\ loader[d].found /\ loader[d].calm
      BY <1>3, <3>1 DEF Corpora!At
    <3>3. QED
      BY <2>1, <3>2 DEF CorpusInv, RecordIsStillThere
  <2>4. DropsAreOnCourse'
    BY <1>1, <1>3 DEF CorpusInv, DropsAreOnCourse
  <2>5. Corpora!HardDeleteDropsWhatItNamed' /\ cleared' \subseteq {"dense", "sparse"}
    <3>1. loader[c].calm => ({"dense"} \cap loader[c].seen \cap exists = {}
                              /\ {"sparse"} \cap loader[c].seen \cap exists = {})
      BY <2>1 DEF CorpusInv, DropsAreOnCourse
    <3>2. loader[c].calm => (loader[c].seen \ {"graph"}) \cap exists = {}
      BY <2>1, <3>1 DEF Corpora!Backends
    <3>3. cleared \subseteq {"dense", "sparse"} /\ cleared \cap exists = {}
      BY <1>5 DEF CorpusTypes, Corpora!HardDeleteDropsWhatItNamed
    <3>4. QED
      BY <1>1, <2>1, <2>2, <3>2, <3>3 DEF Corpora!HardDeleteDropsWhatItNamed, Corpora!Backends
  <2>6. QED
    BY <1>1, <1>3, <1>5, <2>2, <2>3, <2>4, <2>5 DEF CorpusInv, CorpusTypes, Corpora!TypeOK,
       Corpora!LastLoadIsListed
<1>10. QED
  BY <1>6, <1>7, <1>8, <1>9

\* What a hard delete drops, and what it was refused.
LEMMA DropKeeps ==
    ASSUME CorpusInv, NEW c \in CorpusClients, Corpora!DropDense(c) \/ Corpora!DropSparse(c)
    PROVE  CorpusInv'
<1>1. PICK b \in {"dense", "sparse"} :
         /\ Corpora!At(c, IF b = "dense" THEN "dropdense" ELSE "dropsparse")
         /\ Corpora!Drop(c, b)
         /\ UNCHANGED <<records, inserted, listedLoads, cleared>>
  BY DEF Corpora!DropDense, Corpora!DropSparse, Corpora!histories
<1>2. /\ loader[c].kind = "hard" /\ loader[c].at = IF b = "dense" THEN 2 ELSE 3
      /\ RequestsOK(loader) /\ Corpora!TypeOK /\ OnCourse(c)
  BY <1>1, WhereItStands DEF CorpusInv, CorpusTypes, DropsAreOnCourse, OnCourse
<1> DEFINE on == [loader[c] EXCEPT !.at = @ + 1]
<1>3. Corpora!Program["hard"] = <<"look", "dropdense", "dropsparse", "remove">>
  BY StepsOfKinds
<1>4. /\ RequestsOK(Corpora!Advance(c)) /\ Corpora!Advance(c)[c] = on
      /\ \A d \in CorpusClients \ {c} : Corpora!Advance(c)[d] = loader[d]
  <2>1. Len(Corpora!Program[loader[c].kind]) = 4
    BY <1>2, <1>3
  <2>2. Corpora!Advance(c) = [loader EXCEPT ![c] = on]
    BY <1>2, <2>1 DEF Corpora!Advance
  <2>3. QED
    BY ZenonT(40), <1>1, <1>2, <2>2, RequestMoves DEF RequestsOK
<1>5. /\ on \in CorpusRequests /\ on.kind = "hard" /\ on.at = loader[c].at + 1
      /\ on.seen = loader[c].seen /\ on.calm = loader[c].calm
  BY <1>2 DEF RequestsOK, CorpusRequests
<1>6. CASE loader' = Corpora!Advance(c) /\ exists' \subseteq exists /\ b \notin loader[c].seen \cap exists'
  <2>1. StillThere(c)' /\ OnCourse(c)'
    <3>1. loader'[c] = on
      BY <1>4, <1>6
    <3>2. ~Corpora!At(c, "write")'
      BY <1>2, <1>3, <1>5, <3>1 DEF Corpora!At
    <3>3. OnCourse(c)'
      BY <1>2, <1>5, <1>6, <3>1 DEF OnCourse
    <3>4. QED
      BY <3>2, <3>3 DEF StillThere
  <2>2. RecordIsStillThere' /\ DropsAreOnCourse'
    BY <1>1, <1>2, <1>4, <1>6, <2>1, NeighboursStay
  <2>3. /\ exists' \subseteq Corpora!Backends \ {"graph"}
        /\ held' \in [Corpora!Backends -> SUBSET CorpusClients]
        /\ \A e \in {"dense", "sparse"} : e \notin exists' => held'[e] = {}
    BY <1>1, <1>2 DEF Corpora!Drop, Corpora!TypeOK, Corpora!Backends
  <2>4. QED
    BY <1>1, <1>2, <1>4, <1>6, <2>2, <2>3 DEF CorpusInv, CorpusTypes, Corpora!TypeOK,
       Corpora!LastLoadIsListed, Corpora!HardDeleteDropsWhatItNamed
<1>7. CASE loader' = [Corpora!Advance(c) EXCEPT ![c].calm = FALSE] /\ UNCHANGED <<exists, held>>
  <2> DEFINE off == [on EXCEPT !.calm = FALSE]
  <2>1. off \in CorpusRequests /\ off.kind = "hard" /\ off.at = loader[c].at + 1 /\ off.calm = FALSE
    <3> HIDE DEF on
    <3>1. QED
      BY <1>5, RequestCalm
  <2>2. loader' = [Corpora!Advance(c) EXCEPT ![c] = off]
    BY <1>4, <1>7
  <2> HIDE DEF off, on
  <2>3. /\ RequestsOK(loader') /\ loader'[c] = off
        /\ \A d \in CorpusClients \ {c} : loader'[d] = loader[d]
    BY <1>4, <1>5, <2>1, <2>2 DEF RequestsOK
  <2>4. StillThere(c)' /\ OnCourse(c)'
    BY <2>1, <2>3 DEF StillThere, OnCourse
  <2>5. RecordIsStillThere' /\ DropsAreOnCourse'
    BY <1>1, <1>2, <1>7, <2>1, <2>3, <2>4, NeighboursStay
  <2>6. QED
    BY <1>1, <1>2, <1>7, <2>3, <2>5 DEF CorpusInv, CorpusTypes, Corpora!TypeOK,
       Corpora!LastLoadIsListed, Corpora!HardDeleteDropsWhatItNamed
<1>8. QED
  BY <1>1, <1>6, <1>7 DEF Corpora!Drop

LEMMA CorporaStepKeeps == ASSUME CorpusInv, Corpora!Next PROVE CorpusInv'
  BY BeginStep, LoadStepKeeps, FindKeeps, WriteKeeps, LookKeeps, EditKeeps, DropKeeps
     DEF Corpora!Next, Corpora!RegisterStep, Corpora!EditStep

\* The record that a step leaves under an id is the one it found there, with its manifest, and
\* no longer deleted only where the step registers or restores.
LEMMA RecordsFollow ==
    ASSUME CorpusInv, Corpora!Next, NEW r \in records, NEW q \in records', r.id = q.id
    PROVE  /\ r.manifest # Nil => q.manifest # Nil
           /\ r.deleted /\ ~q.deleted =>
                  \E c \in CorpusClients : Corpora!At(c, "unmark") \/ Corpora!At(c, "write")
<1>1. /\ \A x1, x2 \in records : x1.id = x2.id => x1 = x2
      /\ r \in Corpora!Record /\ r.id \in 1..inserted /\ inserted \in Nat
  BY DEF CorpusInv, CorpusTypes, Corpora!TypeOK
<1>2. CASE q \in records
  BY <1>1, <1>2
<1>3. ASSUME NEW c \in CorpusClients, Corpora!WriteRecord(c), q \notin records
      PROVE  /\ r.manifest # Nil => q.manifest # Nil
             /\ Corpora!At(c, "write")
  <2>1. PICK backends \in Corpora!NamedBy(c) :
           \/ q = Corpora!NewRecord(c, backends)
           \/ \E x1 \in records : q = Corpora!Refreshed(x1, c, backends)
    BY <1>3 DEF Corpora!WriteRecord, Corpora!RefreshRecord
  <2>2. c # Nil
    BY CorporaAssumption DEF CorporaAssumption, Corpora!ClientsAssumption
  <2>3. CASE q = Corpora!NewRecord(c, backends)
    <3>1. q.id = inserted + 1
      BY <2>3 DEF Corpora!NewRecord
    <3>2. QED
      BY <1>1, <3>1
  <2>4. CASE \E x1 \in records : q = Corpora!Refreshed(x1, c, backends)
    <3>1. PICK x1 \in records : q = Corpora!Refreshed(x1, c, backends)
      BY <2>4
    <3>2. x1 \in Corpora!Record
      BY DEF CorpusInv, CorpusTypes, Corpora!TypeOK
    <3>3. q.id = x1.id /\ q.manifest \in {c, x1.manifest}
      BY <3>1, <3>2 DEF Corpora!Refreshed, Corpora!Record
    <3>4. x1 = r
      BY <1>1, <3>3
    <3>5. QED
      BY <1>3, <2>2, <3>3, <3>4 DEF Corpora!WriteRecord
  <2>5. QED
    BY <1>3, <2>1, <2>3, <2>4 DEF Corpora!WriteRecord
<1>4. ASSUME NEW c \in CorpusClients, NEW deleted \in BOOLEAN, q \notin records,
             records' = {IF x1.id = loader[c].target THEN [x1 EXCEPT !.deleted = deleted] ELSE x1 :
                             x1 \in records}
      PROVE  q.manifest = r.manifest /\ q.deleted = deleted
  <2>1. PICK x1 \in records : q = [x1 EXCEPT !.deleted = deleted]
    BY <1>4
  <2>2. x1 \in Corpora!Record
    BY DEF CorpusInv, CorpusTypes, Corpora!TypeOK
  <2>3. q.id = x1.id /\ q.manifest = x1.manifest /\ q.deleted = deleted
    BY <2>1, <2>2 DEF Corpora!Record
  <2>4. QED
    BY <1>1, <2>3
<1>5. ASSUME NEW c \in CorpusClients, Corpora!MarkDeleted(c), q \notin records
      PROVE  q.manifest = r.manifest /\ q.deleted = TRUE
  BY <1>4, <1>5 DEF Corpora!MarkDeleted, Corpora!Set
<1>6. ASSUME NEW c \in CorpusClients, Corpora!ClearDeleted(c), q \notin records
      PROVE  q.manifest = r.manifest /\ Corpora!At(c, "unmark")
  BY <1>4, <1>6 DEF Corpora!ClearDeleted, Corpora!Set
<1>7. ASSUME q \notin records
      PROVE  \E c \in CorpusClients :
                 Corpora!WriteRecord(c) \/ Corpora!MarkDeleted(c) \/ Corpora!ClearDeleted(c)
  <2>1. ASSUME NEW c \in CorpusClients, Corpora!LoadStep(c) PROVE UNCHANGED records
    BY <2>1 DEF Corpora!LoadStep, Corpora!LoadDense, Corpora!LoadSparse, Corpora!ReplaceDense,
       Corpora!BulkSparse, Corpora!LoadGraph
  <2>2. ASSUME NEW c \in CorpusClients, Corpora!RemoveRecord(c) PROVE records' \subseteq records
    BY <2>2 DEF Corpora!RemoveRecord
  <2>3. QED
    BY <1>7, <2>1, <2>2 DEF Corpora!Next, Corpora!Begin, Corpora!RegisterStep, Corpora!FindRecord,
       Corpora!EditStep, Corpora!LookUp, Corpora!Describe, Corpora!DropDense, Corpora!DropSparse,
       Corpora!stores
<1>8. QED
  BY <1>2, <1>3, <1>5, <1>6, <1>7

LEMMA CorporaAlways == Spec => [](part = "corpora" => CorpusInv)
<1>1. Init => (part = "corpora" => CorpusInv)
  BY CorpusInit
<1>2. (part = "corpora" => CorpusInv) /\ [Next]_vars => (part = "corpora" => CorpusInv)'
  <2> SUFFICES ASSUME part = "corpora" => CorpusInv, [Next]_vars, part' = "corpora"
               PROVE  CorpusInv'
    OBVIOUS
  <2>1. part = "corpora" /\ (Corpora!Next \/ UNCHANGED corporaVars)
    BY DEF Next, vars, CorporaStep, RealmStoreStep, RealmOverlapStep, SecretStoreStep,
         QuestionSetsStep, SettingsStep, PromptsStep, ExternalStep
  <2>2. CASE UNCHANGED corporaVars
    BY <2>1, <2>2 DEF CorpusInv, CorpusTypes, RequestsOK, RecordIsStillThere, DropsAreOnCourse,
       corporaVars, Corpora!TypeOK, Corpora!LastLoadIsListed, Corpora!HardDeleteDropsWhatItNamed,
       Corpora!At
  <2>3. QED
    BY <2>1, <2>2, CorporaStepKeeps
<1>3. QED
  BY <1>1, <1>2, PTL DEF Spec

\* For any number of requests of any kinds, however they overlap, fail or are refused: the last
\* registration that met no delete is listed, an undisturbed hard delete leaves none of the
\* indexes its record named, and no manifest gets lost (routers/corpus.py).
THEOREM CorpusRecordsFollow == Spec => RecordFollowsTheLoads
<1>1. (part = "corpora" => CorpusInv) =>
          (part = "corpora" => Corpora!LastLoadIsListed /\ Corpora!HardDeleteDropsWhatItNamed)
  BY DEF CorpusInv
<1>2. (part = "corpora" => CorpusInv) /\ [Next]_vars =>
          [part = "corpora" => Corpora!ManifestIsNeverForgotten]_vars
  <2> SUFFICES ASSUME CorpusInv, [Next]_vars, part = "corpora", ~UNCHANGED vars
               PROVE  Corpora!ManifestIsNeverForgotten
    OBVIOUS
  <2>1. Corpora!Next
    BY DEF Next, CorporaStep, RealmStoreStep, RealmOverlapStep, SecretStoreStep,
         QuestionSetsStep, SettingsStep, PromptsStep, ExternalStep
  <2>2. QED
    BY <2>1, RecordsFollow DEF Corpora!ManifestIsNeverForgotten
<1>3. QED
  BY <1>1, <1>2, CorporaAlways, PTL DEF Spec, RecordFollowsTheLoads

----------------------------------------------------------------------------
(* External RAGs *)

PlainFields == {"url", "retrieve", "knob"}
PlainChanges ==
    {[url |-> u] : u \in Urls} \cup {[retrieve |-> q] : q \in BOOLEAN}
        \cup {[knob |-> q] : q \in BOOLEAN}
HeadersOf(values) == External!PartialOn(HeaderNames, values)
HeaderChanges(values) == {[headers |-> hs] : hs \in HeadersOf(values)}
RagRecords == External!Records(External!Capabilities)

\* A request under way writes the field it asks for, and the headers only as headers.
PatchOK(e) ==
    /\ e.op = "patch"
    /\ \/ e.asked \in PlainChanges /\ e.write = e.asked
       \/ e.asked \in HeaderChanges(HeaderValues \cup {MaskShown})
          /\ e.write \in HeaderChanges(HeaderValues)

EditsOK == \A c \in Editors : edit[c] = External!Idle \/ PatchOK(edit[c])

ExternalInv ==
    /\ External!TypeOK
    /\ rag = External!None <=> meant = External!None
    /\ meant # External!None => meant \in RagRecords
    /\ edit \in [Editors -> {edit[c] : c \in Editors}]
    /\ EditsOK
    /\ probe.op \in {"idle", "read", "answered"}
    /\ probe.op # "idle" => probe.doc \in RagRecords
    /\ External!NoEditIsLost

LEMMA RecordIsNotNone == \A r \in RagRecords : r # External!None
<1> SUFFICES ASSUME NEW r \in RagRecords, r = External!None PROVE FALSE
  OBVIOUS
<1>1. DOMAIN r = {"url", "retrieve", "knob", "headers", "caps"}
  BY DEF RagRecords, External!Records
<1>2. DOMAIN External!None = {"absent"}
  BY DEF External!None
<1>3. QED
  BY <1>1, <1>2

\* A $set of one field leaves the rest of the record alone.
LEMMA OverKeepsTheRest ==
  ASSUME NEW r \in RagRecords, NEW w \in PlainChanges \cup HeaderChanges(HeaderValues)
  PROVE  /\ External!Over(w, r) \in RagRecords
         /\ \A f \in PlainFields :
                External!Over(w, r)[f] = IF f \in DOMAIN w THEN w[f] ELSE r[f]
<1>1. r \in [url : Urls, retrieve : BOOLEAN, knob : BOOLEAN, headers : HeadersOf(HeaderValues),
             caps : External!Capabilities]
  BY DEF RagRecords, External!Records, HeadersOf
<1>2. DOMAIN r = {"url", "retrieve", "knob", "headers", "caps"}
  BY <1>1
<1> DEFINE o == External!Over(w, r)
<1>3. o = [f \in {"url", "retrieve", "knob", "headers", "caps"} |->
             IF f \in DOMAIN w THEN w[f] ELSE r[f]]
  BY <1>2 DEF External!Over
<1>4. /\ "url" \in DOMAIN w => w["url"] \in Urls
      /\ "retrieve" \in DOMAIN w => w["retrieve"] \in BOOLEAN
      /\ "knob" \in DOMAIN w => w["knob"] \in BOOLEAN
      /\ "headers" \in DOMAIN w => w["headers"] \in HeadersOf(HeaderValues)
      /\ "caps" \notin DOMAIN w
  BY DEF PlainChanges, HeaderChanges
<1>5. /\ o["url"] \in Urls /\ o["retrieve"] \in BOOLEAN /\ o["knob"] \in BOOLEAN
      /\ o["headers"] \in HeadersOf(HeaderValues) /\ o["caps"] \in External!Capabilities
  BY <1>1, <1>3, <1>4
<1>6. o = [url |-> o["url"], retrieve |-> o["retrieve"], knob |-> o["knob"],
           headers |-> o["headers"], caps |-> o["caps"]]
  BY <1>3
<1>7. o \in RagRecords
  BY <1>5, <1>6 DEF RagRecords, External!Records, HeadersOf
<1>8. \A f \in PlainFields : o[f] = IF f \in DOMAIN w THEN w[f] ELSE r[f]
  BY <1>3 DEF PlainFields
<1>9. QED
  BY <1>7, <1>8

\* What is stored for the headers an edit sends is headers again.
LEMMA SealedHeadersAreHeaders ==
  ASSUME NEW hs \in HeadersOf(HeaderValues \cup {MaskShown}), NEW old \in HeadersOf(HeaderValues)
  PROVE  External!SealedHeaders(External!Sent(hs, old), old) \in HeadersOf(HeaderValues)
<1> DEFINE q == External!Sent(hs, old)
<1>1. PICK D \in SUBSET HeaderNames : hs \in [D -> HeaderValues \cup {MaskShown}]
  BY DEF HeadersOf, External!PartialOn
<1>2. PICK E \in SUBSET HeaderNames : old \in [E -> HeaderValues]
  BY DEF HeadersOf, External!PartialOn
<1>3. /\ DOMAIN q \subseteq D
      /\ \A n \in DOMAIN q : q[n] \in HeaderValues \cup {MaskShown}
  BY <1>1 DEF External!Sent, External!Restrict
<1> HIDE DEF q
<1> DEFINE F == {m \in DOMAIN q : q[m] # MaskShown \/ m \in DOMAIN old}
           o == External!SealedHeaders(q, old)
<1>4. o = [n \in F |-> IF q[n] = MaskShown THEN old[n] ELSE q[n]]
  BY DEF External!SealedHeaders
<1>5. \A n \in F : (IF q[n] = MaskShown THEN old[n] ELSE q[n]) \in HeaderValues
  BY <1>2, <1>3
<1>6. o \in [F -> HeaderValues]
  BY <1>4, <1>5
<1>7. F \in SUBSET HeaderNames
  BY <1>1, <1>3
<1>8. QED
  BY <1>6, <1>7 DEF HeadersOf, External!PartialOn, q

\* The write of an edit is the plain field it asks for or the headers that are to be stored.
LEMMA EditsWriteWhatTheyAsk ==
  ASSUME NEW r \in RagRecords, NEW q \in External!Changes
  PROVE  \/ q \in PlainChanges /\ External!Written(q, r) = q
         \/ q \in HeaderChanges(HeaderValues \cup {MaskShown})
            /\ External!Written(q, r) \in HeaderChanges(HeaderValues)
<1>1. CASE q \in PlainChanges
  <2>1. "headers" \notin DOMAIN q
    BY <1>1 DEF PlainChanges
  <2>2. QED
    BY <1>1, <2>1 DEF External!Written
<1>2. CASE q \in HeaderChanges(HeaderValues \cup {MaskShown})
  <2>1. PICK hs \in HeadersOf(HeaderValues \cup {MaskShown}) : q = [headers |-> hs]
    BY <1>2 DEF HeaderChanges
  <2>2. r.headers \in HeadersOf(HeaderValues)
    BY DEF RagRecords, External!Records, HeadersOf
  <2>3. External!Written(q, r) =
            [headers |-> External!SealedHeaders(External!Sent(hs, r.headers), r.headers)]
    BY <2>1 DEF External!Written
  <2>4. QED
    BY <1>2, <2>2, <2>3, SealedHeadersAreHeaders DEF HeaderChanges
<1>3. QED
  BY <1>1, <1>2 DEF External!Changes, PlainChanges, HeaderChanges, HeadersOf

\* An edit does to the record what it does to the record it is meant for, headers apart.
LEMMA EditsDoAsMeant ==
  ASSUME NEW r \in RagRecords, NEW m \in RagRecords, NEW e, PatchOK(e),
         \A f \in PlainFields : r[f] = m[f]
  PROVE  /\ External!Over(e.write, r) \in RagRecords
         /\ External!Asked(m, e.asked) \in RagRecords
         /\ \A f \in PlainFields :
                External!Over(e.write, r)[f] = External!Asked(m, e.asked)[f]
<1>1. CASE e.asked \in PlainChanges /\ e.write = e.asked
  <2>1. "headers" \notin DOMAIN e.asked
    BY <1>1 DEF PlainChanges
  <2>2. External!Asked(m, e.asked) = External!Over(e.asked, m)
    BY <2>1 DEF External!Asked, External!Written
  <2>3. QED
    BY <1>1, <2>2, OverKeepsTheRest
<1>2. CASE /\ e.asked \in HeaderChanges(HeaderValues \cup {MaskShown})
           /\ e.write \in HeaderChanges(HeaderValues)
  <2>1. e.asked \in External!Changes
    BY <1>2 DEF External!Changes, HeaderChanges, HeadersOf
  <2>2. "headers" \in DOMAIN e.asked
    BY <1>2 DEF HeaderChanges
  <2>3. PICK w \in HeaderChanges(HeaderValues) : External!Written(e.asked, m) = w
    <3>1. e.asked \notin PlainChanges
      BY <2>2 DEF PlainChanges
    <3>2. QED
      BY <2>1, <3>1, EditsWriteWhatTheyAsk
  <2>4. External!Asked(m, e.asked) = External!Over(w, m)
    BY <2>3 DEF External!Asked
  <2>5. \A f \in PlainFields : f \notin DOMAIN w /\ f \notin DOMAIN e.write
    BY <1>2 DEF HeaderChanges, PlainFields
  <2>6. QED
    BY <1>2, <2>4, <2>5, OverKeepsTheRest
<1>3. QED
  BY <1>1, <1>2 DEF PatchOK

LEMMA ExternalInit == Init => (part = "external" => ExternalInv)
<1> SUFFICES ASSUME External!Init PROVE ExternalInv
  BY DEF Init
<1>1. rag \in External!Records({External!NoCaps}) => rag \in RagRecords
  BY DEF External!Records, RagRecords, External!Capabilities
<1>2. rag = External!None \/ rag \in RagRecords
  BY <1>1 DEF External!Init
<1>3. External!TypeOK
  <2>1. rag \in {External!None} \cup External!Records(External!Capabilities)
    BY <1>2 DEF RagRecords
  <2>2. sets \subseteq RagDatasets /\ sent = External!None
    BY DEF External!Init
  <2>3. QED
    BY <2>1, <2>2 DEF External!TypeOK
<1>4. EditsOK /\ edit \in [Editors -> {edit[c] : c \in Editors}]
  BY DEF External!Init, EditsOK
<1>5. probe.op = "idle"
  BY DEF External!Init, External!Idle
<1>6. meant = rag
  BY DEF External!Init
<1>7. External!NoEditIsLost
  BY <1>6 DEF External!NoEditIsLost
<1>8. QED
  BY <1>2, <1>3, <1>4, <1>5, <1>6, <1>7, RecordIsNotNone DEF ExternalInv

\* A step that leaves the record, the edits and the test alone.
LEMMA ExternalFrame ==
  ASSUME ExternalInv, UNCHANGED <<rag, edit, probe, meant>>, sets' \subseteq RagDatasets,
         sent' # External!None => sent'.headers \in HeadersOf(HeaderValues)
  PROVE  ExternalInv'
<1>1. External!TypeOK'
  BY DEF ExternalInv, External!TypeOK, HeadersOf
<1>2. EditsOK'
  BY DEF ExternalInv, EditsOK, PatchOK
<1>3. External!NoEditIsLost'
  BY DEF ExternalInv, External!NoEditIsLost
<1>4. QED
  BY <1>1, <1>2, <1>3 DEF ExternalInv

LEMMA ExternalStepKeeps ==
  ASSUME ExternalInv, External!Next PROVE ExternalInv'
<1>t. /\ rag # External!None => rag \in RagRecords
      /\ sets \subseteq RagDatasets
      /\ sent # External!None => sent.headers \in HeadersOf(HeaderValues)
  BY DEF ExternalInv, External!TypeOK, RagRecords, HeadersOf
<1>h. \A q \in RagRecords : q.headers \in HeadersOf(HeaderValues)
  BY DEF RagRecords, External!Records, HeadersOf
<1>1. CASE External!Post
  BY <1>1, <1>t, ExternalFrame DEF External!Post
<1>2. CASE External!RegisterDataset
  BY <1>2, <1>t, ExternalFrame DEF External!RegisterDataset
<1>3. CASE External!Cascade
  BY <1>3, <1>t, ExternalFrame DEF External!Cascade
<1>4. CASE External!Run
  BY <1>4, <1>t, <1>h, ExternalFrame DEF External!Run
<1>5. ASSUME NEW c \in Editors, External!PatchRead(c) PROVE ExternalInv'
  <2>1. PICK q \in External!Changes :
            edit' = [edit EXCEPT ![c] = [op |-> "patch", asked |-> q,
                                         write |-> External!Written(q, rag)]]
    BY <1>5 DEF External!PatchRead
  <2>2. rag \in RagRecords
    BY <1>5, <1>t DEF External!PatchRead
  <2>3. PatchOK([op |-> "patch", asked |-> q, write |-> External!Written(q, rag)])
    BY <2>2, EditsWriteWhatTheyAsk DEF PatchOK
  <2>4. \A d \in Editors : edit'[d] = edit[d] \/ PatchOK(edit'[d])
    BY <2>1, <2>3 DEF ExternalInv
  <2>5. EditsOK'
    BY <2>4 DEF ExternalInv, EditsOK, PatchOK
  <2>6. edit' \in [Editors -> {edit'[d] : d \in Editors}]
    BY <2>1 DEF ExternalInv
  <2>7. QED
    BY <1>5, <2>5, <2>6 DEF ExternalInv, External!PatchRead, External!TypeOK,
       External!NoEditIsLost
<1>6. ASSUME NEW c \in Editors, External!PatchWrite(c) PROVE ExternalInv'
  <2>1. PatchOK(edit[c])
    BY <1>6 DEF External!PatchWrite, ExternalInv, EditsOK
  <2>2. /\ edit' = [edit EXCEPT ![c] = External!Idle]
        /\ rag' = External!Set(rag, edit[c].write)
        /\ meant' = IF meant = External!None THEN External!None
                    ELSE External!Asked(meant, edit[c].asked)
        /\ UNCHANGED <<sets, sent, probe>>
    BY <1>6 DEF External!PatchWrite
  <2>3. EditsOK' /\ edit' \in [Editors -> {edit'[d] : d \in Editors}]
    <3>1. \A d \in Editors : edit'[d] = edit[d] \/ edit'[d] = External!Idle
      BY <2>2 DEF ExternalInv
    <3>2. EditsOK'
      BY <3>1 DEF ExternalInv, EditsOK, PatchOK
    <3>3. QED
      BY <2>2, <3>2 DEF ExternalInv
  <2>4. CASE rag = External!None
    <3>1. meant = External!None
      BY <2>4 DEF ExternalInv
    <3>2. rag' = External!None /\ meant' = External!None
      BY <2>2, <2>4, <3>1 DEF External!Set
    <3>3. QED
      BY <2>2, <2>3, <3>2, <1>t DEF ExternalInv, External!TypeOK, External!NoEditIsLost
  <2>5. CASE rag # External!None
    <3>1. rag \in RagRecords /\ meant \in RagRecords /\ meant # External!None
      BY <2>5, <1>t DEF ExternalInv
    <3>2. \A f \in PlainFields : rag[f] = meant[f]
      BY <2>5, <3>1 DEF ExternalInv, External!NoEditIsLost, PlainFields
    <3>3. rag' = External!Over(edit[c].write, rag) /\ meant' = External!Asked(meant, edit[c].asked)
      BY <2>2, <2>5, <3>1 DEF External!Set
    <3>4. /\ rag' \in RagRecords /\ meant' \in RagRecords
          /\ \A f \in PlainFields : rag'[f] = meant'[f]
      BY <2>1, <3>1, <3>2, <3>3, EditsDoAsMeant
    <3>5. rag' # External!None /\ meant' # External!None
      BY <3>4, RecordIsNotNone
    <3>6. External!NoEditIsLost'
      BY <3>4 DEF External!NoEditIsLost, PlainFields
    <3>7. External!TypeOK'
      BY <2>2, <3>4, <1>t DEF External!TypeOK, RagRecords, HeadersOf
    <3>8. probe'.op \in {"idle", "read", "answered"} /\ (probe'.op # "idle" => probe'.doc \in RagRecords)
      BY <2>2 DEF ExternalInv
    <3>9. QED
      BY <2>3, <3>4, <3>5, <3>6, <3>7, <3>8 DEF ExternalInv
  <2>6. QED
    BY <2>4, <2>5
<1>7. CASE External!Delete
  <2>1. rag' = External!None /\ meant' = External!None /\ UNCHANGED <<sets, edit, probe, sent>>
    BY <1>7 DEF External!Delete
  <2>2. EditsOK'
    BY <2>1 DEF ExternalInv, EditsOK, PatchOK
  <2>3. QED
    BY <2>1, <2>2, <1>t DEF ExternalInv, External!TypeOK, External!NoEditIsLost
<1>8. CASE External!TestRead
  <2>1. /\ probe' = [op |-> "read", doc |-> rag] /\ rag \in RagRecords
        /\ UNCHANGED <<rag, sets, edit, meant, sent>>
    BY <1>8, <1>t DEF External!TestRead
  <2>2. EditsOK'
    BY <2>1 DEF ExternalInv, EditsOK, PatchOK
  <2>3. QED
    BY <2>1, <2>2, <1>t DEF ExternalInv, External!TypeOK, External!NoEditIsLost
<1>9. CASE External!TestCall
  <2>1. /\ probe.doc \in RagRecords
        /\ sent' = [headers |-> probe.doc.headers, knob |-> FALSE, declared |-> FALSE]
        /\ probe' \in {External!Idle, [probe EXCEPT !.op = "answered"]}
        /\ UNCHANGED <<rag, sets, edit, meant>>
    BY <1>9 DEF External!TestCall, ExternalInv
  <2>2. sent'.headers \in HeadersOf(HeaderValues)
    BY <2>1, <1>h
  <2>3. EditsOK'
    BY <2>1 DEF ExternalInv, EditsOK, PatchOK
  <2>4. /\ probe'.op \in {"idle", "read", "answered"}
        /\ probe'.op # "idle" => probe'.doc \in RagRecords
    <3>1. CASE probe' = External!Idle
      BY <3>1 DEF External!Idle
    <3>2. CASE probe' = [probe EXCEPT !.op = "answered"]
      <4>1. probe'.doc = probe.doc
        BY <3>2
      <4>2. probe'.op \in {probe.op, "answered"}
        BY <3>2
      <4>3. QED
        BY <2>1, <4>1, <4>2 DEF ExternalInv
    <3>3. QED
      BY <2>1, <3>1, <3>2
  <2>5. QED
    BY <2>1, <2>2, <2>3, <2>4, <1>t DEF ExternalInv, External!TypeOK, External!NoEditIsLost,
       HeadersOf
<1>10. CASE External!TestWrite
  <2>1. /\ rag' = External!WriteProbe(rag, probe.doc) /\ probe' = External!Idle
        /\ probe.doc \in RagRecords /\ UNCHANGED <<sets, edit, meant, sent>>
    BY <1>10 DEF External!TestWrite, ExternalInv
  <2>2. EditsOK'
    BY <2>1 DEF ExternalInv, EditsOK, PatchOK
  <2>3. probe'.op = "idle"
    BY <2>1 DEF External!Idle
  <2>4. CASE rag = External!None
    BY <2>1, <2>2, <2>3, <2>4, <1>t DEF ExternalInv, External!TypeOK, External!NoEditIsLost,
       External!WriteProbe
  <2>5. CASE rag # External!None
    <3>1. rag \in RagRecords /\ meant # External!None
      BY <2>5, <1>t DEF ExternalInv
    <3>2. External!Probed(probe.doc) \in External!Capabilities
      <4>1. probe.doc.retrieve \in BOOLEAN /\ probe.doc.knob \in BOOLEAN
        BY <2>1 DEF RagRecords, External!Records
      <4>2. QED
        BY <4>1 DEF External!Probed, External!Capabilities
    <3> DEFINE k == External!Probed(probe.doc)
    <3>3. rag' = [rag EXCEPT !.caps = k]
      BY <2>1, <2>5 DEF External!WriteProbe
    <3> HIDE DEF k
    <3>4. rag' \in RagRecords
      BY <3>1, <3>2, <3>3 DEF RagRecords, External!Records, k
    <3>5. \A f \in PlainFields : rag'[f] = rag[f]
      BY <3>1, <3>3 DEF RagRecords, External!Records, PlainFields
    <3>6. rag' # External!None
      BY <3>4, RecordIsNotNone
    <3>7. External!NoEditIsLost'
      BY <2>1, <2>5, <3>1, <3>5 DEF ExternalInv, External!NoEditIsLost, PlainFields
    <3>8. External!TypeOK'
      BY <2>1, <3>4, <1>t DEF External!TypeOK, RagRecords, HeadersOf
    <3>9. QED
      BY <2>1, <2>2, <2>3, <3>1, <3>4, <3>6, <3>7, <3>8 DEF ExternalInv
  <2>6. QED
    BY <2>4, <2>5
<1>11. QED
  BY <1>1, <1>2, <1>3, <1>4, <1>5, <1>6, <1>7, <1>8, <1>9, <1>10 DEF External!Next

LEMMA ExternalAlways == Spec => [](part = "external" => ExternalInv)
<1>1. Init => (part = "external" => ExternalInv)
  BY ExternalInit
<1>2. (part = "external" => ExternalInv) /\ [Next]_vars => (part = "external" => ExternalInv)'
  <2> SUFFICES ASSUME part = "external" => ExternalInv, [Next]_vars, part' = "external"
               PROVE  ExternalInv'
    OBVIOUS
  <2>1. part = "external" /\ (External!Next \/ UNCHANGED externalVars)
    BY DEF Next, vars, CorporaStep, RealmStoreStep, RealmOverlapStep, SecretStoreStep,
         QuestionSetsStep, SettingsStep, PromptsStep, ExternalStep
  <2>2. CASE UNCHANGED externalVars
    <3>1. sets \subseteq RagDatasets /\ (sent # External!None => sent.headers \in HeadersOf(HeaderValues))
      BY <2>1 DEF ExternalInv, External!TypeOK, HeadersOf
    <3>2. QED
      BY <2>1, <2>2, <3>1, ExternalFrame DEF externalVars
  <2>3. QED
    BY <2>1, <2>2, ExternalStepKeeps
<1>3. QED
  BY <1>1, <1>2, PTL DEF Spec

\* A corpus whose record says it is deleted is brought back by a restore or a new registration
\* only, and an external RAG whose record is gone by nothing: an edit, a test or a load that
\* read it before does not write it back (routers/corpus.py, routers/external_rags.py).
THEOREM DeletedIsNotBroughtBack == Spec => DeletedStaysDeleted
<1>1. (part = "corpora" => CorpusInv) /\ [Next]_vars =>
          [part = "corpora" => Corpora!DeletedStaysDeleted]_vars
  <2> SUFFICES ASSUME CorpusInv, [Next]_vars, part = "corpora", ~UNCHANGED vars
               PROVE  Corpora!DeletedStaysDeleted
    OBVIOUS
  <2>1. Corpora!Next
    BY DEF Next, CorporaStep, RealmStoreStep, RealmOverlapStep, SecretStoreStep,
         QuestionSetsStep, SettingsStep, PromptsStep, ExternalStep
  <2>2. QED
    BY <2>1, RecordsFollow DEF Corpora!DeletedStaysDeleted
<1>2. [Next]_vars => [part = "external" => External!DeletedStaysDeleted]_vars
  <2> SUFFICES ASSUME [Next]_vars, part = "external", ~UNCHANGED vars
               PROVE  External!DeletedStaysDeleted
    OBVIOUS
  <2>1. External!Next
    BY DEF Next, CorporaStep, RealmStoreStep, RealmOverlapStep, SecretStoreStep,
         QuestionSetsStep, SettingsStep, PromptsStep, ExternalStep
  <2>2. QED
    BY <2>1 DEF External!DeletedStaysDeleted, External!Next, External!Post,
       External!RegisterDataset, External!PatchRead, External!PatchWrite, External!Set,
       External!Delete, External!Cascade, External!TestRead, External!TestCall,
       External!TestWrite, External!WriteProbe, External!Run
<1>3. QED
  BY <1>1, <1>2, CorporaAlways, PTL DEF Spec, DeletedStaysDeleted

----------------------------------------------------------------------------
(* Realms *)

\* Realm ids: a slug, and what renaming imports appended.
RealmIds == Seq(RealmNames \cup Nat)
RealmDoc == [oid : Nat, id : RealmIds, deleted : BOOLEAN, metrics : BOOLEAN]
AtWork == client[RealmClient]

\* What the one handler that may be running knows: an import has an id that no realm has, a
\* hard delete about to remove a realm has seen that no RAG is linked to it.
HandlerKnows ==
    /\ AtWork.op \in {"free", "create", "edit", "count", "remove", "import", "delete rag", "cascade"}
    /\ AtWork.op = "free" => AtWork = RealmStore!Free
    /\ AtWork.op \in {"create", "import"} => AtWork.id \in RealmIds
    /\ AtWork.op = "edit" => AtWork.what \in {"delete", "restore", "metrics"}
    /\ AtWork.op = "import" => RealmStore!WithId(realms, AtWork.id) = {}
    /\ AtWork.op = "import" =>
           DOMAIN AtWork = {"op", "id", "dry_run", "rags", "datasets"}
    /\ AtWork.op = "remove" => RealmStore!OfRealm(rags, AtWork.id) = {}

RealmInv ==
    /\ client = [c \in {RealmClient} |-> client[c]]
    /\ oid \in Nat
    /\ realms \subseteq RealmDoc
    /\ \A d \in realms : d.oid < oid
    /\ \A d, e \in realms : d.oid = e.oid => d = e
    /\ \A q \in exports : q.id \in RealmIds
    /\ RealmStore!OneRealmPerId
    /\ HandlerKnows
    /\ \A r \in rags : \/ RealmStore!WithId(realms, r.realm) # {}
                       \/ AtWork.op = "import" /\ ~AtWork.dry_run /\ r.realm = AtWork.id

\* A renaming import finds a suffix that no realm has: there are more of them than realms.
LEMMA FreshIsFree ==
  ASSUME oid \in Nat, realms \subseteq RealmDoc, \A d \in realms : d.oid < oid,
         \A d, e \in realms : d.oid = e.oid => d = e, NEW i \in RealmIds
  PROVE  RealmStore!Fresh(i) \in RealmIds /\ RealmStore!WithId(realms, RealmStore!Fresh(i)) = {}
<1> DEFINE S == {n \in 2..(oid + 2) :
                    RealmStore!WithId(realms, RealmStore!Renamed(i, n)) = {}}
<1>1. \A n \in Nat : Append(i, n) \in RealmIds
  BY DEF RealmIds
<1>2. \A m, n \in Nat : Append(i, m) = Append(i, n) => m = n
  <2> SUFFICES ASSUME NEW m \in Nat, NEW n \in Nat, Append(i, m) = Append(i, n) PROVE m = n
    OBVIOUS
  <2>1. Append(i, m)[Len(i) + 1] = m /\ Append(i, n)[Len(i) + 1] = n
    BY DEF RealmIds
  <2>2. QED
    BY <2>1
<1>3. S # {}
  <2> SUFFICES ASSUME S = {} PROVE FALSE
    OBVIOUS
  <2>1. \A n \in 2..(oid + 2) : \E d \in realms : d.id = Append(i, n)
    BY DEF RealmStore!WithId, RealmStore!Renamed
  <2> DEFINE D(n) == CHOOSE d \in realms : d.id = Append(i, n)
             f == [n \in 2..(oid + 2) |-> D(n).oid]
  <2>2. \A n \in 2..(oid + 2) : D(n) \in realms /\ D(n).id = Append(i, n)
    BY <2>1
  <2> HIDE DEF D
  <2>3. f \in [2..(oid + 2) -> 0..(oid - 1)]
    <3>1. \A d \in realms : d.oid \in 0..(oid - 1)
      BY DEF RealmDoc
    <3>2. QED
      BY <2>2, <3>1
  <2>4. /\ IsFiniteSet(2..(oid + 2)) /\ IsFiniteSet(0..(oid - 1))
        /\ Cardinality(0..(oid - 1)) < Cardinality(2..(oid + 2))
    <3>1. Cardinality(2..(oid + 2)) = oid + 1 /\ IsFiniteSet(2..(oid + 2))
      BY FS_Interval, 2 \in Int, oid + 2 \in Int, ~(2 > oid + 2), oid + 2 - 2 + 1 = oid + 1
    <3>2. Cardinality(0..(oid - 1)) = oid /\ IsFiniteSet(0..(oid - 1))
      <4>1. 0 \in Int /\ oid - 1 \in Int
        OBVIOUS
      <4>2. /\ IsFiniteSet(0..(oid - 1))
            /\ Cardinality(0..(oid - 1)) = IF 0 > oid - 1 THEN 0 ELSE oid - 1 - 0 + 1
        BY <4>1, FS_Interval
      <4>3. QED
        BY <4>2
    <3>3. QED
      BY <3>1, <3>2
  <2> HIDE DEF f
  <2>5. PICK m, n \in 2..(oid + 2) : m # n /\ f[m] = f[n]
    BY <2>3, <2>4, FS_PigeonHole
  <2>6. D(m).oid = D(n).oid
    BY <2>5 DEF f
  <2>7. D(m) = D(n)
    BY <2>2, <2>6
  <2>8. Append(i, m) = Append(i, n)
    BY <2>2, <2>7
  <2>9. QED
    BY <1>2, <2>5, <2>8
<1>4. \E m \in S : \A k \in S : m <= k
  <2>1. S \in SUBSET Nat
    OBVIOUS
  <2> HIDE DEF S
  <2>2. QED
    BY <1>3, <2>1, LeastNumberOf
<1>5. RealmStore!Min(S) \in S
  BY <1>4 DEF RealmStore!Min
<1>6. RealmStore!Fresh(i) = Append(i, RealmStore!Min(S))
  BY DEF RealmStore!Fresh, RealmStore!Renamed
<1>7. QED
  BY SMTT(30), <1>1, <1>5, <1>6 DEF RealmStore!Renamed

LEMMA RealmInit == Init => (part = "realms" => RealmInv)
<1> SUFFICES ASSUME RealmStore!Init, RealmsAssumption PROVE RealmInv
  BY RealmsAssumption DEF Init
<1>1. /\ realms = {} /\ rags = {} /\ oid = 0
      /\ client = [c \in {RealmClient} |-> RealmStore!Free]
      /\ exports = {[id |-> RealmStore!Id(q.name), rags |-> q.rags, datasets |-> q.datasets] :
                       q \in RealmFiles}
  BY DEF RealmStore!Init
<1>2. \A q \in exports : q.id \in RealmIds
  <2>1. \A q \in RealmFiles : q.name \in RealmNames
    BY DEF RealmsAssumption, RealmStore!Assumptions
  <2>2. \A n \in RealmNames : RealmStore!Id(n) \in RealmIds
    BY DEF RealmStore!Id, RealmIds
  <2>3. QED
    BY <1>1, <2>1, <2>2
<1>3. AtWork = RealmStore!Free /\ AtWork.op = "free"
  BY <1>1 DEF AtWork, RealmStore!Free
<1>4. HandlerKnows
  BY <1>1, <1>3 DEF HandlerKnows
<1>5. QED
  BY <1>1, <1>2, <1>4 DEF RealmInv, RealmStore!OneRealmPerId

\* The handler moves on to h.
LEMMA HandlerMoves ==
  ASSUME RealmInv, NEW h, client' = [client EXCEPT ![RealmClient] = h]
  PROVE  AtWork' = h /\ client' = [c \in {RealmClient} |-> client'[c]]
<1>1. client = [c \in {RealmClient} |-> client[c]]
  BY DEF RealmInv
<1>2. QED
  BY <1>1 DEF AtWork

\* No document changes: only what the handler is about to do.
LEMMA HandlerOnly ==
  ASSUME RealmInv, UNCHANGED <<realms, rags, oid>>, \A q \in exports' : q.id \in RealmIds,
         NEW h, client' = [client EXCEPT ![RealmClient] = h], HandlerKnows',
         AtWork.op = "import" =>
             \A r \in rags : RealmStore!WithId(realms, r.realm) # {} \/ h = AtWork
  PROVE  RealmInv'
<1>1. AtWork' = h /\ client' = [c \in {RealmClient} |-> client'[c]]
  BY HandlerMoves
<1>2. RealmStore!OneRealmPerId'
  BY DEF RealmInv, RealmStore!OneRealmPerId
<1>3. (\A r \in rags : \/ RealmStore!WithId(realms, r.realm) # {}
                       \/ AtWork.op = "import" /\ ~AtWork.dry_run /\ r.realm = AtWork.id)'
  <2> SUFFICES ASSUME NEW r \in rags, RealmStore!WithId(realms, r.realm) = {}
               PROVE  h.op = "import" /\ ~h.dry_run /\ r.realm = h.id
    BY <1>1 DEF RealmStore!WithId
  <2>1. AtWork.op = "import" /\ ~AtWork.dry_run /\ r.realm = AtWork.id
    BY DEF RealmInv
  <2>2. h = AtWork
    BY <2>1
  <2>3. QED
    BY <2>1, <2>2
<1>4. QED
  BY <1>1, <1>2, <1>3 DEF RealmInv

\* With an id of its own each realm is the oldest document of its id.
LEMMA OldestIsAll ==
  ASSUME RealmInv, NEW i
  PROVE  RealmStore!FindOne(RealmStore!WithId(realms, i)) = {d \in realms : d.id = i}
<1>1. \A d, e \in realms : d.id = e.id => d = e
  BY DEF RealmInv, RealmStore!OneRealmPerId
<1>2. \A d \in realms : d.oid <= d.oid
  BY DEF RealmInv, RealmDoc
<1>3. QED
  BY <1>1, <1>2 DEF RealmStore!FindOne, RealmStore!WithId

\* Idle, the handler is not an import.
LEMMA IdleHandler ==
  ASSUME RealmInv, RealmStore!Idle(RealmClient) PROVE AtWork.op = "free"
BY DEF RealmStore!Idle, RealmStore!Free, AtWork

LEMMA RealmCreateKeeps ==
  ASSUME RealmInv, RealmStore!CreateRealm(RealmClient), UNCHANGED <<rags, exports>>
  PROVE  RealmInv'
<1>1. CASE /\ RealmStore!Idle(RealmClient) /\ UNCHANGED <<realms, oid>>
           /\ \E name \in RealmNames : client' = [client EXCEPT ![RealmClient] =
                  [op |-> "create", id |-> RealmStore!Id(name)]]
  <2>1. PICK name \in RealmNames : client' = [client EXCEPT ![RealmClient] =
                  [op |-> "create", id |-> RealmStore!Id(name)]]
    BY <1>1
  <2> DEFINE h == [op |-> "create", id |-> RealmStore!Id(name)]
  <2>2. AtWork' = h
    BY <2>1, HandlerMoves
  <2>3. h.id \in RealmIds
    BY DEF RealmStore!Id, RealmIds
  <2>4. HandlerKnows'
    BY <2>2, <2>3 DEF HandlerKnows
  <2>5. AtWork.op = "free"
    BY <1>1, IdleHandler
  <2>6. \A q \in exports' : q.id \in RealmIds
    BY DEF RealmInv
  <2>7. QED
    BY <1>1, <2>1, <2>4, <2>5, <2>6, HandlerOnly
<1>2. CASE /\ AtWork.op = "create" /\ oid' = oid + 1
           /\ LET found == RealmStore!FindOne(RealmStore!WithId(realms, AtWork.id))
                  new == [oid |-> IF found = {} THEN oid ELSE (CHOOSE d \in found : TRUE).oid,
                          id |-> AtWork.id, deleted |-> FALSE, metrics |-> FALSE]
              IN  realms' = RealmStore!Replace(realms, found, {new})
           /\ client' = [client EXCEPT ![RealmClient] = RealmStore!Free]
  <2> DEFINE found == {d \in realms : d.id = AtWork.id}
             o == IF found = {} THEN oid ELSE (CHOOSE d \in found : TRUE).oid
             new == [oid |-> o, id |-> AtWork.id, deleted |-> FALSE, metrics |-> FALSE]
  <2>1. found = RealmStore!FindOne(RealmStore!WithId(realms, AtWork.id))
    BY OldestIsAll
  <2>2. realms' = (realms \ found) \cup {new}
    BY <1>2, <2>1 DEF RealmStore!Replace
  <2>3. /\ o \in Nat /\ o < oid + 1
        /\ \A d \in realms \ found : d.oid # o
    <3>1. CASE found = {}
      BY <3>1 DEF RealmInv, RealmDoc
    <3>2. CASE found # {}
      <4>1. PICK d \in found : o = d.oid
        BY <3>2
      <4>2. QED
        BY <4>1 DEF RealmInv, RealmDoc
    <3>3. QED
      BY <3>1, <3>2
  <2>4. AtWork.id \in RealmIds
    BY <1>2 DEF RealmInv, HandlerKnows
  <2> HIDE DEF o
  <2>5. new \in RealmDoc
    BY <2>3, <2>4 DEF RealmDoc
  <2>6. realms' \subseteq RealmDoc
    BY <2>2, <2>5 DEF RealmInv
  <2>f. /\ new.oid = o /\ new.id = AtWork.id
        /\ \A d : d \in found <=> d \in realms /\ d.id = AtWork.id
    OBVIOUS
  <2> HIDE DEF new, found
  <2>7. \A d \in realms' : d.oid < oid'
    BY <1>2, <2>2, <2>3, <2>f DEF RealmInv, RealmDoc
  <2>8. \A d, e \in realms' : d.oid = e.oid => d = e
    BY <2>2, <2>3, <2>f DEF RealmInv
  <2>9. RealmStore!OneRealmPerId'
    BY <2>2, <2>f DEF RealmInv, RealmStore!OneRealmPerId
  <2>c. client' = [client EXCEPT ![RealmClient] = RealmStore!Free]
    BY <1>2
  <2>d. AtWork' = RealmStore!Free /\ client' = [c \in {RealmClient} |-> client'[c]]
    BY <2>c, HandlerMoves
  <2>10. AtWork'.op = "free"
    BY <2>d DEF RealmStore!Free
  <2>11. HandlerKnows'
    BY <2>d, <2>10 DEF HandlerKnows
  <2>12. \A r \in rags : RealmStore!WithId(realms, r.realm) # {}
    BY <1>2 DEF RealmInv
  <2>13. \A r \in rags : RealmStore!WithId(realms', r.realm) # {}
    <3> SUFFICES ASSUME NEW r \in rags PROVE \E d \in realms' : d.id = r.realm
      BY DEF RealmStore!WithId
    <3>1. PICK d \in realms : d.id = r.realm
      BY <2>12 DEF RealmStore!WithId
    <3>2. QED
      BY <2>2, <2>f, <3>1
  <2>14. (\A r \in rags : RealmStore!WithId(realms, r.realm) # {})'
    BY <2>13 DEF RealmStore!WithId
  <2>15. oid' \in Nat /\ (\A q \in exports : q.id \in RealmIds)'
    BY <1>2 DEF RealmInv
  <2>16. QED
    BY <2>6, <2>7, <2>8, <2>9, <2>d, <2>10, <2>11, <2>14, <2>15 DEF RealmInv
<1>3. QED
  BY <1>1, <1>2 DEF RealmStore!CreateRealm, RealmStore!Begin, RealmStore!Done, RealmStore!Goto,
     AtWork

LEMMA ChangedIsTheRealm ==
  ASSUME NEW d \in RealmDoc, NEW w \in {"delete", "restore", "metrics"}
  PROVE  /\ RealmStore!Changed(d, w) \in RealmDoc
         /\ RealmStore!Changed(d, w).id = d.id /\ RealmStore!Changed(d, w).oid = d.oid
BY DEF RealmStore!Changed, RealmDoc

LEMMA RealmEditKeeps ==
  ASSUME RealmInv, RealmStore!EditRealm(RealmClient), UNCHANGED <<rags, exports>>
  PROVE  RealmInv'
<1>e. \A q \in exports' : q.id \in RealmIds
  BY DEF RealmInv
<1>1. CASE /\ RealmStore!Idle(RealmClient) /\ UNCHANGED <<realms, oid>>
           /\ \E i, w \in {d.id : d \in realms} \cup {"delete", "restore", "metrics"} :
                 /\ w \in {"delete", "restore", "metrics"}
                 /\ client' = [client EXCEPT ![RealmClient] =
                        [op |-> "edit", id |-> i, what |-> w]]
  <2>1. PICK i, w : /\ w \in {"delete", "restore", "metrics"}
                    /\ client' = [client EXCEPT ![RealmClient] =
                           [op |-> "edit", id |-> i, what |-> w]]
    BY <1>1
  <2>2. AtWork' = [op |-> "edit", id |-> i, what |-> w]
    BY <2>1, HandlerMoves
  <2>3. HandlerKnows'
    BY <2>1, <2>2 DEF HandlerKnows
  <2>4. AtWork.op = "free"
    BY <1>1, IdleHandler
  <2>5. QED
    BY <1>e, <1>1, <2>1, <2>3, <2>4, HandlerOnly
<1>2. CASE /\ AtWork.op = "edit" /\ UNCHANGED oid
           /\ LET found == RealmStore!FindOne(RealmStore!WithId(realms, AtWork.id)) IN
              realms' = RealmStore!Replace(realms, found,
                            {RealmStore!Changed(d, AtWork.what) : d \in found})
           /\ client' = [client EXCEPT ![RealmClient] = RealmStore!Free]
  <2> DEFINE found == {d \in realms : d.id = AtWork.id}
             f(d) == IF d.id = AtWork.id THEN RealmStore!Changed(d, AtWork.what) ELSE d
  <2>1. realms' = {f(d) : d \in realms}
    BY <1>2, OldestIsAll DEF RealmStore!Replace
  <2>2. AtWork.what \in {"delete", "restore", "metrics"}
    BY <1>2 DEF RealmInv, HandlerKnows
  <2>3. \A d \in realms : f(d) \in RealmDoc /\ f(d).id = d.id /\ f(d).oid = d.oid
    BY <2>2, ChangedIsTheRealm DEF RealmInv
  <2> HIDE DEF f
  <2>4. realms' \subseteq RealmDoc
    BY <2>1, <2>3
  <2>5. \A d \in realms' : d.oid < oid'
    BY <1>2, <2>1, <2>3 DEF RealmInv
  <2>6. \A d, e \in realms' : d.oid = e.oid => d = e
    BY <2>1, <2>3 DEF RealmInv
  <2>7. RealmStore!OneRealmPerId'
    BY <2>1, <2>3 DEF RealmInv, RealmStore!OneRealmPerId
  <2>c. client' = [client EXCEPT ![RealmClient] = RealmStore!Free]
    BY <1>2
  <2>d. AtWork' = RealmStore!Free /\ client' = [c \in {RealmClient} |-> client'[c]]
    BY <2>c, HandlerMoves
  <2>8. AtWork'.op = "free"
    BY <2>d DEF RealmStore!Free
  <2>9. HandlerKnows'
    BY <2>d, <2>8 DEF HandlerKnows
  <2>10. \A r \in rags : \E d \in realms : d.id = r.realm
    BY <1>2 DEF RealmInv, RealmStore!WithId
  <2>11. \A r \in rags : \E d \in realms' : d.id = r.realm
    BY <2>1, <2>3, <2>10
  <2>12. (\A r \in rags : RealmStore!WithId(realms, r.realm) # {})'
    BY <2>11 DEF RealmStore!WithId
  <2>13. oid' \in Nat /\ (\A q \in exports : q.id \in RealmIds)'
    BY <1>2 DEF RealmInv
  <2>14. QED
    BY <2>4, <2>5, <2>6, <2>7, <2>d, <2>8, <2>9, <2>12, <2>13 DEF RealmInv
<1>3. CASE \E d \in realms, w \in {"delete", "restore", "metrics"} :
              /\ RealmStore!Begin(RealmClient, [op |-> "edit", id |-> d.id, what |-> w])
              /\ UNCHANGED <<realms, oid>>
  BY <1>1, <1>3 DEF RealmStore!Begin
<1>4. QED
  BY <1>2, <1>3 DEF RealmStore!EditRealm, RealmStore!Done, RealmStore!Goto, AtWork

LEMMA HardDeleteKeeps ==
  ASSUME RealmInv, RealmStore!HardDelete(RealmClient), UNCHANGED <<rags, exports, oid>>
  PROVE  RealmInv'
<1>e. \A q \in exports' : q.id \in RealmIds
  BY DEF RealmInv
<1>1. CASE /\ RealmStore!Idle(RealmClient) /\ UNCHANGED realms
           /\ \E d \in realms : client' = [client EXCEPT ![RealmClient] = [op |-> "count", id |-> d.id]]
  <2>1. PICK d \in realms :
            client' = [client EXCEPT ![RealmClient] = [op |-> "count", id |-> d.id]]
    BY <1>1
  <2>2. AtWork' = [op |-> "count", id |-> d.id]
    BY <2>1, HandlerMoves
  <2>3. HandlerKnows'
    BY <2>2 DEF HandlerKnows
  <2>4. AtWork.op = "free"
    BY <1>1, IdleHandler
  <2>5. QED
    BY <1>e, <1>1, <2>1, <2>3, <2>4, HandlerOnly
<1>2. CASE /\ AtWork.op = "count" /\ UNCHANGED realms
           /\ RealmStore!Linked(AtWork.id) = {}
           /\ client' = [client EXCEPT ![RealmClient] = [op |-> "remove", id |-> AtWork.id]]
  <2>1. AtWork' = [op |-> "remove", id |-> AtWork.id]
    BY <1>2, HandlerMoves
  <2>2. HandlerKnows'
    BY <1>2, <2>1 DEF HandlerKnows, RealmStore!Linked, RealmStore!OfRealm
  <2>3. QED
    BY <1>e, <1>2, <2>2, HandlerOnly
<1>3. CASE /\ AtWork.op = "count" /\ UNCHANGED realms
           /\ client' = [client EXCEPT ![RealmClient] = RealmStore!Free]
  <2>1. AtWork' = RealmStore!Free
    BY <1>3, HandlerMoves
  <2>2. HandlerKnows'
    BY <2>1 DEF HandlerKnows, RealmStore!Free
  <2>3. QED
    BY <1>e, <1>3, <2>2, HandlerOnly
<1>4. CASE /\ AtWork.op = "remove"
           /\ realms' = realms \ RealmStore!FindOne(RealmStore!WithId(realms, AtWork.id))
           /\ client' = [client EXCEPT ![RealmClient] = RealmStore!Free]
  <2>1. realms' = {d \in realms : d.id # AtWork.id}
    BY <1>4, OldestIsAll
  <2>2. AtWork' = RealmStore!Free /\ client' = [c \in {RealmClient} |-> client'[c]]
    BY <1>4, HandlerMoves
  <2>3. HandlerKnows'
    BY <2>2 DEF HandlerKnows, RealmStore!Free
  <2>4. \A r \in rags : r.realm # AtWork.id /\ \E d \in realms : d.id = r.realm
    BY <1>4 DEF RealmInv, HandlerKnows, RealmStore!OfRealm, RealmStore!WithId
  <2>5. (\A r \in rags : RealmStore!WithId(realms, r.realm) # {})'
    BY <2>1, <2>4 DEF RealmStore!WithId
  <2>6. /\ realms' \subseteq RealmDoc
        /\ \A d \in realms' : d.oid < oid'
        /\ \A d, e \in realms' : d.oid = e.oid => d = e
        /\ RealmStore!OneRealmPerId'
    BY <2>1 DEF RealmInv, RealmStore!OneRealmPerId
  <2>7. oid' \in Nat
    BY DEF RealmInv
  <2>8. QED
    BY <1>e, <2>2, <2>3, <2>5, <2>6, <2>7 DEF RealmInv
<1>5. QED
  BY <1>1, <1>2, <1>3, <1>4 DEF RealmStore!HardDelete, RealmStore!Begin, RealmStore!Done,
     RealmStore!Goto, AtWork

LEMMA StartImportKeeps ==
  ASSUME RealmInv, RealmStore!StartImport(RealmClient), UNCHANGED exports
  PROVE  RealmInv'
<1>e. \A q \in exports' : q.id \in RealmIds
  BY DEF RealmInv
<1> DEFINE H(q, d, i) == [op |-> "import", id |-> i, dry_run |-> d, rags |-> q.rags,
                          datasets |-> q.datasets]
<1>1. PICK q \in exports, d \in BOOLEAN :
          client' = [client EXCEPT ![RealmClient] =
              H(q, d, IF RealmStore!WithId(realms, q.id) # {} THEN RealmStore!Fresh(q.id)
                      ELSE q.id)]
  BY DEF RealmStore!StartImport, RealmStore!Begin
<1>2. RealmStore!Idle(RealmClient) /\ UNCHANGED <<realms, rags, datasets, oid>>
  BY DEF RealmStore!StartImport, RealmStore!Begin
<1> DEFINE i == IF RealmStore!WithId(realms, q.id) # {} THEN RealmStore!Fresh(q.id) ELSE q.id
<1>3. i \in RealmIds /\ RealmStore!WithId(realms, i) = {}
  <2>1. q.id \in RealmIds
    BY DEF RealmInv
  <2>2. RealmStore!Fresh(q.id) \in RealmIds /\ RealmStore!WithId(realms, RealmStore!Fresh(q.id)) = {}
    BY <2>1, FreshIsFree DEF RealmInv
  <2>3. QED
    BY <2>1, <2>2
<1>4. client' = [client EXCEPT ![RealmClient] = H(q, d, i)]
  BY <1>1
<1> HIDE DEF i
<1>5. AtWork' = H(q, d, i)
  BY <1>4, HandlerMoves
<1>6. HandlerKnows'
  BY <1>2, <1>3, <1>5 DEF HandlerKnows, RealmStore!WithId
<1>7. AtWork.op = "free"
  BY <1>2, IdleHandler
<1> HIDE DEF H
<1>8. QED
  BY <1>e, <1>2, <1>4, <1>6, <1>7, HandlerOnly

LEMMA ImportStepKeeps ==
  ASSUME RealmInv, RealmStore!ImportStep(RealmClient), UNCHANGED exports
  PROVE  RealmInv'
<1>e. \A q \in exports' : q.id \in RealmIds
  BY DEF RealmInv
<1>t. /\ AtWork.op = "import" /\ AtWork.id \in RealmIds
      /\ RealmStore!WithId(realms, AtWork.id) = {}
      /\ DOMAIN AtWork = {"op", "id", "dry_run", "rags", "datasets"}
  BY DEF RealmInv, HandlerKnows, RealmStore!ImportStep, AtWork
<1>d. \A d \in realms : d.id # AtWork.id
  BY <1>t DEF RealmStore!WithId
<1>r. \A r \in rags : (\E d \in realms : d.id = r.realm) \/ (~AtWork.dry_run /\ r.realm = AtWork.id)
  BY DEF RealmInv, RealmStore!WithId
<1>1. CASE /\ AtWork.dry_run /\ UNCHANGED <<realms, rags, oid>>
           /\ client' = [client EXCEPT ![RealmClient] = RealmStore!Free]
  <2>1. AtWork' = RealmStore!Free
    BY <1>1, HandlerMoves
  <2>2. QED
    <3>1. HandlerKnows'
      BY <2>1 DEF HandlerKnows, RealmStore!Free
    <3>2. \A r \in rags : RealmStore!WithId(realms, r.realm) # {}
      BY <1>1, <1>r DEF RealmStore!WithId
    <3>3. QED
      BY <1>e, <1>1, <3>1, <3>2, HandlerOnly
<1>2. CASE /\ ~AtWork.dry_run /\ UNCHANGED realms /\ oid' = oid + 1
           /\ \A r \in rags' : r \in rags \/ r.realm = AtWork.id
           /\ \E field \in {"rags", "datasets"} : \E v :
                 client' = [client EXCEPT ![RealmClient] = [AtWork EXCEPT ![field] = v]]
  <2>0. PICK field \in {"rags", "datasets"} :
            \E v : client' = [client EXCEPT ![RealmClient] = [AtWork EXCEPT ![field] = v]]
    BY <1>2
  <2>1. PICK v : client' = [client EXCEPT ![RealmClient] = [AtWork EXCEPT ![field] = v]]
    BY <2>0
  <2>2. /\ AtWork' = [AtWork EXCEPT ![field] = v]
        /\ client' = [c \in {RealmClient} |-> client'[c]]
    BY <2>1, HandlerMoves
  <2>3. /\ AtWork'.op = "import" /\ AtWork'.id = AtWork.id /\ AtWork'.dry_run = AtWork.dry_run
        /\ DOMAIN AtWork' = DOMAIN AtWork
    BY <2>2, <1>t
  <2>4. HandlerKnows'
    BY <1>2, <1>t, <2>3 DEF HandlerKnows, RealmStore!WithId
  <2>5. (\A r \in rags : \/ RealmStore!WithId(realms, r.realm) # {}
                         \/ AtWork.op = "import" /\ ~AtWork.dry_run /\ r.realm = AtWork.id)'
    BY <1>2, <1>r, <2>3 DEF RealmStore!WithId
  <2>6. /\ realms' \subseteq RealmDoc /\ oid' \in Nat
        /\ \A d \in realms' : d.oid < oid'
        /\ \A d, e \in realms' : d.oid = e.oid => d = e
        /\ RealmStore!OneRealmPerId'
    BY <1>2 DEF RealmInv, RealmStore!OneRealmPerId, RealmDoc
  <2>7. QED
    BY <1>e, <2>2, <2>4, <2>5, <2>6 DEF RealmInv
<1>3. CASE /\ UNCHANGED rags /\ oid' = oid + 1
           /\ realms' = realms \cup {[oid |-> oid, id |-> AtWork.id, deleted |-> FALSE,
                                     metrics |-> FALSE]}
           /\ client' = [client EXCEPT ![RealmClient] = RealmStore!Free]
  <2> DEFINE new == [oid |-> oid, id |-> AtWork.id, deleted |-> FALSE, metrics |-> FALSE]
  <2>1. AtWork' = RealmStore!Free /\ client' = [c \in {RealmClient} |-> client'[c]]
    BY <1>3, HandlerMoves
  <2>2. HandlerKnows'
    BY <2>1 DEF HandlerKnows, RealmStore!Free
  <2>3. new \in RealmDoc /\ new.oid = oid /\ new.id = AtWork.id
    BY <1>t DEF RealmDoc, RealmInv
  <2>4. realms' = realms \cup {new}
    BY <1>3
  <2> HIDE DEF new
  <2>5. (\A r \in rags : RealmStore!WithId(realms, r.realm) # {})'
    <3> SUFFICES ASSUME NEW r \in rags PROVE \E d \in realms' : d.id = r.realm
      BY <1>3 DEF RealmStore!WithId
    <3>1. QED
      BY <1>r, <2>3, <2>4
  <2>6. realms' \subseteq RealmDoc /\ oid' \in Nat
    BY <1>3, <2>3, <2>4 DEF RealmInv
  <2>7. \A d \in realms' : d.oid < oid'
    BY <1>3, <2>3, <2>4 DEF RealmInv, RealmDoc
  <2>8. \A d, e \in realms' : d.oid = e.oid => d = e
    BY <2>3, <2>4 DEF RealmInv, RealmDoc
  <2>9. RealmStore!OneRealmPerId'
    BY <2>3, <2>4, <1>d DEF RealmInv, RealmStore!OneRealmPerId
  <2>10. QED
    BY <1>e, <2>1, <2>2, <2>5, <2>6, <2>7, <2>8, <2>9 DEF RealmInv
<1>4. QED
  <2>1. CASE ~AtWork.dry_run /\ AtWork.rags # <<>>
    <3>1. /\ rags' = rags \cup {[oid |-> oid, id |-> Head(AtWork.rags), realm |-> AtWork.id]}
          /\ client' = [client EXCEPT ![RealmClient] = [AtWork EXCEPT !.rags = Tail(@)]]
          /\ UNCHANGED realms /\ oid' = oid + 1
      BY <2>1 DEF RealmStore!ImportStep, RealmStore!Writes, RealmStore!Goto, AtWork
    <3>2. \A r \in rags' : r \in rags \/ r.realm = AtWork.id
      BY <3>1
    <3>3. QED
      BY <1>2, <2>1, <3>1, <3>2
  <2>2. CASE ~AtWork.dry_run /\ AtWork.rags = <<>> /\ AtWork.datasets # <<>>
    <3>1. /\ client' = [client EXCEPT ![RealmClient] = [AtWork EXCEPT !.datasets = Tail(@)]]
          /\ UNCHANGED <<realms, rags>> /\ oid' = oid + 1
      BY <2>2 DEF RealmStore!ImportStep, RealmStore!Writes, RealmStore!Goto, AtWork
    <3>2. QED
      BY <1>2, <2>2, <3>1
  <2>3. CASE ~AtWork.dry_run /\ AtWork.rags = <<>> /\ AtWork.datasets = <<>>
    BY <1>3, <2>3 DEF RealmStore!ImportStep, RealmStore!Writes, RealmStore!Goto, RealmStore!Done,
       AtWork
  <2>4. CASE AtWork.dry_run
    BY <1>1, <2>4 DEF RealmStore!ImportStep, RealmStore!Writes, RealmStore!Goto, RealmStore!Done,
       AtWork
  <2>5. QED
    BY <2>1, <2>2, <2>3, <2>4

LEMMA DeleteRagKeeps ==
  ASSUME RealmInv, RealmStore!DeleteRag(RealmClient), UNCHANGED <<realms, exports, oid>>
  PROVE  RealmInv'
<1>1. /\ rags' \subseteq rags /\ AtWork.op # "import"
      /\ \E h : /\ h = RealmStore!Free \/ h.op \in {"delete rag", "cascade"}
               /\ client' = [client EXCEPT ![RealmClient] = h]
  BY IdleHandler DEF RealmStore!DeleteRag, RealmStore!Begin, RealmStore!Goto, RealmStore!Done,
     AtWork
<1>2. PICK h : /\ h = RealmStore!Free \/ h.op \in {"delete rag", "cascade"}
               /\ client' = [client EXCEPT ![RealmClient] = h]
  BY <1>1
<1>3. AtWork' = h /\ client' = [c \in {RealmClient} |-> client'[c]]
  BY <1>2, HandlerMoves
<1>4. HandlerKnows'
  <2>1. CASE h = RealmStore!Free
    BY <1>3, <2>1 DEF HandlerKnows, RealmStore!Free
  <2>2. CASE h.op \in {"delete rag", "cascade"}
    BY <1>3, <2>2 DEF HandlerKnows
  <2>3. QED
    BY <1>2, <2>1, <2>2
<1>5. \A r \in rags' : RealmStore!WithId(realms, r.realm) # {}
  BY <1>1 DEF RealmInv
<1>6. (\A r \in rags : RealmStore!WithId(realms, r.realm) # {})'
  BY <1>5 DEF RealmStore!WithId
<1>7. QED
  BY <1>3, <1>4, <1>6 DEF RealmInv, RealmStore!OneRealmPerId

LEMMA RealmStepKeeps ==
  ASSUME RealmInv, RealmStore!Next PROVE RealmInv'
<1>1. CASE RealmStore!PostRag(RealmClient) /\ UNCHANGED <<realms, exports>>
  <2>1. /\ RealmStore!Idle(RealmClient) /\ UNCHANGED <<rags, oid>>
        /\ client' = [client EXCEPT ![RealmClient] = RealmStore!Free]
    BY <1>1 DEF RealmStore!PostRag, RealmStore!Routed, RealmStore!Begin
  <2>2. AtWork' = RealmStore!Free
    BY <2>1, HandlerMoves
  <2>3. HandlerKnows'
    BY <2>2 DEF HandlerKnows, RealmStore!Free
  <2>4. AtWork.op = "free"
    BY <2>1, IdleHandler
  <2>5. \A q \in exports' : q.id \in RealmIds
    BY <1>1 DEF RealmInv
  <2>6. QED
    BY <1>1, <2>1, <2>3, <2>4, <2>5, HandlerOnly
<1>2. CASE RealmStore!Export(RealmClient)
  <2>1. /\ RealmStore!Idle(RealmClient) /\ UNCHANGED <<realms, rags, oid>>
        /\ client' = [client EXCEPT ![RealmClient] = RealmStore!Free]
    BY <1>2 DEF RealmStore!Export, RealmStore!Begin
  <2>2. AtWork' = RealmStore!Free
    BY <2>1, HandlerMoves
  <2>3. HandlerKnows'
    BY <2>2 DEF HandlerKnows, RealmStore!Free
  <2>4. AtWork.op = "free"
    BY <2>1, IdleHandler
  <2>5. \A q \in exports' : q.id \in RealmIds
    <3>1. \A q \in exports' : q \in exports \/ \E d \in realms : q.id = d.id
      BY <1>2 DEF RealmStore!Export
    <3>2. \A d \in realms : d.id \in RealmIds
      BY DEF RealmInv, RealmDoc
    <3>3. QED
      BY <3>1, <3>2 DEF RealmInv
  <2>6. QED
    BY <2>1, <2>3, <2>4, <2>5, HandlerOnly
<1>3. QED
  BY <1>1, <1>2, RealmCreateKeeps, RealmEditKeeps, HardDeleteKeeps, StartImportKeeps,
     ImportStepKeeps, DeleteRagKeeps DEF RealmStore!Next, RealmStore!Crash

LEMMA RealmsAlways == Spec => [](part = "realms" => RealmInv)
<1>1. Init => (part = "realms" => RealmInv)
  BY RealmInit
<1>2. (part = "realms" => RealmInv) /\ [Next]_vars => (part = "realms" => RealmInv)'
  <2> SUFFICES ASSUME part = "realms" => RealmInv, [Next]_vars, part' = "realms"
               PROVE  RealmInv'
    OBVIOUS
  <2>1. part = "realms" /\ (RealmStore!Next \/ UNCHANGED realmsVars)
    BY DEF Next, vars, CorporaStep, RealmStoreStep, RealmOverlapStep, SecretStoreStep,
         QuestionSetsStep, SettingsStep, PromptsStep, ExternalStep
  <2>2. CASE UNCHANGED realmsVars
    BY <2>1, <2>2 DEF RealmInv, HandlerKnows, AtWork, RealmStore!OneRealmPerId,
       RealmStore!WithId, RealmStore!OfRealm, realmsVars
  <2>3. QED
    BY <2>1, <2>2, RealmStepKeeps
<1>3. QED
  BY <1>1, <1>2, PTL DEF Spec

\* With any number of clients and crashes.
OverlapInv == client = [c \in OverlapClients |-> client[c]]

\* Each step is one client's, and leaves what the others are about alone.
LEMMA OneClientMoves ==
  ASSUME OverlapInv, RealmOverlap!Next
  PROVE  /\ OverlapInv'
         /\ \A c \in OverlapClients :
                client[c].op = "import" /\ client[c].dry_run /\ client'[c] # client[c] =>
                    UNCHANGED <<realms, rags, datasets>>
<1>1. CASE RealmOverlap!Crash
  BY <1>1 DEF RealmOverlap!Crash, OverlapInv
<1>2. ASSUME NEW d \in OverlapClients,
             \/ RealmOverlap!CreateRealm(d) \/ RealmOverlap!EditRealm(d)
             \/ RealmOverlap!HardDelete(d) \/ RealmOverlap!Export(d)
             \/ RealmOverlap!StartImport(d) \/ RealmOverlap!ImportStep(d)
             \/ RealmOverlap!PostRag(d) \/ RealmOverlap!DeleteRag(d)
      PROVE  \E h : client' = [client EXCEPT ![d] = h]
  BY <1>2 DEF RealmOverlap!CreateRealm, RealmOverlap!EditRealm, RealmOverlap!HardDelete,
     RealmOverlap!Export, RealmOverlap!StartImport, RealmOverlap!ImportStep,
     RealmOverlap!PostRag, RealmOverlap!DeleteRag, RealmOverlap!Begin, RealmOverlap!Goto,
     RealmOverlap!Done
<1>3. ASSUME NEW d \in OverlapClients, client[d].op = "import", client[d].dry_run,
             \/ RealmOverlap!CreateRealm(d) \/ RealmOverlap!EditRealm(d)
             \/ RealmOverlap!HardDelete(d) \/ RealmOverlap!Export(d)
             \/ RealmOverlap!StartImport(d) \/ RealmOverlap!ImportStep(d)
             \/ RealmOverlap!PostRag(d) \/ RealmOverlap!DeleteRag(d)
      PROVE  UNCHANGED <<realms, rags, datasets>>
  <2>1. ~RealmOverlap!Idle(d)
    BY <1>3 DEF RealmOverlap!Idle, RealmOverlap!Free
  <2>2. RealmOverlap!ImportStep(d)
    BY <1>3, <2>1 DEF RealmOverlap!CreateRealm, RealmOverlap!EditRealm, RealmOverlap!HardDelete,
       RealmOverlap!Export, RealmOverlap!StartImport, RealmOverlap!PostRag,
       RealmOverlap!DeleteRag, RealmOverlap!Begin
  <2>3. QED
    BY <1>3, <2>2 DEF RealmOverlap!ImportStep, RealmOverlap!Writes
<1>4. ASSUME NEW d \in OverlapClients, NEW h, client' = [client EXCEPT ![d] = h]
      PROVE  OverlapInv' /\ \A c \in OverlapClients : c # d => client'[c] = client[c]
  BY <1>4 DEF OverlapInv
<1>5. QED
  BY <1>1, <1>2, <1>3, <1>4 DEF RealmOverlap!Next

LEMMA OverlapAlways == Spec => [](part = "overlap" => OverlapInv)
<1>1. Init => (part = "overlap" => OverlapInv)
  BY DEF Init, RealmOverlap!Init, OverlapInv
<1>2. (part = "overlap" => OverlapInv) /\ [Next]_vars => (part = "overlap" => OverlapInv)'
  BY OneClientMoves DEF Next, vars, CorporaStep, RealmStoreStep, RealmOverlapStep,
     SecretStoreStep, QuestionSetsStep, SettingsStep, PromptsStep, ExternalStep, realmsVars,
     OverlapInv
<1>3. QED
  BY <1>1, <1>2, PTL DEF Spec

\* With one client at a time, whichever creations, edits, deletes and imports of whichever
\* export files follow: no two realms share an id, and no RAG is left without its realm.  With
\* any number of clients, and wherever the gateway stops, a dry run writes nothing
\* (routers/realms.py).
THEOREM RealmsAreKeptWhole == Spec => RealmsStayWhole
<1>1. RealmInv => RealmStore!OneRealmPerId /\ RealmStore!RagsHaveTheirRealm
  <2> SUFFICES ASSUME RealmInv PROVE RealmStore!RagsHaveTheirRealm
    BY DEF RealmInv
  <2>1. RealmStore!Idle(RealmClient) => AtWork.op = "free"
    BY IdleHandler
  <2>2. QED
    BY <2>1 DEF RealmInv, RealmStore!RagsHaveTheirRealm
<1>2. (part = "overlap" => OverlapInv) /\ [Next]_vars =>
          [part = "overlap" => RealmOverlap!DryRunWritesNothing]_vars
  <2> SUFFICES ASSUME OverlapInv, [Next]_vars, part = "overlap", ~UNCHANGED vars
               PROVE  RealmOverlap!DryRunWritesNothing
    OBVIOUS
  <2>1. RealmOverlap!Next
    BY DEF Next, CorporaStep, RealmStoreStep, RealmOverlapStep, SecretStoreStep,
         QuestionSetsStep, SettingsStep, PromptsStep, ExternalStep
  <2>2. QED
    BY <2>1, OneClientMoves DEF RealmOverlap!DryRunWritesNothing
<1>3. (part = "realms" => RealmInv) =>
          (part = "realms" => RealmStore!OneRealmPerId /\ RealmStore!RagsHaveTheirRealm)
  BY <1>1
<1>4. QED
  BY <1>2, <1>3, RealmsAlways, OverlapAlways, PTL DEF Spec, RealmsStayWhole

----------------------------------------------------------------------------
(* What the documents of the realms are *)

\* The documents of the three collections with oids of their own below n.
RealmKeys == {"oid", "id", "deleted", "metrics"}
RagKeys == {"oid", "id", "realm"}
DatasetKeys == {"oid", "realm", "rag"}
Docs(R, G, D, n) ==
    /\ n \in Nat
    /\ \A d \in R : DOMAIN d = RealmKeys
    /\ \A d \in R \cup G \cup D : d.oid \in Nat /\ d.oid < n
    /\ \A d \in G : d.id \in RagIds
    /\ \A d, e \in R : d.oid = e.oid => d = e
    /\ \A d, e \in G : d.oid = e.oid => d = e
    /\ \A d, e \in D : d.oid = e.oid => d = e
    /\ \A d \in R, e \in G : d.oid # e.oid
    /\ \A d \in R, e \in D : d.oid # e.oid
    /\ \A d \in G, e \in D : d.oid # e.oid

\* Documents that are removed leave the others as they are.
LEMMA FewerDocs ==
  ASSUME NEW R, NEW G, NEW D, NEW n, Docs(R, G, D, n),
         NEW R1 \in SUBSET R, NEW G1 \in SUBSET G, NEW D1 \in SUBSET D
  PROVE  Docs(R1, G1, D1, n)
BY DEF Docs

\* A realm is inserted, or takes the place of one.
LEMMA RealmIsWritten ==
  ASSUME NEW R, NEW G, NEW D, NEW n, Docs(R, G, D, n), NEW m \in Nat, n <= m,
         NEW old \in SUBSET R, NEW new, DOMAIN new = RealmKeys,
         (new.oid = n /\ n < m) \/ \E d \in old : new.oid = d.oid
  PROVE  Docs((R \ old) \cup {new}, G, D, m)
<1>1. /\ n \in Nat /\ \A d \in R : d.oid \in Nat /\ d.oid < n
      /\ \A d \in G : d.oid \in Nat /\ d.oid < n
      /\ \A d \in D : d.oid \in Nat /\ d.oid < n
  BY DEF Docs
<1>2. \A d, e \in R : d.oid = e.oid => d = e
  BY DEF Docs
<1>3. (\A d \in R, e \in G : d.oid # e.oid) /\ (\A d \in R, e \in D : d.oid # e.oid)
  BY DEF Docs
<1>4. new.oid \in Nat /\ new.oid < m
  BY <1>1
<1>5. (\A e \in R \ old : e.oid # new.oid) /\ (\A e \in G \cup D : e.oid # new.oid)
  BY <1>1, <1>2, <1>3
<1>6. \A d \in R \cup G \cup D : d.oid \in Nat /\ d.oid < m
  BY <1>1
<1>7. QED
  BY <1>4, <1>5, <1>6 DEF Docs

LEMMA RagIsAdded ==
  ASSUME NEW R, NEW G, NEW D, NEW n, Docs(R, G, D, n), NEW new, new.oid = n, new.id \in RagIds
  PROVE  Docs(R, G \cup {new}, D, n + 1)
<1>1. n \in Nat /\ \A d \in R \cup G \cup D : d.oid \in Nat /\ d.oid < n
  BY DEF Docs
<1>2. \A d \in R \cup G \cup D : d.oid < n + 1 /\ d.oid # new.oid
  BY <1>1
<1>3. QED
  BY <1>1, <1>2 DEF Docs

LEMMA DatasetIsAdded ==
  ASSUME NEW R, NEW G, NEW D, NEW n, Docs(R, G, D, n), NEW new, new.oid = n
  PROVE  Docs(R, G, D \cup {new}, n + 1)
<1>1. n \in Nat /\ \A d \in R \cup G \cup D : d.oid \in Nat /\ d.oid < n
  BY DEF Docs
<1>2. \A d \in R \cup G \cup D : d.oid < n + 1 /\ d.oid # new.oid
  BY <1>1
<1>3. QED
  BY <1>1, <1>2 DEF Docs

\* What a handler goes on with: an import with the RAGs of its file, an edit that is one.
GoesOn(h) ==
    /\ h.op = "import" =>
          /\ h = [op |-> "import", id |-> h.id, dry_run |-> h.dry_run, rags |-> h.rags,
                  datasets |-> h.datasets]
          /\ h.rags \in Seq(RagIds)
    /\ h.op = "edit" => h.what \in {"delete", "restore", "metrics"}

LEMMA ImportGoesOn ==
  ASSUME NEW l, NEW rs \in Seq(RagIds), NEW ds,
         l = [op |-> "import", id |-> l.id, dry_run |-> l.dry_run, rags |-> l.rags,
              datasets |-> l.datasets],
         l.rags \in Seq(RagIds)
  PROVE  GoesOn([l EXCEPT !.rags = rs]) /\ GoesOn([l EXCEPT !.datasets = ds])
<1>1. ASSUME NEW i, NEW dry, NEW r \in Seq(RagIds), NEW d
      PROVE  GoesOn([op |-> "import", id |-> i, dry_run |-> dry, rags |-> r, datasets |-> d])
  BY DEF GoesOn
<1>2. [l EXCEPT !.rags = rs] = [op |-> "import", id |-> l.id, dry_run |-> l.dry_run, rags |-> rs,
                                datasets |-> l.datasets]
  OBVIOUS
<1>3. [l EXCEPT !.datasets = ds] = [op |-> "import", id |-> l.id, dry_run |-> l.dry_run,
                                    rags |-> l.rags, datasets |-> ds]
  OBVIOUS
<1>4. /\ GoesOn([op |-> "import", id |-> l.id, dry_run |-> l.dry_run, rags |-> rs,
                 datasets |-> l.datasets])
      /\ GoesOn([op |-> "import", id |-> l.id, dry_run |-> l.dry_run, rags |-> l.rags,
                 datasets |-> ds])
  BY <1>1, Zenon
<1>5. QED
  BY <1>2, <1>3, <1>4, Zenon

\* The registries with these clients at work.
RealmTypes(clients) ==
    /\ Docs(realms, rags, datasets, oid)
    /\ \A q \in exports : q.rags \in Seq(RagIds)
    /\ client = [c \in clients |-> client[c]]
    /\ \A c \in clients : GoesOn(client[c])

LEMMA ClientGoesOn ==
  ASSUME NEW clients, RealmTypes(clients), NEW c \in clients, NEW h, GoesOn(h),
         client' = [client EXCEPT ![c] = h], UNCHANGED exports,
         Docs(realms', rags', datasets', oid')
  PROVE  RealmTypes(clients)'
<1>1. client' = [d \in clients |-> IF d = c THEN h ELSE client[d]]
  BY DEF RealmTypes
<1>2. client' = [d \in clients |-> client'[d]] /\ \A d \in clients : client'[d] \in {h, client[d]}
  BY <1>1
<1>3. \A d \in clients : GoesOn(client'[d])
  BY <1>2 DEF RealmTypes
<1>4. QED
  BY <1>2, <1>3 DEF RealmTypes

\* find_one answers with one document at most.
LEMMA TheOldestIsOne ==
  ASSUME NEW clients, RealmTypes(clients), NEW S \in {realms, rags},
         NEW d \in S, NEW e \in S, d.oid <= e.oid, e.oid <= d.oid
  PROVE  d = e
<1>1. d.oid \in Nat /\ e.oid \in Nat /\ (d.oid = e.oid => d = e)
  BY DEF RealmTypes, Docs
<1>2. QED
  BY <1>1

\* The documents of a realm in their order are documents.
LEMMA OrderIsOfThem ==
  ASSUME NEW S, NEW n \in Nat, \A d \in S : d.oid \in Nat /\ d.oid < n
  PROVE  LET oids == {d.oid : d \in S} IN
         /\ Cardinality(oids) \in Nat
         /\ \A k \in 1..Cardinality(oids) : \E d \in S : d.oid = Nth(oids, k)
<1> DEFINE oids == {d.oid : d \in S}
<1>1. oids \in SUBSET (0..(n - 1)) /\ oids \in SUBSET Int
  OBVIOUS
<1>2. IsFiniteSet(oids)
  <2>1. IsFiniteSet(0..(n - 1))
    BY FS_Interval
  <2> HIDE DEF oids
  <2>2. QED
    BY <1>1, <2>1, FS_Subset
<1>3. \A j \in oids : \E d \in S : d.oid = j
  OBVIOUS
<1> HIDE DEF oids
<1>4. Cardinality(oids) \in Nat /\ \A k \in 1..Cardinality(oids) : Nth(oids, k) \in oids
  BY <1>1, <1>2, PlacesHaveRanks
<1>5. /\ Cardinality(oids) \in Nat
      /\ \A k \in 1..Cardinality(oids) : \E d \in S : d.oid = Nth(oids, k)
  BY <1>3, <1>4
<1>6. QED
  BY <1>5 DEF oids

\* With one client at a time.
LEMMA OneInitTypes ==
  ASSUME RealmStore!Init, RealmStore!Assumptions PROVE RealmTypes({RealmClient})
<1>1. /\ realms = {} /\ rags = {} /\ datasets = {} /\ oid = 0
      /\ client = [c \in {RealmClient} |-> RealmStore!Free]
      /\ exports = {[id |-> RealmStore!Id(q.name), rags |-> q.rags, datasets |-> q.datasets] : q \in RealmFiles}
  BY DEF RealmStore!Init
<1>2. \A q \in exports : q.rags \in Seq(RagIds)
  BY <1>1 DEF RealmStore!Assumptions
<1>3. \A c \in {RealmClient} : GoesOn(client[c])
  BY <1>1 DEF GoesOn, RealmStore!Free
<1>4. QED
  BY <1>1, <1>2, <1>3 DEF RealmTypes, Docs

LEMMA OneRealmsTyped ==
  ASSUME RealmTypes({RealmClient}), NEW c \in {RealmClient},
         \/ RealmStore!CreateRealm(c) /\ UNCHANGED <<rags, datasets>>
         \/ RealmStore!EditRealm(c) /\ UNCHANGED <<rags, datasets>>
         \/ RealmStore!HardDelete(c) /\ UNCHANGED <<rags, datasets, oid>>,
         UNCHANGED exports
  PROVE  RealmTypes({RealmClient})'
<1>n. oid \in Nat /\ Docs(realms, rags, datasets, oid) /\ GoesOn(client[c]) /\ GoesOn(RealmStore!Free)
  BY DEF RealmTypes, Docs, GoesOn, RealmStore!Free
<1>f. \A i : RealmStore!FindOne(RealmStore!WithId(realms, i)) \in SUBSET realms
  BY DEF RealmStore!FindOne, RealmStore!WithId
<1>1. CASE UNCHANGED <<realms, rags, datasets, oid>>
  <2>1. \E h : GoesOn(h) /\ client' = [client EXCEPT ![c] = h]
    BY <1>1, <1>n
       DEF RealmStore!CreateRealm, RealmStore!EditRealm, RealmStore!HardDelete, RealmStore!Begin,
           RealmStore!Goto, RealmStore!Done, GoesOn
  <2>2. QED
    BY <1>1, <1>n, <2>1, ClientGoesOn
<1>2. CASE RealmStore!CreateRealm(c) /\ UNCHANGED <<rags, datasets>> /\ client[c].op = "create" /\ oid' = oid + 1
  <2> DEFINE found == RealmStore!FindOne(RealmStore!WithId(realms, client[c].id))
             new == [oid |-> IF found = {} THEN oid ELSE (CHOOSE d \in found : TRUE).oid,
                     id |-> client[c].id, deleted |-> FALSE, metrics |-> FALSE]
  <2>1. realms' = (realms \ found) \cup {new} /\ client' = [client EXCEPT ![c] = RealmStore!Free]
    BY <1>2
       DEF RealmStore!CreateRealm, RealmStore!Replace, RealmStore!Goto, RealmStore!Done,
           RealmStore!Begin, RealmStore!Idle, RealmStore!Free
  <2>2. DOMAIN new = RealmKeys /\ (new.oid = oid \/ \E d \in found : new.oid = d.oid)
    BY DEF RealmKeys
  <2>3. found \in SUBSET realms
    BY <1>f
  <2> HIDE DEF found, new
  <2>4. Docs(realms', rags', datasets', oid')
    BY <1>2, <1>n, <2>1, <2>2, <2>3, RealmIsWritten
  <2>5. QED
    BY <1>n, <2>1, <2>4, ClientGoesOn
<1>3. CASE RealmStore!EditRealm(c) /\ UNCHANGED <<rags, datasets>> /\ client[c].op = "edit"
  <2> DEFINE found == RealmStore!FindOne(RealmStore!WithId(realms, client[c].id))
             new(d) == RealmStore!Changed(d, client[c].what)
  <2>1. /\ realms' = (realms \ found) \cup {new(d) : d \in found} /\ UNCHANGED oid
        /\ client' = [client EXCEPT ![c] = RealmStore!Free]
    BY <1>3
       DEF RealmStore!EditRealm, RealmStore!Replace, RealmStore!Goto, RealmStore!Done,
           RealmStore!Begin, RealmStore!Idle, RealmStore!Free
  <2>2. \A d \in realms : DOMAIN d = RealmKeys
    BY <1>n DEF Docs
  <2>3. client[c].what \in {"delete", "restore", "metrics"}
    BY <1>n, <1>3 DEF GoesOn
  <2>4. \A d \in found : DOMAIN new(d) = RealmKeys /\ new(d).oid = d.oid
    BY <1>f, <2>2, <2>3 DEF RealmStore!Changed, RealmKeys
  <2>5. \A d, e \in found : d.oid <= e.oid
    BY DEF RealmStore!FindOne
  <2>6. found \in SUBSET realms
    BY <1>f
  <2> HIDE DEF found, new
  <2>7. \A d, e \in found : d = e
    BY <2>5, <2>6, TheOldestIsOne
  <2>8. CASE found = {}
    BY <1>3, <1>n, <2>1, <2>8, ClientGoesOn
  <2>9. CASE found # {}
    <3>1. PICK d \in found : TRUE
      BY <2>9
    <3>2. found = {d} /\ {new(e) : e \in found} = {new(d)}
      BY <2>7, <3>1
    <3>3. PICK changed : changed = new(d)
      OBVIOUS
    <3>4. Docs((realms \ found) \cup {changed}, rags, datasets, oid)
      BY <1>n, <2>4, <2>6, <3>1, <3>3, RealmIsWritten
    <3>5. QED
      BY <1>3, <1>n, <2>1, <3>2, <3>3, <3>4, ClientGoesOn
  <2>10. QED
    BY <2>8, <2>9
<1>4. CASE RealmStore!HardDelete(c) /\ UNCHANGED <<rags, datasets, oid>> /\ client[c].op = "remove"
  <2>1. realms' \in SUBSET realms /\ client' = [client EXCEPT ![c] = RealmStore!Free]
    BY <1>4
       DEF RealmStore!HardDelete, RealmStore!Goto, RealmStore!Done, RealmStore!Begin,
           RealmStore!Idle, RealmStore!Free
  <2>2. Docs(realms', rags', datasets', oid')
    BY <1>4, <1>n, <2>1, FewerDocs
  <2>3. QED
    BY <1>n, <2>1, <2>2, ClientGoesOn
<1>5. QED
  BY <1>1, <1>2, <1>3, <1>4 DEF RealmStore!CreateRealm, RealmStore!EditRealm, RealmStore!HardDelete

LEMMA OneImportsTyped ==
  ASSUME RealmTypes({RealmClient}), NEW c \in {RealmClient},
         (RealmStore!StartImport(c) \/ RealmStore!ImportStep(c)) /\ UNCHANGED exports
  PROVE  RealmTypes({RealmClient})'
<1>n. /\ oid \in Nat /\ Docs(realms, rags, datasets, oid) /\ GoesOn(client[c]) /\ GoesOn(RealmStore!Free)
      /\ \A q \in exports : q.rags \in Seq(RagIds)
  BY DEF RealmTypes, Docs, GoesOn, RealmStore!Free
<1>1. CASE RealmStore!StartImport(c)
  <2>1. PICK f \in exports : \E on_conflict \in {"fail", "rename"}, dry_run \in BOOLEAN :
            \E i : client' = [client EXCEPT ![c] = [op |-> "import", id |-> i, dry_run |-> dry_run,
                                                   rags |-> f.rags, datasets |-> f.datasets]]
    BY <1>1 DEF RealmStore!StartImport, RealmStore!Begin
  <2>2. \E h : GoesOn(h) /\ client' = [client EXCEPT ![c] = h]
    BY <1>n, <2>1 DEF GoesOn
  <2>3. QED
    BY <1>1, <1>n, <2>2, ClientGoesOn DEF RealmStore!StartImport
<1>2. CASE RealmStore!ImportStep(c)
  <2> DEFINE l == client[c]
  <2>1. /\ l = [op |-> "import", id |-> l.id, dry_run |-> l.dry_run, rags |-> l.rags, datasets |-> l.datasets]
        /\ l.rags \in Seq(RagIds)
    BY <1>2, <1>n DEF RealmStore!ImportStep, GoesOn
  <2>2. CASE ~RealmStore!Writes(l.dry_run)
    BY <1>2, <1>n, <2>2, ClientGoesOn DEF RealmStore!ImportStep, RealmStore!Done, RealmStore!Goto
  <2>3. CASE RealmStore!Writes(l.dry_run) /\ l.rags # <<>>
    <3> DEFINE new == [oid |-> oid, id |-> Head(l.rags), realm |-> l.id]
               h == [l EXCEPT !.rags = Tail(@)]
    <3>1. /\ rags' = rags \cup {new} /\ oid' = oid + 1 /\ UNCHANGED <<realms, datasets>>
          /\ client' = [client EXCEPT ![c] = h]
      BY <1>2, <2>3 DEF RealmStore!ImportStep, RealmStore!Goto
    <3>2. Head(l.rags) \in RagIds /\ Tail(l.rags) \in Seq(RagIds)
      BY <2>1, <2>3
    <3>3. GoesOn(h)
      BY <2>1, <3>2, ImportGoesOn
    <3>4. new.oid = oid /\ new.id \in RagIds
      BY <3>2
    <3> HIDE DEF new, h
    <3>5. Docs(realms', rags', datasets', oid')
      BY <1>n, <3>1, <3>4, RagIsAdded
    <3>6. QED
      BY <1>2, <3>1, <3>3, <3>5, ClientGoesOn
  <2>4. CASE RealmStore!Writes(l.dry_run) /\ l.rags = <<>> /\ l.datasets # <<>>
    <3> DEFINE new == [oid |-> oid, realm |-> l.id, rag |-> Head(l.datasets)]
               h == [l EXCEPT !.datasets = Tail(@)]
    <3>1. /\ datasets' = datasets \cup {new} /\ oid' = oid + 1 /\ UNCHANGED <<realms, rags>>
          /\ client' = [client EXCEPT ![c] = h]
      BY <1>2, <2>4 DEF RealmStore!ImportStep, RealmStore!Goto
    <3>2. GoesOn(h)
      BY <2>1, ImportGoesOn
    <3>3. new.oid = oid
      OBVIOUS
    <3> HIDE DEF new, h
    <3>4. Docs(realms', rags', datasets', oid')
      BY <1>n, <3>1, <3>3, DatasetIsAdded
    <3>5. QED
      BY <1>2, <3>1, <3>2, <3>4, ClientGoesOn
  <2>5. CASE RealmStore!Writes(l.dry_run) /\ l.rags = <<>> /\ l.datasets = <<>>
    <3> DEFINE new == [oid |-> oid, id |-> l.id, deleted |-> FALSE, metrics |-> FALSE]
    <3>1. /\ realms' = (realms \ {}) \cup {new} /\ oid' = oid + 1 /\ UNCHANGED <<datasets, rags>>
          /\ client' = [client EXCEPT ![c] = RealmStore!Free]
      BY <1>2, <2>5 DEF RealmStore!ImportStep, RealmStore!Done, RealmStore!Goto
    <3>2. new.oid = oid /\ DOMAIN new = RealmKeys
      BY DEF RealmKeys
    <3> HIDE DEF new
    <3>3. {} \in SUBSET realms /\ oid + 1 \in Nat /\ oid <= oid + 1 /\ oid < oid + 1
      BY <1>n
    <3>4. Docs((realms \ {}) \cup {new}, rags, datasets, oid + 1)
      BY <1>n, <3>2, <3>3, RealmIsWritten
    <3>5. QED
      BY <1>2, <1>n, <3>1, <3>4, ClientGoesOn
  <2>6. QED
    BY <2>2, <2>3, <2>4, <2>5
<1>3. QED
  BY <1>1, <1>2

LEMMA OneRagsTyped ==
  ASSUME RealmTypes({RealmClient}), NEW c \in {RealmClient},
         \/ RealmStore!PostRag(c) /\ UNCHANGED <<realms, exports>>
         \/ RealmStore!DeleteRag(c) /\ UNCHANGED <<realms, exports, oid>>
  PROVE  RealmTypes({RealmClient})'
<1>n. oid \in Nat /\ Docs(realms, rags, datasets, oid) /\ GoesOn(client[c]) /\ GoesOn(RealmStore!Free)
  BY DEF RealmTypes, Docs, GoesOn, RealmStore!Free
<1>1. CASE RealmStore!PostRag(c) /\ UNCHANGED <<realms, exports>>
  <2>1. UNCHANGED <<rags, oid>>
    BY <1>1 DEF RealmStore!PostRag, RealmStore!Routed
  <2>2. client' = [client EXCEPT ![c] = RealmStore!Free] /\ UNCHANGED datasets
    BY <1>1 DEF RealmStore!PostRag, RealmStore!Begin
  <2>3. QED
    BY <1>1, <1>n, <2>1, <2>2, ClientGoesOn
<1>2. CASE RealmStore!DeleteRag(c) /\ UNCHANGED <<realms, exports, oid>>
  <2>1. rags' \in SUBSET rags /\ datasets' \in SUBSET datasets
    BY <1>2 DEF RealmStore!DeleteRag
  <2>2. \E h : GoesOn(h) /\ client' = [client EXCEPT ![c] = h]
    BY <1>2, <1>n DEF RealmStore!DeleteRag, RealmStore!Begin, RealmStore!Goto, RealmStore!Done, GoesOn
  <2>3. Docs(realms', rags', datasets', oid')
    BY <1>2, <1>n, <2>1, FewerDocs
  <2>4. QED
    BY <1>2, <2>2, <2>3, ClientGoesOn
<1>3. QED
  BY <1>1, <1>2

LEMMA OneExportsTyped ==
  ASSUME RealmTypes({RealmClient}), NEW c \in {RealmClient}, RealmStore!Export(c)
  PROVE  RealmTypes({RealmClient})'
<1>1. PICK d \in realms : exports' = exports \cup {[id |-> d.id,
         rags |-> [i \in DOMAIN RealmStore!InOrder(RealmStore!OfRealm(rags, d.id)) |-> RealmStore!InOrder(RealmStore!OfRealm(rags, d.id))[i].id],
         datasets |-> [i \in DOMAIN RealmStore!InOrder(RealmStore!OfRealm(datasets, d.id)) |->
                          RealmStore!InOrder(RealmStore!OfRealm(datasets, d.id))[i].rag]]}
  BY DEF RealmStore!Export
<1>2. /\ client' = [client EXCEPT ![c] = RealmStore!Free] /\ UNCHANGED <<realms, rags, datasets, oid>>
  BY DEF RealmStore!Export, RealmStore!Begin
<1> DEFINE S == RealmStore!OfRealm(rags, d.id)
           oids == {e.oid : e \in S}
           listed_rags == [i \in DOMAIN RealmStore!InOrder(S) |-> RealmStore!InOrder(S)[i].id]
<1>3. S \in SUBSET rags /\ oid \in Nat /\ \A e \in S : e.oid \in Nat /\ e.oid < oid
  BY DEF RealmStore!OfRealm, RealmTypes, Docs
<1>4. \A e \in S : e.id \in RagIds
  BY <1>3 DEF RealmTypes, Docs
<1>5. RealmStore!InOrder(S) = [i \in 1..Cardinality(oids) |-> CHOOSE e \in S : e.oid = Nth(oids, i)]
  BY DEF RealmStore!InOrder, RealmStore!Nth, Nth, RealmStore!Cardinality, Cardinality
<1> HIDE DEF S
<1>6. Cardinality(oids) \in Nat /\ \A k \in 1..Cardinality(oids) : \E e \in S : e.oid = Nth(oids, k)
  BY <1>3, OrderIsOfThem
<1> HIDE DEF oids
<1>7. \A k \in 1..Cardinality(oids) : RealmStore!InOrder(S)[k] \in S
  BY <1>5, <1>6
<1>8. listed_rags \in Seq(RagIds)
  BY <1>4, <1>5, <1>6, <1>7
<1>9. \A q \in exports' : q.rags \in Seq(RagIds)
  BY <1>1, <1>8 DEF RealmTypes, S
<1>10. client' = [e \in {RealmClient} |-> client'[e]] /\ \A e \in {RealmClient} : client'[e] \in {RealmStore!Free, client[e]}
  BY <1>2 DEF RealmTypes
<1>11. GoesOn(RealmStore!Free)
  BY DEF GoesOn, RealmStore!Free
<1>12. QED
  BY <1>2, <1>9, <1>10, <1>11 DEF RealmTypes

LEMMA OneTyped ==
  ASSUME RealmTypes({RealmClient}), RealmStore!Next
  PROVE  RealmTypes({RealmClient})'
<1>1. ASSUME NEW c \in {RealmClient},
             \/ RealmStore!CreateRealm(c) /\ UNCHANGED <<rags, datasets>>
             \/ RealmStore!EditRealm(c) /\ UNCHANGED <<rags, datasets>>
             \/ RealmStore!HardDelete(c) /\ UNCHANGED <<rags, datasets, oid>>,
             UNCHANGED exports
      PROVE  RealmTypes({RealmClient})'
  BY <1>1, OneRealmsTyped
<1>2. ASSUME NEW c \in {RealmClient}, (RealmStore!StartImport(c) \/ RealmStore!ImportStep(c)) /\ UNCHANGED exports
      PROVE  RealmTypes({RealmClient})'
  BY <1>2, OneImportsTyped
<1>3. ASSUME NEW c \in {RealmClient},
             \/ RealmStore!PostRag(c) /\ UNCHANGED <<realms, exports>>
             \/ RealmStore!DeleteRag(c) /\ UNCHANGED <<realms, exports, oid>>
      PROVE  RealmTypes({RealmClient})'
  BY <1>3, OneRagsTyped
<1>4. ASSUME NEW c \in {RealmClient}, RealmStore!Export(c) PROVE RealmTypes({RealmClient})'
  BY <1>4, OneExportsTyped
<1>5. CASE RealmStore!Crash
  <2>1. /\ UNCHANGED <<realms, rags, datasets, exports, oid>>
        /\ client' = [c \in {RealmClient} |-> RealmStore!Free]
    BY <1>5 DEF RealmStore!Crash
  <2>2. GoesOn(RealmStore!Free)
    BY DEF GoesOn, RealmStore!Free
  <2>3. QED
    BY <2>1, <2>2 DEF RealmTypes
<1>6. QED
  BY <1>1, <1>2, <1>3, <1>4, <1>5 DEF RealmStore!Next

\* With any number of clients and crashes.
LEMMA OverlapInitTypes ==
  ASSUME RealmOverlap!Init, RealmOverlap!Assumptions PROVE RealmTypes(OverlapClients)
<1>1. /\ realms = {} /\ rags = {} /\ datasets = {} /\ oid = 0
      /\ client = [c \in OverlapClients |-> RealmOverlap!Free]
      /\ exports = {[id |-> RealmOverlap!Id(q.name), rags |-> q.rags, datasets |-> q.datasets] : q \in RealmFiles}
  BY DEF RealmOverlap!Init
<1>2. \A q \in exports : q.rags \in Seq(RagIds)
  BY <1>1 DEF RealmOverlap!Assumptions
<1>3. \A c \in OverlapClients : GoesOn(client[c])
  BY <1>1 DEF GoesOn, RealmOverlap!Free
<1>4. QED
  BY <1>1, <1>2, <1>3 DEF RealmTypes, Docs

LEMMA OverlapRealmsTyped ==
  ASSUME RealmTypes(OverlapClients), NEW c \in OverlapClients,
         \/ RealmOverlap!CreateRealm(c) /\ UNCHANGED <<rags, datasets>>
         \/ RealmOverlap!EditRealm(c) /\ UNCHANGED <<rags, datasets>>
         \/ RealmOverlap!HardDelete(c) /\ UNCHANGED <<rags, datasets, oid>>,
         UNCHANGED exports
  PROVE  RealmTypes(OverlapClients)'
<1>n. oid \in Nat /\ Docs(realms, rags, datasets, oid) /\ GoesOn(client[c]) /\ GoesOn(RealmOverlap!Free)
  BY DEF RealmTypes, Docs, GoesOn, RealmOverlap!Free
<1>f. \A i : RealmOverlap!FindOne(RealmOverlap!WithId(realms, i)) \in SUBSET realms
  BY DEF RealmOverlap!FindOne, RealmOverlap!WithId
<1>1. CASE UNCHANGED <<realms, rags, datasets, oid>>
  <2>1. \E h : GoesOn(h) /\ client' = [client EXCEPT ![c] = h]
    BY <1>1, <1>n
       DEF RealmOverlap!CreateRealm, RealmOverlap!EditRealm, RealmOverlap!HardDelete,
           RealmOverlap!Begin, RealmOverlap!Goto, RealmOverlap!Done, GoesOn
  <2>2. QED
    BY <1>1, <1>n, <2>1, ClientGoesOn
<1>2. CASE RealmOverlap!CreateRealm(c) /\ UNCHANGED <<rags, datasets>> /\ client[c].op = "create" /\ oid' = oid + 1
  <2> DEFINE found == RealmOverlap!FindOne(RealmOverlap!WithId(realms, client[c].id))
             new == [oid |-> IF found = {} THEN oid ELSE (CHOOSE d \in found : TRUE).oid,
                     id |-> client[c].id, deleted |-> FALSE, metrics |-> FALSE]
  <2>1. realms' = (realms \ found) \cup {new} /\ client' = [client EXCEPT ![c] = RealmOverlap!Free]
    BY <1>2
       DEF RealmOverlap!CreateRealm, RealmOverlap!Replace, RealmOverlap!Goto, RealmOverlap!Done,
           RealmOverlap!Begin, RealmOverlap!Idle, RealmOverlap!Free
  <2>2. DOMAIN new = RealmKeys /\ (new.oid = oid \/ \E d \in found : new.oid = d.oid)
    BY DEF RealmKeys
  <2>3. found \in SUBSET realms
    BY <1>f
  <2> HIDE DEF found, new
  <2>4. Docs(realms', rags', datasets', oid')
    BY <1>2, <1>n, <2>1, <2>2, <2>3, RealmIsWritten
  <2>5. QED
    BY <1>n, <2>1, <2>4, ClientGoesOn
<1>3. CASE RealmOverlap!EditRealm(c) /\ UNCHANGED <<rags, datasets>> /\ client[c].op = "edit"
  <2> DEFINE found == RealmOverlap!FindOne(RealmOverlap!WithId(realms, client[c].id))
             new(d) == RealmOverlap!Changed(d, client[c].what)
  <2>1. /\ realms' = (realms \ found) \cup {new(d) : d \in found} /\ UNCHANGED oid
        /\ client' = [client EXCEPT ![c] = RealmOverlap!Free]
    BY <1>3
       DEF RealmOverlap!EditRealm, RealmOverlap!Replace, RealmOverlap!Goto, RealmOverlap!Done,
           RealmOverlap!Begin, RealmOverlap!Idle, RealmOverlap!Free
  <2>2. \A d \in realms : DOMAIN d = RealmKeys
    BY <1>n DEF Docs
  <2>3. client[c].what \in {"delete", "restore", "metrics"}
    BY <1>n, <1>3 DEF GoesOn
  <2>4. \A d \in found : DOMAIN new(d) = RealmKeys /\ new(d).oid = d.oid
    BY <1>f, <2>2, <2>3 DEF RealmOverlap!Changed, RealmKeys
  <2>5. \A d, e \in found : d.oid <= e.oid
    BY DEF RealmOverlap!FindOne
  <2>6. found \in SUBSET realms
    BY <1>f
  <2> HIDE DEF found, new
  <2>7. \A d, e \in found : d = e
    BY <2>5, <2>6, TheOldestIsOne
  <2>8. CASE found = {}
    BY <1>3, <1>n, <2>1, <2>8, ClientGoesOn
  <2>9. CASE found # {}
    <3>1. PICK d \in found : TRUE
      BY <2>9
    <3>2. found = {d} /\ {new(e) : e \in found} = {new(d)}
      BY <2>7, <3>1
    <3>3. PICK changed : changed = new(d)
      OBVIOUS
    <3>4. Docs((realms \ found) \cup {changed}, rags, datasets, oid)
      BY <1>n, <2>4, <2>6, <3>1, <3>3, RealmIsWritten
    <3>5. QED
      BY <1>3, <1>n, <2>1, <3>2, <3>3, <3>4, ClientGoesOn
  <2>10. QED
    BY <2>8, <2>9
<1>4. CASE RealmOverlap!HardDelete(c) /\ UNCHANGED <<rags, datasets, oid>> /\ client[c].op = "remove"
  <2>1. realms' \in SUBSET realms /\ client' = [client EXCEPT ![c] = RealmOverlap!Free]
    BY <1>4
       DEF RealmOverlap!HardDelete, RealmOverlap!Goto, RealmOverlap!Done, RealmOverlap!Begin,
           RealmOverlap!Idle, RealmOverlap!Free
  <2>2. Docs(realms', rags', datasets', oid')
    BY <1>4, <1>n, <2>1, FewerDocs
  <2>3. QED
    BY <1>n, <2>1, <2>2, ClientGoesOn
<1>5. QED
  BY <1>1, <1>2, <1>3, <1>4 DEF RealmOverlap!CreateRealm, RealmOverlap!EditRealm, RealmOverlap!HardDelete

LEMMA OverlapImportsTyped ==
  ASSUME RealmTypes(OverlapClients), NEW c \in OverlapClients,
         (RealmOverlap!StartImport(c) \/ RealmOverlap!ImportStep(c)) /\ UNCHANGED exports
  PROVE  RealmTypes(OverlapClients)'
<1>n. /\ oid \in Nat /\ Docs(realms, rags, datasets, oid) /\ GoesOn(client[c]) /\ GoesOn(RealmOverlap!Free)
      /\ \A q \in exports : q.rags \in Seq(RagIds)
  BY DEF RealmTypes, Docs, GoesOn, RealmOverlap!Free
<1>1. CASE RealmOverlap!StartImport(c)
  <2>1. PICK f \in exports : \E on_conflict \in {"fail", "rename"}, dry_run \in BOOLEAN :
            \E i : client' = [client EXCEPT ![c] = [op |-> "import", id |-> i, dry_run |-> dry_run,
                                                   rags |-> f.rags, datasets |-> f.datasets]]
    BY <1>1 DEF RealmOverlap!StartImport, RealmOverlap!Begin
  <2>2. \E h : GoesOn(h) /\ client' = [client EXCEPT ![c] = h]
    BY <1>n, <2>1 DEF GoesOn
  <2>3. QED
    BY <1>1, <1>n, <2>2, ClientGoesOn DEF RealmOverlap!StartImport
<1>2. CASE RealmOverlap!ImportStep(c)
  <2> DEFINE l == client[c]
  <2>1. /\ l = [op |-> "import", id |-> l.id, dry_run |-> l.dry_run, rags |-> l.rags, datasets |-> l.datasets]
        /\ l.rags \in Seq(RagIds)
    BY <1>2, <1>n DEF RealmOverlap!ImportStep, GoesOn
  <2>2. CASE ~RealmOverlap!Writes(l.dry_run)
    BY <1>2, <1>n, <2>2, ClientGoesOn DEF RealmOverlap!ImportStep, RealmOverlap!Done, RealmOverlap!Goto
  <2>3. CASE RealmOverlap!Writes(l.dry_run) /\ l.rags # <<>>
    <3> DEFINE new == [oid |-> oid, id |-> Head(l.rags), realm |-> l.id]
               h == [l EXCEPT !.rags = Tail(@)]
    <3>1. /\ rags' = rags \cup {new} /\ oid' = oid + 1 /\ UNCHANGED <<realms, datasets>>
          /\ client' = [client EXCEPT ![c] = h]
      BY <1>2, <2>3 DEF RealmOverlap!ImportStep, RealmOverlap!Goto
    <3>2. Head(l.rags) \in RagIds /\ Tail(l.rags) \in Seq(RagIds)
      BY <2>1, <2>3
    <3>3. GoesOn(h)
      BY <2>1, <3>2, ImportGoesOn
    <3>4. new.oid = oid /\ new.id \in RagIds
      BY <3>2
    <3> HIDE DEF new, h
    <3>5. Docs(realms', rags', datasets', oid')
      BY <1>n, <3>1, <3>4, RagIsAdded
    <3>6. QED
      BY <1>2, <3>1, <3>3, <3>5, ClientGoesOn
  <2>4. CASE RealmOverlap!Writes(l.dry_run) /\ l.rags = <<>> /\ l.datasets # <<>>
    <3> DEFINE new == [oid |-> oid, realm |-> l.id, rag |-> Head(l.datasets)]
               h == [l EXCEPT !.datasets = Tail(@)]
    <3>1. /\ datasets' = datasets \cup {new} /\ oid' = oid + 1 /\ UNCHANGED <<realms, rags>>
          /\ client' = [client EXCEPT ![c] = h]
      BY <1>2, <2>4 DEF RealmOverlap!ImportStep, RealmOverlap!Goto
    <3>2. GoesOn(h)
      BY <2>1, ImportGoesOn
    <3>3. new.oid = oid
      OBVIOUS
    <3> HIDE DEF new, h
    <3>4. Docs(realms', rags', datasets', oid')
      BY <1>n, <3>1, <3>3, DatasetIsAdded
    <3>5. QED
      BY <1>2, <3>1, <3>2, <3>4, ClientGoesOn
  <2>5. CASE RealmOverlap!Writes(l.dry_run) /\ l.rags = <<>> /\ l.datasets = <<>>
    <3> DEFINE new == [oid |-> oid, id |-> l.id, deleted |-> FALSE, metrics |-> FALSE]
    <3>1. /\ realms' = (realms \ {}) \cup {new} /\ oid' = oid + 1 /\ UNCHANGED <<datasets, rags>>
          /\ client' = [client EXCEPT ![c] = RealmOverlap!Free]
      BY <1>2, <2>5 DEF RealmOverlap!ImportStep, RealmOverlap!Done, RealmOverlap!Goto
    <3>2. new.oid = oid /\ DOMAIN new = RealmKeys
      BY DEF RealmKeys
    <3> HIDE DEF new
    <3>3. {} \in SUBSET realms /\ oid + 1 \in Nat /\ oid <= oid + 1 /\ oid < oid + 1
      BY <1>n
    <3>4. Docs((realms \ {}) \cup {new}, rags, datasets, oid + 1)
      BY <1>n, <3>2, <3>3, RealmIsWritten
    <3>5. QED
      BY <1>2, <1>n, <3>1, <3>4, ClientGoesOn
  <2>6. QED
    BY <2>2, <2>3, <2>4, <2>5
<1>3. QED
  BY <1>1, <1>2

LEMMA OverlapRagsTyped ==
  ASSUME RealmTypes(OverlapClients), NEW c \in OverlapClients,
         \/ RealmOverlap!PostRag(c) /\ UNCHANGED <<realms, exports>>
         \/ RealmOverlap!DeleteRag(c) /\ UNCHANGED <<realms, exports, oid>>
  PROVE  RealmTypes(OverlapClients)'
<1>n. oid \in Nat /\ Docs(realms, rags, datasets, oid) /\ GoesOn(client[c]) /\ GoesOn(RealmOverlap!Free)
  BY DEF RealmTypes, Docs, GoesOn, RealmOverlap!Free
<1>1. CASE RealmOverlap!PostRag(c) /\ UNCHANGED <<realms, exports>>
  <2>1. UNCHANGED <<rags, oid>>
    BY <1>1 DEF RealmOverlap!PostRag, RealmOverlap!Routed
  <2>2. client' = [client EXCEPT ![c] = RealmOverlap!Free] /\ UNCHANGED datasets
    BY <1>1 DEF RealmOverlap!PostRag, RealmOverlap!Begin
  <2>3. QED
    BY <1>1, <1>n, <2>1, <2>2, ClientGoesOn
<1>2. CASE RealmOverlap!DeleteRag(c) /\ UNCHANGED <<realms, exports, oid>>
  <2>1. rags' \in SUBSET rags /\ datasets' \in SUBSET datasets
    BY <1>2 DEF RealmOverlap!DeleteRag
  <2>2. \E h : GoesOn(h) /\ client' = [client EXCEPT ![c] = h]
    BY <1>2, <1>n DEF RealmOverlap!DeleteRag, RealmOverlap!Begin, RealmOverlap!Goto, RealmOverlap!Done, GoesOn
  <2>3. Docs(realms', rags', datasets', oid')
    BY <1>2, <1>n, <2>1, FewerDocs
  <2>4. QED
    BY <1>2, <2>2, <2>3, ClientGoesOn
<1>3. QED
  BY <1>1, <1>2

LEMMA OverlapExportsTyped ==
  ASSUME RealmTypes(OverlapClients), NEW c \in OverlapClients, RealmOverlap!Export(c)
  PROVE  RealmTypes(OverlapClients)'
<1>1. PICK d \in realms : exports' = exports \cup {[id |-> d.id,
         rags |-> [i \in DOMAIN RealmOverlap!InOrder(RealmOverlap!OfRealm(rags, d.id)) |-> RealmOverlap!InOrder(RealmOverlap!OfRealm(rags, d.id))[i].id],
         datasets |-> [i \in DOMAIN RealmOverlap!InOrder(RealmOverlap!OfRealm(datasets, d.id)) |->
                          RealmOverlap!InOrder(RealmOverlap!OfRealm(datasets, d.id))[i].rag]]}
  BY DEF RealmOverlap!Export
<1>2. /\ client' = [client EXCEPT ![c] = RealmOverlap!Free] /\ UNCHANGED <<realms, rags, datasets, oid>>
  BY DEF RealmOverlap!Export, RealmOverlap!Begin
<1> DEFINE S == RealmOverlap!OfRealm(rags, d.id)
           oids == {e.oid : e \in S}
           listed_rags == [i \in DOMAIN RealmOverlap!InOrder(S) |-> RealmOverlap!InOrder(S)[i].id]
<1>3. S \in SUBSET rags /\ oid \in Nat /\ \A e \in S : e.oid \in Nat /\ e.oid < oid
  BY DEF RealmOverlap!OfRealm, RealmTypes, Docs
<1>4. \A e \in S : e.id \in RagIds
  BY <1>3 DEF RealmTypes, Docs
<1>5. RealmOverlap!InOrder(S) = [i \in 1..Cardinality(oids) |-> CHOOSE e \in S : e.oid = Nth(oids, i)]
  BY DEF RealmOverlap!InOrder, RealmOverlap!Nth, Nth, RealmOverlap!Cardinality, Cardinality
<1> HIDE DEF S
<1>6. Cardinality(oids) \in Nat /\ \A k \in 1..Cardinality(oids) : \E e \in S : e.oid = Nth(oids, k)
  BY <1>3, OrderIsOfThem
<1> HIDE DEF oids
<1>7. \A k \in 1..Cardinality(oids) : RealmOverlap!InOrder(S)[k] \in S
  BY <1>5, <1>6
<1>8. listed_rags \in Seq(RagIds)
  BY <1>4, <1>5, <1>6, <1>7
<1>9. \A q \in exports' : q.rags \in Seq(RagIds)
  BY <1>1, <1>8 DEF RealmTypes, S
<1>10. client' = [e \in OverlapClients |-> client'[e]] /\ \A e \in OverlapClients : client'[e] \in {RealmOverlap!Free, client[e]}
  BY <1>2 DEF RealmTypes
<1>11. GoesOn(RealmOverlap!Free)
  BY DEF GoesOn, RealmOverlap!Free
<1>12. QED
  BY <1>2, <1>9, <1>10, <1>11 DEF RealmTypes

LEMMA OverlapTyped ==
  ASSUME RealmTypes(OverlapClients), RealmOverlap!Next
  PROVE  RealmTypes(OverlapClients)'
<1>1. ASSUME NEW c \in OverlapClients,
             \/ RealmOverlap!CreateRealm(c) /\ UNCHANGED <<rags, datasets>>
             \/ RealmOverlap!EditRealm(c) /\ UNCHANGED <<rags, datasets>>
             \/ RealmOverlap!HardDelete(c) /\ UNCHANGED <<rags, datasets, oid>>,
             UNCHANGED exports
      PROVE  RealmTypes(OverlapClients)'
  BY <1>1, OverlapRealmsTyped
<1>2. ASSUME NEW c \in OverlapClients, (RealmOverlap!StartImport(c) \/ RealmOverlap!ImportStep(c)) /\ UNCHANGED exports
      PROVE  RealmTypes(OverlapClients)'
  BY <1>2, OverlapImportsTyped
<1>3. ASSUME NEW c \in OverlapClients,
             \/ RealmOverlap!PostRag(c) /\ UNCHANGED <<realms, exports>>
             \/ RealmOverlap!DeleteRag(c) /\ UNCHANGED <<realms, exports, oid>>
      PROVE  RealmTypes(OverlapClients)'
  BY <1>3, OverlapRagsTyped
<1>4. ASSUME NEW c \in OverlapClients, RealmOverlap!Export(c) PROVE RealmTypes(OverlapClients)'
  BY <1>4, OverlapExportsTyped
<1>5. CASE RealmOverlap!Crash
  <2>1. /\ UNCHANGED <<realms, rags, datasets, exports, oid>>
        /\ client' = [c \in OverlapClients |-> RealmOverlap!Free]
    BY <1>5 DEF RealmOverlap!Crash
  <2>2. GoesOn(RealmOverlap!Free)
    BY DEF GoesOn, RealmOverlap!Free
  <2>3. QED
    BY <2>1, <2>2 DEF RealmTypes
<1>6. QED
  BY <1>1, <1>2, <1>3, <1>4, <1>5 DEF RealmOverlap!Next

LEMMA OverlapTypesAlways == Spec => [](part = "overlap" => RealmTypes(OverlapClients))
<1>1. Init => (part = "overlap" => RealmTypes(OverlapClients))
  BY OverlapInitTypes, RealmsAssumption DEF Init, RealmsAssumption
<1>2. (part = "overlap" => RealmTypes(OverlapClients)) /\ [Next]_vars
         => (part = "overlap" => RealmTypes(OverlapClients))'
  BY OverlapTyped DEF Next, vars, CorporaStep, RealmStoreStep, RealmOverlapStep,
     SecretStoreStep, QuestionSetsStep, SettingsStep, PromptsStep, ExternalStep, realmsVars,
     RealmTypes
<1>3. QED
  BY <1>1, <1>2, PTL DEF Spec

LEMMA RealmTypesAlways == Spec => [](part = "realms" => RealmTypes({RealmClient}))
<1>1. Init => (part = "realms" => RealmTypes({RealmClient}))
  BY OneInitTypes, RealmsAssumption DEF Init, RealmsAssumption
<1>2. (part = "realms" => RealmTypes({RealmClient})) /\ [Next]_vars
         => (part = "realms" => RealmTypes({RealmClient}))'
  BY OneTyped DEF Next, vars, CorporaStep, RealmStoreStep, RealmOverlapStep,
     SecretStoreStep, QuestionSetsStep, SettingsStep, PromptsStep, ExternalStep, realmsVars,
     RealmTypes
<1>3. QED
  BY <1>1, <1>2, PTL DEF Spec

----------------------------------------------------------------------------
(* Question sets *)

Sets == QuestionSets!Datasets

\* A question as every request leaves it: the answer it shows is the one it is scored with, and
\* a generated one says that it was edited.
GoodQuestion ==
    {q \in [id : Nat \ {0}, origin : {"manual", "generated"}, edited : BOOLEAN, renamed : BOOLEAN,
            answer : Answers, truth : Answers \cup {Nil}] :
        /\ q.renamed => q.truth \in {Nil, q.answer}
        /\ q.renamed /\ q.origin = "generated" => q.edited}

\* Questions with ids of their own out of the first n.
GoodList(qs, n) ==
    /\ qs \in Seq(GoodQuestion)
    /\ \A i \in 1..Len(qs) : qs[i].id <= n
    /\ \A i, j \in 1..Len(qs) : qs[i].id = qs[j].id => i = j

DatasetDoc(d, n) ==
    /\ d = [realm |-> d.realm, questions |-> d.questions, n |-> d.n, there |-> d.there]
    /\ d.there \in BOOLEAN
    /\ d.n \in {Nil} \cup 0..DatasetIds
    /\ GoodList(d.questions, n)

Request(r, n) ==
    \/ r = QuestionSets!Free
    \/ r.op \in {"add", "batch", "update", "delete"} /\ r.d \in Sets /\ GoodList(r.read, n)

DatasetInv ==
    /\ ids \in 0..DatasetIds /\ docs \in Nat
    /\ doc = [d \in Sets |-> doc[d]]
    /\ \A d \in Sets : DatasetDoc(doc[d], ids)
    /\ page = [p \in DatasetPages |-> page[p]]
    /\ \A p \in DatasetPages : Request(page[p], ids)

\* As many ids as questions, so that a list is no longer than the ids there are.
LEMMA ListsAreCounted ==
  ASSUME NEW n \in Nat, NEW qs, GoodList(qs, n)
  PROVE  /\ QuestionSets!Cardinality(QuestionSets!Ids(qs)) = Len(qs)
         /\ QuestionSets!Ids(qs) \subseteq 1..n
         /\ Len(qs) \in 0..n
<1> DEFINE f == [i \in 1..Len(qs) |-> qs[i].id]
           I == QuestionSets!Ids(qs)
<1>1. qs \in Seq(GoodQuestion) /\ Len(qs) \in Nat /\ DOMAIN qs = 1..Len(qs)
  BY DEF GoodList
<1>2. \A i \in 1..Len(qs) : qs[i].id \in 1..n
  BY <1>1 DEF GoodList, GoodQuestion
<1>3. I = {qs[i].id : i \in 1..Len(qs)}
  BY <1>1 DEF QuestionSets!Ids
<1>4. I \subseteq 1..n
  BY <1>2, <1>3
<1>5. f \in Bijection(1..Len(qs), I)
  <2>1. f \in [1..Len(qs) -> I] /\ \A y \in I : \E i \in 1..Len(qs) : f[i] = y
    BY <1>3
  <2>2. \A i, j \in 1..Len(qs) : f[i] = f[j] => i = j
    BY DEF GoodList
  <2>3. QED
    BY <2>1, <2>2, Zenon DEF Bijection, Injection, Surjection, IsInjective
<1>6. IsFiniteSet(1..Len(qs)) /\ Cardinality(1..Len(qs)) = Len(qs)
  <2>1. 1 \in Int /\ Len(qs) \in Int
    BY <1>1
  <2>2. /\ IsFiniteSet(1..Len(qs))
        /\ Cardinality(1..Len(qs)) = IF 1 > Len(qs) THEN 0 ELSE Len(qs) - 1 + 1
    BY <2>1, FS_Interval
  <2>3. QED
    BY <1>1, <2>2
<1>7. Cardinality(I) = Len(qs)
  <2>1. ExistsBijection(1..Len(qs), I)
    BY <1>5, Zenon DEF ExistsBijection
  <2> HIDE DEF I
  <2>2. QED
    BY <1>6, <2>1, FS_Bijection
<1>8. QuestionSets!Cardinality(I) = Cardinality(I)
  BY Zenon DEF QuestionSets!Cardinality, Cardinality
<1>9. Cardinality(I) <= n
  <2>1. IsFiniteSet(1..n) /\ Cardinality(1..n) = n
    BY FS_Interval, 1 \in Int, n \in Int
  <2>2. QED
    BY <1>4, <2>1, FS_Subset
<1>10. QED
  BY <1>1, <1>4, <1>7, <1>8, <1>9

\* More ids do not make a list worse.
LEMMA ListsStayGood ==
  ASSUME NEW m \in Nat, NEW n \in Nat, m <= n, NEW qs, GoodList(qs, m) PROVE GoodList(qs, n)
BY DEF GoodList, GoodQuestion

LEMMA MadeIsGood ==
  ASSUME NEW k \in {1, 2}, NEW o \in {"manual", "generated"}, NEW ans \in Answers,
         ids \in Nat, NEW qs, GoodList(qs, ids)
  PROVE  GoodList(qs \o QuestionSets!Made(k, o, ans), ids + k)
<1> DEFINE made == QuestionSets!Made(k, o, ans)
           all == qs \o made
<1>1. /\ made \in Seq(GoodQuestion) /\ Len(made) = k
      /\ \A i \in 1..k : made[i].id = ids + i
  <2>1. \A i \in 1..k : QuestionSets!Question(ids + i, o, ans, Nil) \in GoodQuestion
    BY DEF QuestionSets!Question, GoodQuestion
  <2>2. \A i \in 1..k : QuestionSets!Question(ids + i, o, ans, Nil).id = ids + i
    BY DEF QuestionSets!Question
  <2>3. QED
    BY <2>1, <2>2 DEF QuestionSets!Made
<1>2. qs \in Seq(GoodQuestion)
  BY DEF GoodList
<1> HIDE DEF made
<1>3. /\ all \in Seq(GoodQuestion) /\ Len(all) = Len(qs) + k
      /\ \A i \in 1..Len(all) : all[i] = IF i <= Len(qs) THEN qs[i] ELSE made[i - Len(qs)]
  BY <1>1, <1>2
<1>4. \A i \in 1..Len(all) : \/ i <= Len(qs) /\ all[i].id = qs[i].id /\ i \in 1..Len(qs)
                             \/ i > Len(qs) /\ all[i].id = ids + (i - Len(qs))
  BY <1>1, <1>2, <1>3
<1>5. \A i \in 1..Len(qs) : qs[i].id <= ids /\ qs[i].id \in Nat
  BY DEF GoodList, GoodQuestion
<1>6. \A i, j \in 1..Len(qs) : qs[i].id = qs[j].id => i = j
  BY DEF GoodList
<1>7. Len(qs) \in Nat /\ Len(all) = Len(qs) + k
  BY <1>2, <1>3
<1>8. \A i \in 1..Len(all) : all[i].id <= ids + k
  BY <1>4, <1>5, <1>7
<1>9. \A i, j \in 1..Len(all) : all[i].id = all[j].id => i = j
  BY <1>4, <1>5, <1>6, <1>7
<1>10. QED
  BY <1>3, <1>8, <1>9 DEF GoodList, made

LEMMA EditedIsGood ==
  ASSUME NEW qs, NEW n \in Nat, GoodList(qs, n), NEW i \in 1..Len(qs), NEW ans \in Answers
  PROVE  GoodList([qs EXCEPT ![i] = QuestionSets!Edited(@, ans)], n)
<1> DEFINE q == QuestionSets!Edited(qs[i], ans)
           new == [qs EXCEPT ![i] = q]
<1>1. qs \in Seq(GoodQuestion) /\ qs[i] \in GoodQuestion
  BY DEF GoodList
<1>2. q \in GoodQuestion /\ q.id = qs[i].id
  BY <1>1 DEF GoodQuestion, QuestionSets!Edited
<1> HIDE DEF q
<1>3. new \in Seq(GoodQuestion) /\ Len(new) = Len(qs)
      /\ \A j \in 1..Len(qs) : new[j].id = qs[j].id
  BY <1>1, <1>2
<1> HIDE DEF new
<1>4. GoodList(new, n)
  BY <1>3 DEF GoodList
<1>5. QED
  BY <1>4 DEF new, q

LEMMA RemovedIsGood ==
  ASSUME NEW qs, NEW n \in Nat, GoodList(qs, n), NEW id
  PROVE  GoodList(QuestionSets!Without(qs, id), n)
<1> DEFINE places == {i \in DOMAIN qs : qs[i].id # id}
<1>1. qs \in Seq(GoodQuestion) /\ places \in SUBSET DOMAIN qs /\ DOMAIN qs = 1..Len(qs)
  BY DEF GoodList
<1>2. QuestionSets!Without(qs, id) = Only(qs, places)
  BY DEF QuestionSets!Without, QuestionSets!Only, Only, QuestionSets!Nth, Nth,
     QuestionSets!Cardinality, Cardinality
<1> HIDE DEF places
<1>3. /\ Only(qs, places) \in Seq(GoodQuestion)
      /\ \A k \in DOMAIN Only(qs, places) :
            Nth(places, k) \in places /\ Only(qs, places)[k] = qs[Nth(places, k)]
      /\ \A k, l \in DOMAIN Only(qs, places) : Nth(places, k) = Nth(places, l) => k = l
  BY <1>1, OnlyTakesThePlaces
<1>4. PICK new : new = Only(qs, places)
  OBVIOUS
<1>5. PICK at : at = [k \in DOMAIN new |-> Nth(places, k)]
  OBVIOUS
<1>6. /\ new \in Seq(GoodQuestion) /\ DOMAIN new = 1..Len(new)
      /\ \A k \in DOMAIN new : at[k] \in 1..Len(qs) /\ new[k] = qs[at[k]]
      /\ \A k, l \in DOMAIN new : at[k] = at[l] => k = l
  BY <1>1, <1>3, <1>4, <1>5
<1>7. \A i, j \in 1..Len(qs) : qs[i].id <= n /\ (qs[i].id = qs[j].id => i = j)
  BY DEF GoodList
<1>8. \A k, l \in 1..Len(new) : new[k].id <= n /\ (new[k].id = new[l].id => k = l)
  BY <1>6, <1>7
<1>9. GoodList(new, n)
  BY <1>6, <1>8 DEF GoodList
<1>10. QED
  BY <1>2, <1>4, <1>9

LEMMA DatasetInit == Init => (part = "datasets" => DatasetInv)
<1> SUFFICES ASSUME QuestionSets!Init PROVE DatasetInv
  BY DEF Init
<1>1. DatasetIds \in Nat
  BY DatasetsAssumption DEF DatasetsAssumption, QuestionSets!Assumptions
<1>2. DatasetDoc(QuestionSets!Absent, 0)
  BY DEF DatasetDoc, GoodList, QuestionSets!Absent
<1>3. QED
  BY <1>1, <1>2 DEF QuestionSets!Init, DatasetInv, Request, Sets

\* Everything is as good with more ids.
LEMMA MoreIds ==
  ASSUME DatasetInv, NEW n \in ids..DatasetIds
  PROVE  /\ \A d \in Sets : DatasetDoc(doc[d], n)
         /\ \A p \in DatasetPages : Request(page[p], n)
<1>1. ids \in Nat /\ n \in Nat /\ ids <= n
  BY DatasetsAssumption DEF DatasetsAssumption, QuestionSets!Assumptions, DatasetInv
<1>2. \A qs : GoodList(qs, ids) => GoodList(qs, n)
  BY <1>1, ListsStayGood
<1>3. QED
  BY <1>2 DEF DatasetInv, DatasetDoc, Request

\* A list that is good is written back, or not at all.
LEMMA WrittenKeeps ==
  ASSUME DatasetInv, NEW p \in DatasetPages, page[p].d \in Sets,
         NEW qs, NEW counted \in BOOLEAN, QuestionSets!Written(p, qs, counted),
         ids' \in ids..DatasetIds, GoodList(qs, ids'), UNCHANGED docs
  PROVE  DatasetInv'
<1> DEFINE s == page[p].d
           new == QuestionSets!WithQuestions(doc[s], qs, counted)
<1>1. doc' = [doc EXCEPT ![s] = new] /\ page' = [page EXCEPT ![p] = QuestionSets!Free]
  BY DEF QuestionSets!Written
<1>2. ids' \in Nat /\ DatasetIds \in Nat /\ ids' <= DatasetIds /\ ids' \in 0..DatasetIds
  BY DatasetsAssumption DEF DatasetsAssumption, QuestionSets!Assumptions, DatasetInv
<1>3. DatasetDoc(new, ids')
  <2>1. CASE ~doc[s].there
    BY <2>1, MoreIds DEF QuestionSets!WithQuestions
  <2>2. CASE doc[s].there
    <3> DEFINE k == IF counted THEN Len(qs) ELSE doc[s].n
    <3>1. DatasetDoc(doc[s], ids)
      BY DEF DatasetInv
    <3>2. k \in {Nil} \cup 0..DatasetIds
      <4>1. Len(qs) \in 0..ids'
        BY <1>2, ListsAreCounted
      <4>2. QED
        BY <1>2, <3>1, <4>1 DEF DatasetDoc
    <3>3. new = [doc[s] EXCEPT !.questions = qs, !.n = k]
      BY <2>2 DEF QuestionSets!WithQuestions
    <3> HIDE DEF k
    <3>4. new = [realm |-> doc[s].realm, questions |-> qs, n |-> k, there |-> doc[s].there]
      BY <3>1, <3>3 DEF DatasetDoc
    <3>5. QED
      BY <2>2, <3>2, <3>4 DEF DatasetDoc
  <2>3. QED
    BY <2>1, <2>2
<1> HIDE DEF new
<1>4. \A d \in Sets : doc'[d] = IF d = s THEN new ELSE doc[d]
  BY <1>1 DEF DatasetInv
<1>5. \A q \in DatasetPages : page'[q] = IF q = p THEN QuestionSets!Free ELSE page[q]
  BY <1>1 DEF DatasetInv
<1>6. \A d \in Sets : DatasetDoc(doc'[d], ids')
  BY <1>3, <1>4, MoreIds
<1>7. \A q \in DatasetPages : Request(page'[q], ids')
  <2>1. Request(QuestionSets!Free, ids')
    BY DEF Request
  <2>2. QED
    BY <1>5, <2>1, MoreIds
<1>8. doc' = [d \in Sets |-> doc'[d]] /\ page' = [q \in DatasetPages |-> page'[q]]
  BY <1>1 DEF DatasetInv
<1>9. docs' \in Nat
  BY DEF DatasetInv
<1>10. QED
  BY <1>2, <1>6, <1>7, <1>8, <1>9 DEF DatasetInv

\* A request that lets go of what it read.
LEMMA LetGoKeeps ==
  ASSUME DatasetInv, NEW p \in DatasetPages, page' = [page EXCEPT ![p] = QuestionSets!Free],
         UNCHANGED <<doc, ids, docs>>
  PROVE  DatasetInv'
<1>1. \A q \in DatasetPages : page'[q] = page[q] \/ page'[q] = QuestionSets!Free
  BY DEF DatasetInv
<1>2. QED
  BY <1>1 DEF DatasetInv, Request, DatasetDoc

LEMMA QuestionIsFound ==
  ASSUME NEW qs, NEW i \in QuestionSets!Ids(qs), qs \in Seq(GoodQuestion)
  PROVE  QuestionSets!At(qs, i) \in 1..Len(qs)
<1>1. DOMAIN qs = 1..Len(qs)
  OBVIOUS
<1>2. QED
  BY <1>1 DEF QuestionSets!Ids, QuestionSets!At

LEMMA DatasetStepKeeps ==
  ASSUME DatasetInv, QuestionSets!Next PROVE DatasetInv'
<1>n. ids \in Nat /\ ids <= DatasetIds /\ DatasetIds \in Nat /\ docs \in Nat
  BY DatasetsAssumption DEF DatasetsAssumption, QuestionSets!Assumptions, DatasetInv
<1>1. CASE QuestionSets!List
  BY <1>1 DEF QuestionSets!List, DatasetInv, DatasetDoc, Request
<1>2. ASSUME NEW p \in DatasetPages, QuestionSets!CreateDataset(p) PROVE DatasetInv'
  <2>1. PICK r \in DatasetRealms, o \in {"manual", "generated"}, ans \in Answers,
             truth \in Answers \cup {Nil}, counted \in BOOLEAN :
          doc' = [doc EXCEPT ![docs + 1] =
              [realm |-> r, questions |-> <<QuestionSets!Question(ids + 1, o, ans, truth)>>,
               n |-> IF counted THEN 1 ELSE Nil, there |-> TRUE]]
    BY <1>2 DEF QuestionSets!CreateDataset
  <2> DEFINE new == [realm |-> r, questions |-> <<QuestionSets!Question(ids + 1, o, ans, truth)>>,
                     n |-> IF counted THEN 1 ELSE Nil, there |-> TRUE]
  <2>2. ids' = ids + 1 /\ ids' \in ids..DatasetIds /\ docs' = docs + 1 /\ UNCHANGED page
    BY <1>2, <1>n DEF QuestionSets!CreateDataset
  <2>3. DatasetDoc(new, ids')
    <3> DEFINE q == QuestionSets!Question(ids + 1, o, ans, truth)
    <3>1. q \in GoodQuestion /\ q.id = ids + 1
      BY <1>n DEF QuestionSets!Question, GoodQuestion
    <3> HIDE DEF q
    <3>2. GoodList(<<q>>, ids')
      BY <2>2, <3>1, <1>n DEF GoodList
    <3>3. (IF counted THEN 1 ELSE Nil) \in {Nil} \cup 0..DatasetIds
      BY <2>2, <1>n
    <3>4. QED
      BY <3>2, <3>3 DEF DatasetDoc, q
  <2> HIDE DEF new
  <2>4. \A d \in Sets : doc'[d] = doc[d] \/ doc'[d] = new
    BY <2>1 DEF DatasetInv, new
  <2>5. \A d \in Sets : DatasetDoc(doc'[d], ids')
    BY <2>2, <2>3, <2>4, MoreIds
  <2>6. \A q \in DatasetPages : Request(page'[q], ids')
    BY <2>2, MoreIds
  <2>7. doc' = [d \in Sets |-> doc'[d]] /\ page' = [q \in DatasetPages |-> page'[q]]
    BY <2>1, <2>2 DEF DatasetInv
  <2>8. ids' \in 0..DatasetIds /\ docs' \in Nat
    BY <2>2, <1>n
  <2>9. QED
    BY <2>5, <2>6, <2>7, <2>8 DEF DatasetInv
<1>3. ASSUME NEW p \in DatasetPages, QuestionSets!DeleteDataset(p) PROVE DatasetInv'
  <2>1. PICK s \in Sets : doc' = [doc EXCEPT ![s] = QuestionSets!Absent]
    BY <1>3 DEF QuestionSets!DeleteDataset, Sets
  <2>2. DatasetDoc(QuestionSets!Absent, ids)
    BY DEF DatasetDoc, GoodList, QuestionSets!Absent
  <2>3. \A d \in Sets : doc'[d] = doc[d] \/ doc'[d] = QuestionSets!Absent
    BY <2>1 DEF DatasetInv
  <2>4. UNCHANGED <<page, ids, docs>>
    BY <1>3 DEF QuestionSets!DeleteDataset
  <2>5. \A d \in Sets : DatasetDoc(doc'[d], ids')
    BY <2>2, <2>3, <2>4 DEF DatasetInv
  <2>6. doc' = [d \in Sets |-> doc'[d]]
    BY <2>1 DEF DatasetInv
  <2>7. QED
    BY <2>4, <2>5, <2>6 DEF DatasetInv
<1>4. ASSUME NEW p \in DatasetPages, QuestionSets!Read(p) PROVE DatasetInv'
  <2>1. PICK s \in Sets, op \in {"add", "batch", "update", "delete"} :
          page' = [page EXCEPT ![p] = [op |-> op, d |-> s, read |-> doc[s].questions]]
    BY <1>4 DEF QuestionSets!Read, Sets
  <2> DEFINE r == [op |-> op, d |-> s, read |-> doc[s].questions]
  <2>2. Request(r, ids)
    BY DEF DatasetInv, DatasetDoc, Request
  <2> HIDE DEF r
  <2>3. \A q \in DatasetPages : page'[q] = page[q] \/ page'[q] = r
    BY <2>1 DEF DatasetInv, r
  <2>4. UNCHANGED <<doc, ids, docs>>
    BY <1>4 DEF QuestionSets!Read
  <2>5. \A q \in DatasetPages : Request(page'[q], ids')
    BY <2>2, <2>3, <2>4 DEF DatasetInv
  <2>6. page' = [q \in DatasetPages |-> page'[q]]
    BY <2>1 DEF DatasetInv
  <2>7. QED
    BY <2>4, <2>5, <2>6 DEF DatasetInv
<1>5. ASSUME NEW p \in DatasetPages, QuestionSets!Add(p) PROVE DatasetInv'
  <2> DEFINE k == IF page[p].op = "add" THEN 1 ELSE 2
  <2>1. page[p].d \in Sets /\ GoodList(page[p].read, ids)
    BY <1>5 DEF QuestionSets!Add, DatasetInv, Request, QuestionSets!Free
  <2>2. PICK o \in {"manual", "generated"}, ans \in Answers :
          QuestionSets!Written(p, page[p].read \o QuestionSets!Made(k, o, ans), TRUE)
    BY <1>5 DEF QuestionSets!Add
  <2>3. ids' = ids + k /\ ids + k <= DatasetIds /\ UNCHANGED docs
    BY <1>5 DEF QuestionSets!Add
  <2>4. k \in {1, 2}
    OBVIOUS
  <2> HIDE DEF k
  <2>5. ids' \in ids..DatasetIds
    BY <2>3, <2>4, <1>n
  <2>6. GoodList(page[p].read \o QuestionSets!Made(k, o, ans), ids')
    BY <2>1, <2>3, <2>4, <1>n, MadeIsGood
  <2>7. QED
    BY <2>1, <2>2, <2>3, <2>5, <2>6, WrittenKeeps
<1>6. ASSUME NEW p \in DatasetPages, QuestionSets!Update(p) PROVE DatasetInv'
  <2>1. page[p].d \in Sets /\ GoodList(page[p].read, ids) /\ page[p].read \in Seq(GoodQuestion)
    BY <1>6 DEF QuestionSets!Update, DatasetInv, Request, QuestionSets!Free, GoodList
  <2>2. UNCHANGED <<ids, docs>> /\ ids' \in ids..DatasetIds
    BY <1>6, <1>n DEF QuestionSets!Update
  <2>3. ASSUME NEW i \in QuestionSets!Ids(page[p].read), NEW ans \in Answers,
               QuestionSets!Written(p, [page[p].read EXCEPT ![QuestionSets!At(page[p].read, i)] =
                   QuestionSets!Edited(@, ans)], FALSE)
        PROVE  DatasetInv'
    <3> DEFINE qs == [page[p].read EXCEPT ![QuestionSets!At(page[p].read, i)] =
                         QuestionSets!Edited(@, ans)]
    <3>1. QuestionSets!At(page[p].read, i) \in 1..Len(page[p].read)
      BY <2>1, QuestionIsFound
    <3>2. GoodList(qs, ids')
      BY <2>1, <2>2, <3>1, <1>n, EditedIsGood
    <3>3. QuestionSets!Written(p, qs, FALSE)
      BY <2>3
    <3> HIDE DEF qs
    <3>4. QED
      BY <2>1, <2>2, <3>2, <3>3, WrittenKeeps
  <2>4. QED
    BY <1>6, <2>3, LetGoKeeps DEF QuestionSets!Update
<1>7. ASSUME NEW p \in DatasetPages, QuestionSets!Delete(p) PROVE DatasetInv'
  <2>1. page[p].d \in Sets /\ GoodList(page[p].read, ids) /\ page[p].read \in Seq(GoodQuestion)
    BY <1>7 DEF QuestionSets!Delete, DatasetInv, Request, QuestionSets!Free, GoodList
  <2>2. UNCHANGED <<ids, docs>> /\ ids' \in ids..DatasetIds
    BY <1>7, <1>n DEF QuestionSets!Delete
  <2>3. ASSUME NEW i, QuestionSets!Written(p, QuestionSets!Without(page[p].read, i), TRUE)
        PROVE  DatasetInv'
    <3> DEFINE qs == QuestionSets!Without(page[p].read, i)
    <3>1. GoodList(qs, ids')
      BY <2>1, <2>2, <1>n, RemovedIsGood
    <3>2. QuestionSets!Written(p, qs, TRUE)
      BY <2>3
    <3> HIDE DEF qs
    <3>3. QED
      BY <2>1, <2>2, <3>1, <3>2, WrittenKeeps
  <2>4. QED
    BY <1>7, <2>3, LetGoKeeps DEF QuestionSets!Delete
<1>8. QED
  BY <1>1, <1>2, <1>3, <1>4, <1>5, <1>6, <1>7 DEF QuestionSets!Next

LEMMA DatasetsAlways == Spec => [](part = "datasets" => DatasetInv)
<1>1. Init => (part = "datasets" => DatasetInv)
  BY DatasetInit
<1>2. (part = "datasets" => DatasetInv) /\ [Next]_vars => (part = "datasets" => DatasetInv)'
  <2> SUFFICES ASSUME part = "datasets" => DatasetInv, [Next]_vars, part' = "datasets"
               PROVE  DatasetInv'
    OBVIOUS
  <2>1. part = "datasets" /\ (QuestionSets!Next \/ UNCHANGED datasetsVars)
    BY DEF Next, vars, CorporaStep, RealmStoreStep, RealmOverlapStep, SecretStoreStep,
         QuestionSetsStep, SettingsStep, PromptsStep, ExternalStep
  <2>2. CASE UNCHANGED datasetsVars
    BY <2>1, <2>2 DEF DatasetInv, DatasetDoc, Request, datasetsVars
  <2>3. QED
    BY <2>1, <2>2, DatasetStepKeeps
<1>3. QED
  BY <1>1, <1>2, PTL DEF Spec

----------------------------------------------------------------------------
(* Prompts *)

\* Templates of which each has an identifier of its own.
OwnIds(S) == \A t, u \in S : t.id = u.id => t = u
OneActive(S) == \A t, u \in S : t.active /\ u.active /\ t.realm = u.realm => t = u

HandlerOK(s) ==
    /\ s.pc \in {"idle", "save", "upsert", "setting", "realms", "sync", "unstore"}
    /\ s.pc = "save" => s.realm \in PromptRealms /\ s.version \in Nat \ {0}
    /\ s.pc = "upsert" => Prompts!IsTemplate(s.template)
    /\ s.pc = "sync" => /\ DOMAIN s = {"pc", "todo"}
                        /\ s.todo \in Seq({s.todo[i] : i \in DOMAIN s.todo}) /\ s.todo # <<>>
                        /\ \A i \in 1..Len(s.todo) : Prompts!IsTemplate(s.todo[i])

\* The activation under way is for a template that was chosen: what is to be written are files
\* of its realm, and until files come from elsewhere they hold all of that realm's other active
\* ones.
ActivationOK(w) ==
    /\ w.id = writing.target
    /\ \A i \in 1..Len(writing.todo) : writing.todo[i].realm = w.realm
    /\ ~seeded =>
          /\ \A t \in files : t.realm = w.realm /\ t.active /\ t.id # writing.target =>
                 \E i \in 1..Len(writing.todo) : writing.todo[i] = t
          /\ OneActive({t \in files : t.realm # w.realm})

WritingOK ==
    /\ writing = [by |-> writing.by, target |-> writing.target, todo |-> writing.todo,
                  chosen |-> writing.chosen]
    /\ writing.by \in PromptHandlers
    /\ writing.todo \in Seq(files) /\ writing.todo # <<>>
    /\ \A i, j \in 1..Len(writing.todo) : writing.todo[i].id = writing.todo[j].id => i = j
    /\ \E w \in writing.chosen : ActivationOK(w)

FilesGood == IsFiniteSet(files) /\ OwnIds(files) /\ \A t \in files : Prompts!IsTemplate(t)
StoredGood == IsFiniteSet(stored) /\ \A t \in stored : Prompts!IsTemplate(t)
HandlersGood ==
    /\ handler = [h \in PromptHandlers |-> handler[h]]
    /\ \A h \in PromptHandlers : HandlerOK(handler[h])
WritingGood ==
    /\ writing # Prompts!Idle => WritingOK
    /\ writing = Prompts!Idle /\ ~seeded => OneActive(files)

PromptInv ==
    /\ FilesGood /\ StoredGood /\ HandlersGood /\ WritingGood
    /\ faults \in 0..PromptFaults /\ started \in 0..PromptRequests

\* A finite set of naturals has a largest element.
LEMMA FiniteHasLargest ==
  ASSUME NEW S \in SUBSET Nat, IsFiniteSet(S), S # {}
  PROVE  \E m \in S : \A k \in S : k <= m
<1> DEFINE above(m) == {k \in S : k > m}
           C == {Cardinality(above(m)) : m \in S}
<1>1. \A m \in S : IsFiniteSet(above(m)) /\ Cardinality(above(m)) \in Nat
  <2> SUFFICES ASSUME NEW m \in S PROVE IsFiniteSet(above(m)) /\ Cardinality(above(m)) \in Nat
    OBVIOUS
  <2>1. above(m) \subseteq S
    OBVIOUS
  <2> HIDE DEF above
  <2>2. IsFiniteSet(above(m))
    BY <2>1, FS_Subset
  <2>3. QED
    BY <2>2, FS_CardinalityType
<1>2. \A m, k \in S : k > m => Cardinality(above(k)) < Cardinality(above(m))
  <2> SUFFICES ASSUME NEW m \in S, NEW k \in S, k > m
               PROVE  Cardinality(above(k)) < Cardinality(above(m))
    OBVIOUS
  <2>1. above(k) \subseteq above(m) /\ k \in above(m) /\ k \notin above(k)
    <3>1. k \in Nat /\ m \in Nat
      OBVIOUS
    <3>2. \A n \in S : n > k => n > m
      BY <3>1
    <3>3. k \in above(m) /\ k \notin above(k)
      BY <3>1
    <3>4. above(k) \subseteq above(m)
      BY Zenon, <3>2
    <3>5. QED
      BY <3>3, <3>4
  <2>2. IsFiniteSet(above(m))
    BY <1>1
  <2> HIDE DEF above
  <2>3. /\ Cardinality(above(k)) <= Cardinality(above(m))
        /\ Cardinality(above(k)) = Cardinality(above(m)) => above(k) = above(m)
    BY <2>1, <2>2, FS_Subset
  <2>4. Cardinality(above(k)) \in Nat /\ Cardinality(above(m)) \in Nat
    BY <1>1
  <2>5. QED
    BY <2>1, <2>3, <2>4
<1>3. C \in SUBSET Nat /\ C # {}
  BY <1>1
<1> HIDE DEF above
<1>4. PICK c \in C : \A d \in C : c <= d
  <2> HIDE DEF C
  <2> QED
    BY <1>3, LeastNumberOf
<1>5. PICK m \in S : c = Cardinality(above(m))
  BY <1>4
<1>6. ASSUME NEW k \in S, ~(k <= m) PROVE FALSE
  <2>1. k > m
    BY <1>6
  <2>2. Cardinality(above(k)) < Cardinality(above(m)) /\ Cardinality(above(m)) <= Cardinality(above(k))
    BY <1>2, <1>4, <1>5, <2>1
  <2>3. QED
    BY <1>1, <2>2
<1>7. QED
  BY <1>6

\* A function of finitely many has finitely many values.
LEMMA ValuesAreFinite ==
  ASSUME NEW S, IsFiniteSet(S), NEW f, DOMAIN f = S, f = [t \in S |-> f[t]]
  PROVE  /\ IsFiniteSet({f[t] : t \in S})
         /\ (\A t, u \in S : f[t] = f[u] => t = u) => Cardinality({f[t] : t \in S}) = Cardinality(S)
<1> DEFINE V == {f[t] : t \in S}
<1>1. f \in Surjection(S, V)
  BY Zenon DEF Surjection
<1>2. IsFiniteSet(V) /\ (Cardinality(V) = Cardinality(S) <=> f \in Injection(S, V))
  <2> HIDE DEF V
  <2> QED
    BY <1>1, FS_Surjection
<1>3. (\A t, u \in S : f[t] = f[u] => t = u) => f \in Injection(S, V)
  BY Zenon DEF Injection, IsInjective
<1>4. QED
  BY <1>2, <1>3

\* The newest of some templates is one of them.
LEMMA NewestIsOneOfThem ==
  ASSUME NEW S, IsFiniteSet(S), S # {}, \A t \in S : Prompts!IsTemplate(t)
  PROVE  Prompts!Newest(S) \in S
<1>1. \A t \in S : t.version \in Nat /\ t.id[2] \in Nat
  <2>1. PromptVersions \in Nat
    BY PromptsAssumption DEF PromptsAssumption, Prompts!Assumptions
  <2>2. QED
    BY <2>1 DEF Prompts!IsTemplate
<1> DEFINE V == {t.version : t \in S}
<1>2. PICK v \in V : \A k \in V : k <= v
  <2>1. IsFiniteSet(V) /\ V \in SUBSET Nat /\ V # {}
    <3> DEFINE f == [t \in S |-> t.version]
    <3>1. V = {f[t] : t \in S} /\ DOMAIN f = S /\ f = [t \in S |-> f[t]]
      OBVIOUS
    <3> HIDE DEF f
    <3>2. IsFiniteSet({f[t] : t \in S})
      BY <3>1, ValuesAreFinite
    <3>3. V \in SUBSET Nat /\ V # {}
      BY <1>1
    <3> HIDE DEF V
    <3>4. QED
      BY <3>1, <3>2, <3>3
  <2> HIDE DEF V
  <2>2. QED
    BY <2>1, FiniteHasLargest
<1> DEFINE T == {t \in S : t.version = v}
           N == {t.id[2] : t \in T}
<1>3. IsFiniteSet(T) /\ T # {} /\ T \subseteq S
  <2>1. T \subseteq S /\ T # {}
    BY <1>2
  <2> HIDE DEF T
  <2>2. QED
    BY <2>1, FS_Subset
<1> HIDE DEF T
<1>4. PICK n \in N : \A k \in N : k <= n
  <2>1. IsFiniteSet(N) /\ N \in SUBSET Nat /\ N # {}
    <3> DEFINE f == [t \in T |-> t.id[2]]
    <3>1. N = {f[t] : t \in T} /\ DOMAIN f = T /\ f = [t \in T |-> f[t]]
      OBVIOUS
    <3> HIDE DEF f
    <3>2. IsFiniteSet({f[t] : t \in T})
      BY <1>3, <3>1, ValuesAreFinite
    <3>3. N \in SUBSET Nat /\ N # {}
      BY <1>1, <1>3
    <3> HIDE DEF N
    <3>4. QED
      BY <3>1, <3>2, <3>3
  <2> HIDE DEF N
  <2>2. QED
    BY <2>1, FiniteHasLargest
<1>5. PICK t \in T : t.id[2] = n
  BY <1>4
<1>6. t \in S /\ t.version = v
  BY <1>5 DEF T
<1>7. \A u \in S : t.version > u.version \/ (t.version = u.version /\ t.id[2] >= u.id[2])
  <2> SUFFICES ASSUME NEW u \in S
               PROVE  t.version > u.version \/ (t.version = u.version /\ t.id[2] >= u.id[2])
    OBVIOUS
  <2>1. u.version <= t.version
    BY <1>2, <1>6
  <2>2. u.version = t.version => u.id[2] <= t.id[2]
    BY <1>4, <1>5, <1>6 DEF T
  <2>3. QED
    BY <1>1, <1>6, <2>1, <2>2
<1>8. QED
  BY <1>6, <1>7 DEF Prompts!Newest

\* The identifier a new template takes is one no file has.
LEMMA FreeIdIsFree ==
  ASSUME NEW v, NEW taken, IsFiniteSet(taken)
  PROVE  /\ Prompts!FreeId(v, taken) \notin taken
         /\ \E n \in Nat : Prompts!FreeId(v, taken) = <<v, n>>
<1> DEFINE c == Cardinality(taken)
           S == {n \in 0..c : <<v, n>> \notin taken}
<1>1. c \in Nat
  BY FS_CardinalityType
<1>2. Prompts!Cardinality(taken) = c
  BY Zenon DEF Prompts!Cardinality, Cardinality
<1>3. S # {}
  <2> SUFFICES ASSUME S = {} PROVE FALSE
    OBVIOUS
  <2> DEFINE f == [n \in 0..c |-> <<v, n>>]
  <2>1. f \in [0..c -> taken]
    OBVIOUS
  <2>2. IsFiniteSet(0..c) /\ Cardinality(0..c) = c + 1
    <3>1. 0 \in Int /\ c \in Int
      BY <1>1
    <3> HIDE DEF c
    <3>2. IsFiniteSet(0..c) /\ Cardinality(0..c) = IF 0 > c THEN 0 ELSE c - 0 + 1
      BY <3>1, FS_Interval
    <3>3. QED
      BY <1>1, <3>2
  <2>3. \A m, n \in 0..c : f[m] = f[n] => m = n
    OBVIOUS
  <2> DEFINE D == 0..c
  <2>4. Cardinality(taken) < Cardinality(D) /\ IsFiniteSet(D) /\ f \in [D -> taken]
    BY <1>1, <2>1, <2>2
  <2>5. \A m, n \in D : f[m] = f[n] => m = n
    BY <2>3
  <2> HIDE DEF f, D
  <2>6. \E m, n \in D : m # n /\ f[m] = f[n]
    BY <2>4, FS_PigeonHole
  <2>7. QED
    BY <2>5, <2>6
<1>4. S \in SUBSET Nat
  BY <1>1
<1>5. Prompts!Min(S) \in S
  <2>1. \E m \in S : \A k \in S : m <= k
    <3> HIDE DEF S
    <3> QED
      BY <1>3, <1>4, LeastNumberOf
  <2>2. QED
    BY <2>1 DEF Prompts!Min
<1>6. Prompts!FreeId(v, taken) = <<v, Prompts!Min(S)>>
  BY <1>2 DEF Prompts!FreeId
<1>7. QED
  BY <1>4, <1>5, <1>6

\* The next version is a version.
LEMMA NextVersionIsOne ==
  ASSUME NEW S, IsFiniteSet(S), \A t \in S : Prompts!IsTemplate(t)
  PROVE  Prompts!NextVersion(S) \in Nat \ {0}
<1>1. CASE S = {}
  BY <1>1 DEF Prompts!NextVersion
<1>2. CASE S # {}
  <2> DEFINE V == {t.version : t \in S}
  <2>1. IsFiniteSet(V) /\ V \in SUBSET Nat /\ V # {}
    <3>1. PromptVersions \in Nat
      BY PromptsAssumption DEF PromptsAssumption, Prompts!Assumptions
    <3>2. \A t \in S : t.version \in Nat
      BY <3>1 DEF Prompts!IsTemplate
    <3> DEFINE f == [t \in S |-> t.version]
    <3>3. V = {f[t] : t \in S} /\ DOMAIN f = S /\ f = [t \in S |-> f[t]]
      OBVIOUS
    <3> HIDE DEF f
    <3>4. IsFiniteSet({f[t] : t \in S})
      BY <3>3, ValuesAreFinite
    <3>5. V \in SUBSET Nat /\ V # {}
      BY <1>2, <3>2
    <3> HIDE DEF V
    <3>6. QED
      BY <3>3, <3>4, <3>5
  <2>2. Prompts!Max(V) \in V
    <3> HIDE DEF V
    <3>1. \E m \in V : \A k \in V : k <= m
      BY <2>1, FiniteHasLargest
    <3>2. \E m \in V : \A k \in V : m >= k
      BY <2>1, <3>1
    <3>3. QED
      BY <3>2 DEF Prompts!Max
  <2>3. Prompts!Max(V) \in Nat
    BY <2>1, <2>2
  <2>4. Prompts!NextVersion(S) = 1 + Prompts!Max(V)
    BY <1>2 DEF Prompts!NextVersion
  <2>5. QED
    BY <2>3, <2>4
<1>3. QED
  BY <1>1, <1>2

LEMMA PromptBounds == PromptVersions \in Nat /\ PromptRequests \in Nat /\ PromptFaults \in Nat
  BY PromptsAssumption DEF PromptsAssumption, Prompts!Assumptions

\* What is known of a template.
LEMMA TemplateIs ==
  ASSUME NEW t, Prompts!IsTemplate(t)
  PROVE  /\ t.version \in Nat \ {0} /\ t.version <= PromptVersions
         /\ t.id \in Nat \X Nat /\ t.id[2] \in Nat
         /\ t.realm \in PromptRealms \cup {Nil} /\ t.active \in BOOLEAN
         /\ t = [id |-> t.id, realm |-> t.realm, version |-> t.version, active |-> t.active,
                 by |-> t.by]
<1>1. PromptVersions \in Nat
  BY PromptBounds
<1>2. QED
  BY <1>1 DEF Prompts!IsTemplate, Prompts!Template

LEMMA PromptCard == \A S : Prompts!Cardinality(S) = Cardinality(S)
  BY Zenon DEF Prompts!Cardinality, Cardinality

LEMMA PromptInit == ASSUME part = "prompts", Init PROVE PromptInv
<1>1. Prompts!Init
  BY DEF Init
<1>2. PICK T \in PromptTemplates : files = T.files /\ stored = T.docs
  BY <1>1 DEF Prompts!Init
<1>3. /\ Prompts!IsFiniteSet(files) /\ Prompts!IsFiniteSet(stored)
      /\ \A t \in files \cup stored : Prompts!IsTemplate(t)
      /\ \A t, u \in files :
            t.id = u.id \/ (t.active /\ u.active /\ t.realm = u.realm) => t = u
  BY <1>2, PromptsAssumption DEF PromptsAssumption, Prompts!Assumptions
<1>4. IsFiniteSet(files) /\ IsFiniteSet(stored)
  BY <1>3, Zenon DEF Prompts!IsFiniteSet, IsFiniteSet
<1>5. FilesGood /\ StoredGood
  BY <1>3, <1>4 DEF FilesGood, StoredGood, OwnIds
<1>6. HandlersGood
  BY <1>1 DEF Prompts!Init, HandlersGood, HandlerOK, Prompts!Idle
<1>7. WritingGood
  BY <1>1, <1>3 DEF Prompts!Init, WritingGood, OneActive
<1>8. faults \in 0..PromptFaults /\ started \in 0..PromptRequests
  BY <1>1, PromptBounds DEF Prompts!Init
<1>9. QED
  BY <1>5, <1>6, <1>7, <1>8 DEF PromptInv

\* A handler goes on, the others stay where they are.
LEMMA PromptHandlerMoves ==
  ASSUME HandlersGood, NEW h \in PromptHandlers, NEW s, HandlerOK(s), Prompts!Goto(h, s)
  PROVE  HandlersGood'
<1>1. handler' = [handler EXCEPT ![h] = s]
  BY DEF Prompts!Goto
<1>2. handler' = [x \in PromptHandlers |-> IF x = h THEN s ELSE handler[x]]
  BY <1>1 DEF HandlersGood
<1>3. \A x \in PromptHandlers : handler'[x] = s \/ handler'[x] = handler[x]
  BY <1>2
<1>4. \A x \in PromptHandlers : HandlerOK(handler'[x])
  BY Zenon, <1>3 DEF HandlersGood
<1>5. handler' = [x \in PromptHandlers |-> handler'[x]]
  BY <1>2
<1>6. QED
  BY <1>4, <1>5, Zenon DEF HandlersGood, HandlerOK

LEMMA HandlersStand == ASSUME HandlersGood, handler' = handler PROVE HandlersGood'
<1>1. \A x \in PromptHandlers : HandlerOK(handler'[x])
  BY Zenon DEF HandlersGood
<1>2. handler' = [x \in PromptHandlers |-> handler'[x]]
  BY Zenon DEF HandlersGood
<1>3. QED
  BY <1>1, <1>2, Zenon DEF HandlersGood, HandlerOK

\* What is left of a sequence of more than one.
LEMMA TailIs ==
  ASSUME NEW S, NEW q \in Seq(S), q # <<>>, Len(q) # 1
  PROVE  /\ Len(q) > 1 /\ Len(Tail(q)) = Len(q) - 1 /\ Tail(q) \in Seq(S) /\ Tail(q) # <<>>
         /\ \A i \in 1..Len(Tail(q)) : Tail(q)[i] = q[i + 1] /\ i + 1 \in 1..Len(q)
<1>1. Len(q) \in Nat /\ Len(q) # 0
  OBVIOUS
<1>2. Len(q) > 1
  <2>1. \A n \in Nat : n # 0 /\ n # 1 => n > 1
    OBVIOUS
  <2>2. QED
    BY Zenon, <1>1, <2>1
<1>3. Len(Tail(q)) = Len(q) - 1 /\ Tail(q) \in Seq(S)
  OBVIOUS
<1>4. Tail(q) # <<>>
  BY <1>2, <1>3
<1>5. \A i \in 1..Len(Tail(q)) : Tail(q)[i] = q[i + 1] /\ i + 1 \in 1..Len(q)
  BY <1>2, <1>3
<1>6. QED
  BY <1>2, <1>3, <1>4, <1>5

LEMMA PlainStates ==
  \A s : s.pc \in {"idle", "setting", "realms", "unstore"} => HandlerOK(s)
  BY DEF HandlerOK

\* MongoDB takes a template, or lets one go, or fails.
LEMMA UpsertKeeps ==
  ASSUME StoredGood, faults \in 0..PromptFaults, NEW t, Prompts!IsTemplate(t),
         Prompts!MongoUpsert(t)
  PROVE  StoredGood' /\ faults' \in 0..PromptFaults
<1>1. stored' \subseteq stored \cup {t}
  BY DEF Prompts!MongoUpsert, Prompts!Store
<1>2. IsFiniteSet(stored \cup {t})
  BY FS_AddElement DEF StoredGood
<1>3. IsFiniteSet(stored')
  BY <1>1, <1>2, FS_Subset
<1>4. \A u \in stored' : Prompts!IsTemplate(u)
  BY <1>1 DEF StoredGood
<1>5. faults' \in 0..PromptFaults
  BY PromptBounds DEF Prompts!MongoUpsert
<1>6. QED
  BY <1>3, <1>4, <1>5, Zenon DEF StoredGood, Prompts!IsTemplate, Prompts!Template

LEMMA DeletionKeeps ==
  ASSUME StoredGood, faults \in 0..PromptFaults, NEW id, Prompts!MongoDelete(id)
  PROVE  StoredGood' /\ faults' \in 0..PromptFaults
<1>1. stored' \subseteq stored
  BY DEF Prompts!MongoDelete, Prompts!Remove1
<1>2. IsFiniteSet(stored')
  BY <1>1, FS_Subset DEF StoredGood
<1>3. \A u \in stored' : Prompts!IsTemplate(u)
  BY <1>1 DEF StoredGood
<1>4. faults' \in 0..PromptFaults
  BY PromptBounds DEF Prompts!MongoDelete
<1>5. QED
  BY <1>2, <1>3, <1>4, Zenon DEF StoredGood, Prompts!IsTemplate, Prompts!Template

\* Templates in the order of their versions: a sequence of all of them.
LEMMA OrderedAre ==
  ASSUME NEW S, IsFiniteSet(S), S # {}, NEW order \in Prompts!ByVersion(S)
  PROVE  /\ order \in Seq(S) /\ order # <<>>
         /\ \A t \in S : \E i \in 1..Len(order) : order[i] = t
         /\ \A i, j \in 1..Len(order) : i < j => Prompts!Before(order[i], order[j])
<1>1. Cardinality(S) \in Nat
  BY FS_CardinalityType
<1>2. order \in [1..Cardinality(S) -> S]
  BY PromptCard DEF Prompts!ByVersion
<1>3. order \in Seq(S) /\ DOMAIN order = 1..Len(order)
  BY <1>1, <1>2
<1>4. S = {order[i] : i \in DOMAIN order}
  BY DEF Prompts!ByVersion
<1>5. \A i, j \in DOMAIN order : i < j => Prompts!Before(order[i], order[j])
  BY DEF Prompts!ByVersion
<1>6. order # <<>>
  BY <1>3, <1>4
<1>7. \A t \in S : \E i \in 1..Len(order) : order[i] = t
  BY Zenon, <1>3, <1>4
<1>8. QED
  BY Zenon, <1>3, <1>5, <1>6, <1>7

\* The identifiers of finitely many templates.
LEMMA IdsAreFinite ==
  ASSUME NEW S, IsFiniteSet(S)
  PROVE  /\ IsFiniteSet(Prompts!IdsOf(S))
         /\ OwnIds(S) => Cardinality(Prompts!IdsOf(S)) = Cardinality(S)
<1> DEFINE f == [t \in S |-> t.id]
<1>1. /\ Prompts!IdsOf(S) = {f[t] : t \in S} /\ DOMAIN f = S /\ f = [t \in S |-> f[t]]
      /\ OwnIds(S) => \A t, u \in S : f[t] = f[u] => t = u
  BY DEF Prompts!IdsOf, OwnIds
<1> HIDE DEF f
<1>2. QED
  BY <1>1, ValuesAreFinite

LEMMA PromptCreateKeeps ==
  ASSUME PromptInv, NEW h \in PromptHandlers, NEW r \in PromptRealms, Prompts!CreatePrompt(h, r)
  PROVE  PromptInv'
<1>1. \A S \in (SUBSET files) \cup (SUBSET stored) : Prompts!NextVersion(S) \in Nat \ {0}
  <2> SUFFICES ASSUME NEW S \in (SUBSET files) \cup (SUBSET stored)
               PROVE  Prompts!NextVersion(S) \in Nat \ {0}
    OBVIOUS
  <2>1. IsFiniteSet(S)
    BY FS_Subset DEF PromptInv, FilesGood, StoredGood
  <2>2. \A t \in S : Prompts!IsTemplate(t)
    BY DEF PromptInv, FilesGood, StoredGood
  <2>3. QED
    BY <2>1, <2>2, NextVersionIsOne
<1>2. PICK v \in Nat \ {0} :
        Prompts!Goto(h, [pc |-> "save", realm |-> r, version |-> v, taken |-> Prompts!IdsOf(files)])
  <2>1. Prompts!InRealm(stored, r) \in SUBSET stored
    BY DEF Prompts!InRealm
  <2>2. QED
    BY <1>1, <2>1 DEF Prompts!CreatePrompt
<1>3. HandlerOK([pc |-> "save", realm |-> r, version |-> v, taken |-> Prompts!IdsOf(files)])
  BY DEF HandlerOK
<1>4. HandlersGood'
  BY <1>2, <1>3, PromptHandlerMoves DEF PromptInv
<1>5. UNCHANGED <<files, stored, writing, seeded>>
  BY DEF Prompts!CreatePrompt
<1>6. FilesGood' /\ StoredGood' /\ WritingGood'
  BY <1>5 DEF PromptInv, FilesGood, StoredGood, WritingGood, WritingOK, ActivationOK, OneActive,
       OwnIds, Prompts!IsTemplate, Prompts!Template
<1>7. faults' \in 0..PromptFaults /\ started' \in 0..PromptRequests
  BY PromptBounds DEF Prompts!CreatePrompt, Prompts!Accept, PromptInv
<1>8. QED
  BY <1>4, <1>6, <1>7 DEF PromptInv

\* A handler saves its template under an identifier of its own.
LEMMA SavedIsNew ==
  ASSUME PromptInv, NEW h \in PromptHandlers, Prompts!SavePrompt(h)
  PROVE  \E t : /\ Prompts!IsTemplate(t) /\ ~t.active
                /\ files' = files \cup {t} /\ t.id \notin Prompts!IdsOf(files)
                /\ Prompts!Goto(h, [pc |-> "upsert", template |-> t])
<1> DEFINE v == handler[h].version
           i == Prompts!FreeId(v, Prompts!IdsOf(files))
           t == Prompts!Template(i, handler[h].realm, v, FALSE, h)
<1>1. files' = files \cup {t} /\ Prompts!Goto(h, [pc |-> "upsert", template |-> t])
  BY DEF Prompts!SavePrompt
<1>2. v \in Nat \ {0} /\ v <= PromptVersions /\ handler[h].realm \in PromptRealms
  BY DEF Prompts!SavePrompt, PromptInv, HandlersGood, HandlerOK
<1>3. IsFiniteSet(Prompts!IdsOf(files))
  BY IdsAreFinite DEF PromptInv, FilesGood
<1>4. i \notin Prompts!IdsOf(files) /\ \E n \in Nat : i = <<v, n>>
  BY <1>3, FreeIdIsFree
<1> HIDE DEF i, v
<1>5. t.id = i /\ ~t.active
  BY DEF Prompts!Template
<1>6. Prompts!IsTemplate(t)
  BY <1>2, <1>4, PromptBounds DEF Prompts!IsTemplate, Prompts!Template
<1> HIDE DEF t
<1>7. QED
  BY <1>1, <1>4, <1>5, <1>6

LEMMA PromptSaveKeeps ==
  ASSUME PromptInv, NEW h \in PromptHandlers, Prompts!SavePrompt(h)
  PROVE  PromptInv'
<1>1. PICK t : /\ Prompts!IsTemplate(t) /\ ~t.active
               /\ files' = files \cup {t} /\ t.id \notin Prompts!IdsOf(files)
               /\ Prompts!Goto(h, [pc |-> "upsert", template |-> t])
  BY SavedIsNew
<1>2. IsFiniteSet(files')
  BY <1>1, FS_AddElement DEF PromptInv, FilesGood
<1>3. \A u \in files' : Prompts!IsTemplate(u)
  BY <1>1 DEF PromptInv, FilesGood
<1>4. \A u \in files : u.id # t.id
  BY <1>1 DEF Prompts!IdsOf
<1>5. OwnIds(files')
  BY <1>1, <1>4 DEF OwnIds, PromptInv, FilesGood
<1>6. FilesGood'
  BY <1>2, <1>3, <1>5, Zenon DEF FilesGood, OwnIds, Prompts!IsTemplate, Prompts!Template
<1>7. UNCHANGED <<stored, writing, started, faults, seeded>> /\ writing = Prompts!Idle
  BY DEF Prompts!SavePrompt, Prompts!Free
<1>8. WritingGood'
  BY <1>1, <1>7 DEF WritingGood, PromptInv, OneActive
<1>9. StoredGood'
  BY <1>7 DEF StoredGood, PromptInv, Prompts!IsTemplate, Prompts!Template
<1>10. HandlerOK([pc |-> "upsert", template |-> t])
  BY <1>1 DEF HandlerOK
<1>11. HandlersGood'
  BY <1>1, <1>10, PromptHandlerMoves DEF PromptInv
<1>12. QED
  BY <1>6, <1>7, <1>8, <1>9, <1>11 DEF PromptInv

\* Steps that touch neither the files nor an activation.
LEMMA FilesStand ==
  ASSUME PromptInv, UNCHANGED <<files, writing, seeded>>
  PROVE  FilesGood' /\ WritingGood'
BY DEF PromptInv, FilesGood, WritingGood, WritingOK, ActivationOK, OneActive, OwnIds,
     Prompts!IsTemplate, Prompts!Template

LEMMA PromptUpsertKeeps ==
  ASSUME PromptInv, NEW h \in PromptHandlers, Prompts!SavedUpsert(h)
  PROVE  PromptInv'
<1>1. Prompts!IsTemplate(handler[h].template)
  BY DEF Prompts!SavedUpsert, PromptInv, HandlersGood, HandlerOK
<1>2. StoredGood' /\ faults' \in 0..PromptFaults
  BY <1>1, UpsertKeeps DEF Prompts!SavedUpsert, PromptInv
<1>3. HandlersGood'
  BY PromptHandlerMoves, PlainStates DEF Prompts!SavedUpsert, PromptInv, Prompts!Idle
<1>4. UNCHANGED <<files, writing, started, seeded>>
  BY DEF Prompts!SavedUpsert
<1>5. FilesGood' /\ WritingGood'
  BY <1>4, FilesStand
<1>6. QED
  BY <1>2, <1>3, <1>4, <1>5 DEF PromptInv

LEMMA NamedIsThere ==
  ASSUME NEW S, NEW id \in Prompts!IdsOf(S)
  PROVE  Prompts!Named(S, id) \in S /\ Prompts!Named(S, id).id = id
BY DEF Prompts!IdsOf, Prompts!Named

LEMMA PromptActivateKeeps ==
  ASSUME PromptInv, NEW h \in PromptHandlers, NEW id \in Prompts!IdsOf(files),
         Prompts!SetActive(h, id)
  PROVE  PromptInv'
<1>1. PICK w \in files : w.id = id /\ w = Prompts!Named(files, id)
  BY NamedIsThere
<1> DEFINE S == Prompts!Touched(id)
<1>2. S = {t \in files : t.realm = w.realm}
  BY <1>1 DEF Prompts!Touched, Prompts!InRealm
<1>3. PICK order \in Prompts!ByVersion(S) :
        writing' = [by |-> h, target |-> id, todo |-> order,
                    chosen |-> Prompts!Active(files) \cup {w}]
  BY <1>1 DEF Prompts!SetActive
<1> HIDE DEF S
<1>4. IsFiniteSet(S) /\ S # {} /\ S \subseteq files
  <2>1. S \subseteq files /\ S # {}
    BY <1>1, <1>2
  <2>2. QED
    BY <2>1, FS_Subset DEF PromptInv, FilesGood
<1>5. /\ order \in Seq(S) /\ order # <<>>
      /\ \A t \in S : \E i \in 1..Len(order) : order[i] = t
      /\ \A i, j \in 1..Len(order) : i < j => Prompts!Before(order[i], order[j])
  BY <1>4, OrderedAre
<1>6. /\ order \in Seq(files)
      /\ \A i \in 1..Len(order) : order[i] \in files /\ order[i].realm = w.realm
  BY <1>2, <1>4, <1>5
<1>7. \A i, j \in 1..Len(order) : order[i].id = order[j].id => i = j
  <2> SUFFICES ASSUME NEW i \in 1..Len(order), NEW j \in 1..Len(order),
                      order[i].id = order[j].id, i # j
               PROVE  FALSE
    OBVIOUS
  <2>1. order[i] = order[j]
    BY <1>6 DEF PromptInv, FilesGood, OwnIds
  <2>2. Prompts!Before(order[i], order[i])
    <3>1. Len(order) \in Nat
      BY <1>5
    <3>2. i < j \/ j < i
      BY <3>1
    <3>3. QED
      BY <1>5, <2>1, <3>2
  <2>3. order[i].version \in Nat /\ order[i].id[2] \in Nat
    BY <1>6, TemplateIs DEF PromptInv, FilesGood
  <2>4. QED
    BY <2>2, <2>3 DEF Prompts!Before
<1>8. /\ writing'.by = h /\ writing'.target = id /\ writing'.todo = order /\ w \in writing'.chosen
      /\ writing' = [by |-> writing'.by, target |-> writing'.target, todo |-> writing'.todo,
                     chosen |-> writing'.chosen]
  BY <1>3
<1>9. UNCHANGED <<files, stored, faults, seeded>> /\ writing = Prompts!Idle
  BY DEF Prompts!SetActive, Prompts!Accept, Prompts!Free
<1>10. ActivationOK(w)'
  <2>1. ~seeded => OneActive({t \in files : t.realm # w.realm})
    BY <1>9 DEF PromptInv, WritingGood, OneActive
  <2>2. \A t \in files : t.realm = w.realm => \E i \in 1..Len(order) : order[i] = t
    BY <1>2, <1>5
  <2>3. QED
    BY <1>1, <1>6, <1>8, <1>9, <2>1, <2>2 DEF ActivationOK, OneActive
<1>11. WritingOK'
  BY <1>5, <1>6, <1>7, <1>8, <1>9, <1>10 DEF WritingOK
<1>12. writing' # Prompts!Idle
  <2>1. DOMAIN writing' = {"by", "target", "todo", "chosen"}
    BY <1>3
  <2>2. DOMAIN Prompts!Idle = {"pc"}
    BY DEF Prompts!Idle
  <2>3. QED
    BY <2>1, <2>2
<1>13. WritingGood'
  BY <1>11, <1>12 DEF WritingGood, Prompts!Idle
<1>14. HandlersGood'
  BY PromptHandlerMoves, PlainStates DEF Prompts!SetActive, PromptInv
<1>15. FilesGood' /\ StoredGood'
  BY <1>9 DEF PromptInv, FilesGood, StoredGood, OwnIds, Prompts!IsTemplate, Prompts!Template
<1>16. started' \in 0..PromptRequests /\ faults' \in 0..PromptFaults
  BY <1>9, PromptBounds DEF Prompts!SetActive, Prompts!Accept, PromptInv
<1>17. QED
  BY <1>13, <1>14, <1>15, <1>16 DEF PromptInv

\* A file is written again with another flag: the rest is as it was.
LEMMA WrittenFile ==
  ASSUME PromptInv, Prompts!WriteFile
  PROVE  \E t \in files : \E u :
           /\ t = writing.todo[1] /\ WritingOK /\ writing # Prompts!Idle
           /\ files' = (files \ {t}) \cup {u}
           /\ u = [id |-> t.id, realm |-> t.realm, version |-> t.version,
                   active |-> (t.id = writing.target), by |-> t.by]
           /\ Prompts!IsTemplate(u)
<1>1. WritingOK /\ writing # Prompts!Idle
  BY DEF PromptInv, WritingGood, Prompts!WriteFile
<1> DEFINE t == Head(writing.todo)
           u == [t EXCEPT !.active = (t.id = writing.target)]
           z == [id |-> t.id, realm |-> t.realm, version |-> t.version,
                 active |-> (t.id = writing.target), by |-> t.by]
<1>2. t = writing.todo[1] /\ t \in files
  BY <1>1 DEF WritingOK
<1>3. files' = {x \in files : x.id # t.id} \cup {u}
  BY DEF Prompts!WriteFile
<1>4. Prompts!IsTemplate(t)
  BY <1>2 DEF PromptInv, FilesGood
<1> HIDE DEF t
<1>5. u = z
  BY <1>4, TemplateIs
<1>6. {x \in files : x.id # t.id} = files \ {t}
  BY <1>2 DEF PromptInv, FilesGood, OwnIds
<1>7. Prompts!IsTemplate(z)
  BY <1>4 DEF Prompts!IsTemplate, Prompts!Template
<1> HIDE DEF u, z
<1>8. files' = (files \ {t}) \cup {z}
  BY <1>3, <1>5, <1>6
<1>9. QED
  BY <1>1, <1>2, <1>7, <1>8 DEF z

LEMMA PromptWriteKeeps ==
  ASSUME PromptInv, Prompts!WriteFile
  PROVE  PromptInv'
<1>0. PICK t \in files : \E u :
        /\ t = writing.todo[1] /\ WritingOK /\ writing # Prompts!Idle
        /\ files' = (files \ {t}) \cup {u}
        /\ u = [id |-> t.id, realm |-> t.realm, version |-> t.version,
                active |-> (t.id = writing.target), by |-> t.by]
        /\ Prompts!IsTemplate(u)
  BY WrittenFile
<1>1. PICK u :
        /\ t = writing.todo[1] /\ WritingOK /\ writing # Prompts!Idle
        /\ files' = (files \ {t}) \cup {u}
        /\ u = [id |-> t.id, realm |-> t.realm, version |-> t.version,
                active |-> (t.id = writing.target), by |-> t.by]
        /\ Prompts!IsTemplate(u)
  BY <1>0
<1>2. /\ u.id = t.id /\ u.realm = t.realm
      /\ u.active <=> t.id = writing.target
  BY <1>1
<1>3. IsFiniteSet(files')
  <2>1. IsFiniteSet(files \ {t})
    BY FS_RemoveElement DEF PromptInv, FilesGood
  <2>2. QED
    BY <1>1, <2>1, FS_AddElement
<1>4. (\A x \in files' : Prompts!IsTemplate(x)) /\ OwnIds(files')
  BY <1>1, <1>2 DEF PromptInv, FilesGood, OwnIds
<1>5. FilesGood'
  BY <1>3, <1>4, Zenon DEF FilesGood, OwnIds, Prompts!IsTemplate, Prompts!Template
<1>6. UNCHANGED <<stored, started, faults, seeded>>
  BY DEF Prompts!WriteFile
<1>7. StoredGood' /\ faults' \in 0..PromptFaults /\ started' \in 0..PromptRequests
  BY <1>6 DEF PromptInv, StoredGood, Prompts!IsTemplate, Prompts!Template
<1>8. HandlersGood'
  <2>1. CASE Prompts!Goto(writing.by, [pc |-> "realms"])
    BY <1>1, <2>1, PromptHandlerMoves, PlainStates DEF PromptInv, WritingOK
  <2>2. CASE handler' = handler
    BY <2>2, HandlersStand DEF PromptInv
  <2>3. QED
    BY <2>1, <2>2 DEF Prompts!WriteFile
<1>9. PICK w \in writing.chosen : ActivationOK(w)
  BY <1>1 DEF WritingOK
<1>10. t.realm = w.realm
  BY <1>1, <1>9 DEF WritingOK, ActivationOK
<1>11. ~seeded => OneActive({x \in files' : x.realm # w.realm})
  <2>1. {x \in files' : x.realm # w.realm} = {x \in files : x.realm # w.realm}
    BY <1>1, <1>2, <1>10
  <2>2. QED
    BY <1>9, <2>1 DEF ActivationOK
<1>12. ASSUME Len(writing.todo) = 1 PROVE WritingGood'
  <2>1. writing' = Prompts!Idle
    BY <1>12 DEF Prompts!WriteFile
  <2>2. ~seeded => OneActive(files')
    <3> SUFFICES ASSUME ~seeded, NEW x \in files', NEW y \in files',
                        x.active /\ y.active /\ x.realm = y.realm
                 PROVE  x = y
      BY DEF OneActive
    <3>1. CASE x.realm # w.realm
      BY <1>11, <3>1 DEF OneActive
    <3>2. CASE x.realm = w.realm
      <4>1. \A z \in files : z.realm = w.realm /\ z.active /\ z.id # writing.target => z = t
        BY <1>1, <1>9, <1>12 DEF ActivationOK
      <4>2. x.id = writing.target /\ y.id = writing.target
        BY <1>1, <1>2, <3>2, <4>1
      <4>3. QED
        BY <1>4, <4>2 DEF OwnIds
    <3>3. QED
      BY <3>1, <3>2
  <2>3. QED
    BY <1>6, <2>1, <2>2 DEF WritingGood, OneActive
<1>13. ASSUME Len(writing.todo) # 1 PROVE WritingGood'
  <2> DEFINE rest == Tail(writing.todo)
  <2>1. writing' = [writing EXCEPT !.todo = rest]
    BY <1>13 DEF Prompts!WriteFile
  <2>2. writing' = [by |-> writing.by, target |-> writing.target, todo |-> rest,
                    chosen |-> writing.chosen]
    BY <1>1, <2>1 DEF WritingOK
  <2>3. /\ writing.todo \in Seq(files) /\ Len(writing.todo) > 1
        /\ Len(rest) = Len(writing.todo) - 1
        /\ \A i \in 1..Len(rest) : rest[i] = writing.todo[i + 1] /\ i + 1 \in 1..Len(writing.todo)
    BY <1>1, <1>13, TailIs DEF WritingOK
  <2>4. rest \in Seq(files) /\ rest # <<>>
    BY <1>1, <1>13, TailIs DEF WritingOK
  <2> HIDE DEF rest
  <2>5. \A i \in 1..Len(rest) : rest[i] \in files /\ rest[i] # t
    BY <1>1, <2>3, <2>4 DEF WritingOK
  <2>6. rest \in Seq(files')
    <3>1. \A i \in 1..Len(rest) : rest[i] \in files'
      BY <1>1, <2>5
    <3>2. QED
      BY <2>4, <3>1
  <2>7. \A i, j \in 1..Len(rest) : rest[i].id = rest[j].id => i = j
    <3> SUFFICES ASSUME NEW i \in 1..Len(rest), NEW j \in 1..Len(rest), rest[i].id = rest[j].id
                 PROVE  i = j
      OBVIOUS
    <3>1. i + 1 = j + 1
      BY <1>1, <2>3 DEF WritingOK
    <3>2. Len(rest) \in Nat
      BY <2>4
    <3>3. QED
      BY <3>1, <3>2
  <2>8. ~seeded => \A x \in files' : x.realm = w.realm /\ x.active /\ x.id # writing.target =>
                       \E i \in 1..Len(rest) : rest[i] = x
    <3> SUFFICES ASSUME ~seeded, NEW x \in files',
                        x.realm = w.realm /\ x.active /\ x.id # writing.target
                 PROVE  \E i \in 1..Len(rest) : rest[i] = x
      OBVIOUS
    <3>1. x \in files /\ x # t
      BY <1>1, <1>2
    <3>2. PICK i \in 1..Len(writing.todo) : writing.todo[i] = x
      BY <1>9, <3>1 DEF ActivationOK
    <3>3. i # 1
      BY <1>1, <3>1, <3>2
    <3>4. i - 1 \in 1..Len(rest) /\ (i - 1) + 1 = i
      BY <2>3, <3>3
    <3>5. QED
      BY <2>3, <3>2, <3>4
  <2>9. /\ writing'.by = writing.by /\ writing'.target = writing.target /\ writing'.todo = rest
        /\ writing'.chosen = writing.chosen
        /\ writing' = [by |-> writing'.by, target |-> writing'.target, todo |-> writing'.todo,
                       chosen |-> writing'.chosen]
    BY <2>2
  <2>10. \A i \in 1..Len(rest) : rest[i].realm = w.realm
    BY SMTT(30), <1>9, <2>3 DEF ActivationOK
  <2>11. ActivationOK(w)'
    <3>1. w.id = writing'.target /\ seeded' = seeded
      BY <1>6, <1>9, <2>9 DEF ActivationOK
    <3>2. ~seeded => OneActive({x \in files : x.realm # w.realm})'
      BY <1>11, <3>1 DEF OneActive
    <3>3. QED
      BY <2>8, <2>9, <2>10, <3>1, <3>2 DEF ActivationOK
  <2>12. WritingOK'
    BY <1>1, <1>9, <2>4, <2>6, <2>7, <2>9, <2>11 DEF WritingOK
  <2>13. writing' # Prompts!Idle
    <3>1. DOMAIN writing' = {"by", "target", "todo", "chosen"}
      BY <2>2
    <3>2. DOMAIN Prompts!Idle = {"pc"}
      BY DEF Prompts!Idle
    <3>3. QED
      BY <3>1, <3>2
  <2>14. QED
    BY <2>12, <2>13 DEF WritingGood, Prompts!Idle
<1>14. QED
  BY <1>5, <1>7, <1>8, <1>12, <1>13 DEF PromptInv

\* The files as they are when they are read for the documents, each with a realm where one is known.
LEMMA FilesWithRealms ==
  ASSUME PromptInv, NEW known, known = stored \/ known = {}
  PROVE  /\ IsFiniteSet(Prompts!WithRealms(known))
         /\ \A t \in Prompts!WithRealms(known) : Prompts!IsTemplate(t)
         /\ files # {} => Prompts!WithRealms(known) # {}
<1> DEFINE F(t) == [t EXCEPT !.realm = Prompts!RealmKnown(t, known)]
           f == [t \in files |-> F(t)]
<1>1. /\ Prompts!WithRealms(known) = {f[t] : t \in files}
      /\ DOMAIN f = files /\ f = [t \in files |-> f[t]]
  BY DEF Prompts!WithRealms
<1>2. \A t \in files : Prompts!RealmKnown(t, known) \in PromptRealms \cup {Nil}
  <2> SUFFICES ASSUME NEW t \in files
               PROVE  Prompts!RealmKnown(t, known) \in PromptRealms \cup {Nil}
    OBVIOUS
  <2>1. t.realm \in PromptRealms \cup {Nil}
    BY TemplateIs DEF PromptInv, FilesGood
  <2>2. CASE t.id \in Prompts!IdsOf(known)
    <3>1. Prompts!Named(known, t.id) \in known
      BY <2>2, NamedIsThere
    <3>2. Prompts!Named(known, t.id) \in stored
      BY <3>1
    <3>3. Prompts!Named(known, t.id).realm \in PromptRealms \cup {Nil}
      BY <3>2, TemplateIs DEF PromptInv, StoredGood
    <3>4. QED
      BY <2>1, <3>3 DEF Prompts!RealmKnown
  <2>3. CASE t.id \notin Prompts!IdsOf(known)
    BY <2>1, <2>3 DEF Prompts!RealmKnown
  <2>4. QED
    BY <2>2, <2>3
<1>3. \A t \in files : Prompts!IsTemplate(F(t))
  <2> SUFFICES ASSUME NEW t \in files PROVE Prompts!IsTemplate(F(t))
    OBVIOUS
  <2> DEFINE r == Prompts!RealmKnown(t, known)
             z == [id |-> t.id, realm |-> r, version |-> t.version, active |-> t.active, by |-> t.by]
  <2>1. Prompts!IsTemplate(t) /\ r \in PromptRealms \cup {Nil}
    BY <1>2 DEF PromptInv, FilesGood
  <2> HIDE DEF r
  <2>2. [t EXCEPT !.realm = r] = z
    BY <2>1, TemplateIs
  <2>3. Prompts!IsTemplate(z)
    BY <2>1 DEF Prompts!IsTemplate, Prompts!Template
  <2> HIDE DEF z
  <2>4. Prompts!IsTemplate([t EXCEPT !.realm = r])
    BY <2>2, <2>3
  <2>5. QED
    BY <2>4 DEF r
<1>4. \A t \in files : f[t] = F(t)
  OBVIOUS
<1> HIDE DEF f, F
<1>5. IsFiniteSet({f[t] : t \in files})
  BY <1>1, ValuesAreFinite DEF PromptInv, FilesGood
<1>6. QED
  BY <1>1, <1>3, <1>4, <1>5

LEMMA PromptReadKeeps ==
  ASSUME PromptInv, NEW h \in PromptHandlers, Prompts!ReadRealms(h)
  PROVE  PromptInv'
<1>1. PICK known \in {stored} \cup (IF faults < PromptFaults THEN {{}} ELSE {}) :
        /\ \/ files = {} /\ Prompts!Goto(h, Prompts!Idle)
           \/ files # {} /\ \E order \in Prompts!ByVersion(Prompts!WithRealms(known)) :
                                Prompts!Goto(h, [pc |-> "sync", todo |-> order])
        /\ faults' = IF known = stored THEN faults ELSE faults + 1
  BY DEF Prompts!ReadRealms
<1>2. UNCHANGED <<files, stored, writing, started, seeded>>
  BY DEF Prompts!ReadRealms
<1>3. faults' \in 0..PromptFaults
  BY <1>1, PromptBounds DEF PromptInv
<1>4. HandlersGood'
  <2>1. CASE Prompts!Goto(h, Prompts!Idle)
    BY <2>1, PromptHandlerMoves, PlainStates DEF PromptInv, Prompts!Idle
  <2>2. ASSUME files # {}, NEW order \in Prompts!ByVersion(Prompts!WithRealms(known)),
               Prompts!Goto(h, [pc |-> "sync", todo |-> order])
        PROVE  HandlersGood'
    <3> DEFINE S == Prompts!WithRealms(known)
    <3>1. IsFiniteSet(S) /\ S # {} /\ \A t \in S : Prompts!IsTemplate(t)
      BY <1>1, <2>2, FilesWithRealms
    <3> HIDE DEF S
    <3>2. order \in Prompts!ByVersion(S)
      BY <2>2 DEF S
    <3>3. order \in Seq(S) /\ order # <<>>
      BY <3>1, <3>2, OrderedAre
    <3>4. order \in Seq({order[i] : i \in DOMAIN order})
      BY <3>3
    <3>5. \A i \in 1..Len(order) : Prompts!IsTemplate(order[i])
      BY <3>1, <3>3
    <3>6. HandlerOK([pc |-> "sync", todo |-> order])
      BY <3>3, <3>4, <3>5 DEF HandlerOK
    <3>7. QED
      BY <2>2, <3>6, PromptHandlerMoves DEF PromptInv
  <2>3. QED
    BY <1>1, <2>1, <2>2
<1>5. FilesGood' /\ WritingGood'
  BY <1>2, FilesStand
<1>6. StoredGood'
  BY <1>2 DEF StoredGood, PromptInv, Prompts!IsTemplate, Prompts!Template
<1>7. QED
  BY <1>2, <1>3, <1>4, <1>5, <1>6 DEF PromptInv

LEMMA PromptSyncKeeps ==
  ASSUME PromptInv, NEW h \in PromptHandlers, Prompts!SyncOne(h)
  PROVE  PromptInv'
<1>0. HandlerOK(handler[h]) /\ handler[h].pc = "sync"
  BY DEF Prompts!SyncOne, PromptInv, HandlersGood
<1>1. PICK q : q = handler[h].todo
  OBVIOUS
<1>2. /\ DOMAIN handler[h] = {"pc", "todo"} /\ handler[h].pc = "sync"
      /\ q \in Seq({q[i] : i \in DOMAIN q}) /\ q # <<>>
      /\ \A i \in 1..Len(q) : Prompts!IsTemplate(q[i])
  BY Zenon, <1>0, <1>1 DEF HandlerOK
<1>3. Head(q) = q[1] /\ 1 \in 1..Len(q)
  BY <1>2
<1>4. StoredGood' /\ faults' \in 0..PromptFaults
  BY <1>1, <1>2, <1>3, UpsertKeeps DEF Prompts!SyncOne, PromptInv
<1>5. HandlersGood'
  <2>1. CASE Len(q) = 1
    BY <1>1, <2>1, PromptHandlerMoves, PlainStates DEF Prompts!SyncOne, PromptInv, Prompts!Idle
  <2>2. CASE Len(q) # 1
    <3>1. PICK rest : rest = Tail(q)
      OBVIOUS
    <3>2. /\ rest \in Seq({q[i] : i \in DOMAIN q}) /\ rest # <<>>
          /\ \A i \in 1..Len(rest) : rest[i] = q[i + 1] /\ i + 1 \in 1..Len(q)
      BY <1>2, <2>2, <3>1, TailIs
    <3>3. rest \in Seq({rest[i] : i \in DOMAIN rest})
      BY <3>2
    <3>4. \A i \in 1..Len(rest) : Prompts!IsTemplate(rest[i])
      BY <1>2, <3>2
    <3>5. PICK z : z = [handler[h] EXCEPT !.todo = rest]
      OBVIOUS
    <3>6. Prompts!Goto(h, z)
      BY <1>1, <2>2, <3>1, <3>5 DEF Prompts!SyncOne
    <3>7. z.pc = "sync" /\ z.todo = rest /\ DOMAIN z = {"pc", "todo"}
      BY <1>2, <3>5
    <3>8. HandlerOK(z)
      BY <3>2, <3>3, <3>4, <3>7 DEF HandlerOK
    <3>9. QED
      BY <3>6, <3>8, PromptHandlerMoves DEF PromptInv
  <2>3. QED
    BY <2>1, <2>2
<1>6. UNCHANGED <<files, writing, started, seeded>>
  BY DEF Prompts!SyncOne
<1>7. FilesGood' /\ WritingGood'
  BY <1>6, FilesStand
<1>8. QED
  BY <1>4, <1>5, <1>6, <1>7 DEF PromptInv

LEMMA PromptDeleteKeeps ==
  ASSUME PromptInv, NEW h \in PromptHandlers, NEW id, Prompts!DeletePrompt(h, id)
  PROVE  PromptInv'
<1>1. files' \subseteq files
  BY DEF Prompts!DeletePrompt
<1>2. IsFiniteSet(files')
  BY <1>1, FS_Subset DEF PromptInv, FilesGood
<1>3. FilesGood'
  BY <1>1, <1>2 DEF PromptInv, FilesGood, OwnIds, Prompts!IsTemplate, Prompts!Template
<1>4. UNCHANGED <<stored, writing, faults, seeded>> /\ writing = Prompts!Idle
  BY DEF Prompts!DeletePrompt, Prompts!Accept, Prompts!Free
<1>5. WritingGood'
  BY <1>1, <1>4 DEF PromptInv, WritingGood, OneActive
<1>6. HandlersGood'
  BY PromptHandlerMoves, PlainStates DEF Prompts!DeletePrompt, PromptInv
<1>7. StoredGood'
  BY <1>4 DEF StoredGood, PromptInv, Prompts!IsTemplate, Prompts!Template
<1>8. started' \in 0..PromptRequests /\ faults' \in 0..PromptFaults
  BY <1>4, PromptBounds DEF Prompts!DeletePrompt, Prompts!Accept, PromptInv
<1>9. QED
  BY <1>3, <1>5, <1>6, <1>7, <1>8 DEF PromptInv

LEMMA PromptUnstoreKeeps ==
  ASSUME PromptInv, NEW h \in PromptHandlers, Prompts!DeletedUnstore(h)
  PROVE  PromptInv'
<1>1. StoredGood' /\ faults' \in 0..PromptFaults
  BY DeletionKeeps DEF Prompts!DeletedUnstore, PromptInv
<1>2. HandlersGood'
  BY PromptHandlerMoves, PlainStates DEF Prompts!DeletedUnstore, PromptInv, Prompts!Idle
<1>3. UNCHANGED <<files, writing, started, seeded>>
  BY DEF Prompts!DeletedUnstore
<1>4. FilesGood' /\ WritingGood'
  BY <1>3, FilesStand
<1>5. QED
  BY <1>1, <1>2, <1>3, <1>4 DEF PromptInv

\* Files made from documents take identifiers that no file had, each its own.
LEMMA SyncedAreNew ==
  ASSUME PromptInv, NEW S, IsFiniteSet(S), \A t \in S : Prompts!IsTemplate(t),
         files' \in Prompts!Synced(S)
  PROVE  /\ FilesGood' /\ files \subseteq files'
         /\ \A t \in files' \ files : t.id \notin Prompts!IdsOf(files)
<1>1. PICK T : /\ T \subseteq Prompts!Missing(S) /\ files' = files \cup T
               /\ Cardinality(T) = Cardinality(Prompts!IdsOf(T))
  BY PromptCard, Zenon DEF Prompts!Synced
<1>2. \A t \in T : t \in S /\ t.id \notin Prompts!IdsOf(files)
  BY <1>1 DEF Prompts!Missing
<1>3. IsFiniteSet(T)
  <2>1. T \subseteq S
    BY <1>2
  <2>2. QED
    BY <2>1, FS_Subset
<1>4. OwnIds(T)
  <2> DEFINE f == [t \in T |-> t.id]
             V == Prompts!IdsOf(T)
  <2>1. f \in Surjection(T, V)
    BY Zenon DEF Surjection, Prompts!IdsOf
  <2>2. f \in Injection(T, V)
    <3> HIDE DEF f, V
    <3>1. Cardinality(V) = Cardinality(T)
      BY <1>1 DEF V
    <3>2. QED
      BY <1>3, <2>1, <3>1, FS_Surjection
  <2>3. \A t, u \in T : f[t] = f[u] => t = u
    BY <2>2, Zenon DEF Injection, IsInjective
  <2>4. QED
    BY <2>3 DEF OwnIds
<1>5. IsFiniteSet(files')
  BY <1>1, <1>3, FS_Union DEF PromptInv, FilesGood
<1>6. \A t \in files' : Prompts!IsTemplate(t)
  BY <1>1, <1>2 DEF PromptInv, FilesGood
<1>7. OwnIds(files')
  <2>1. \A t \in files : t.id \in Prompts!IdsOf(files)
    BY DEF Prompts!IdsOf
  <2>2. QED
    BY <1>1, <1>2, <1>4, <2>1 DEF OwnIds, PromptInv, FilesGood
<1>8. FilesGood'
  BY <1>5, <1>6, <1>7, Zenon DEF FilesGood, OwnIds, Prompts!IsTemplate, Prompts!Template
<1>9. QED
  BY <1>1, <1>2, <1>8

LEMMA PromptRestartKeeps == ASSUME PromptInv, Prompts!Restart PROVE PromptInv'
<1>1. FilesGood'
  BY SyncedAreNew DEF Prompts!Restart, PromptInv, StoredGood
<1>2. UNCHANGED <<stored, started, faults>> /\ seeded' = TRUE /\ writing' = Prompts!Idle
  BY DEF Prompts!Restart
<1>3. StoredGood'
  BY <1>2 DEF StoredGood, PromptInv, Prompts!IsTemplate, Prompts!Template
<1>4. HandlersGood'
  <2>1. handler' = [h \in PromptHandlers |-> Prompts!Idle]
    BY DEF Prompts!Restart
  <2>2. QED
    BY <2>1, PlainStates DEF HandlersGood, HandlerOK, Prompts!Idle
<1>5. WritingGood'
  BY <1>2 DEF WritingGood, Prompts!Idle
<1>6. QED
  BY <1>1, <1>2, <1>3, <1>4, <1>5 DEF PromptInv

LEMMA PromptImportKeeps == ASSUME PromptInv, Prompts!Import PROVE PromptInv'
<1>1. Prompts!IsTemplate(PromptImported)
  BY PromptsAssumption DEF PromptsAssumption, Prompts!Assumptions
<1>2. FilesGood'
  <2>1. IsFiniteSet({PromptImported})
    BY FS_Singleton
  <2>2. QED
    BY <1>1, <2>1, SyncedAreNew DEF Prompts!Import
<1>3. /\ UNCHANGED <<writing, handler, started, faults>> /\ seeded' = TRUE
      /\ stored' = stored \cup {PromptImported} /\ writing = Prompts!Idle
  BY DEF Prompts!Import, Prompts!Free
<1>4. StoredGood'
  <2>1. IsFiniteSet(stored')
    BY <1>3, FS_AddElement DEF PromptInv, StoredGood
  <2>2. \A t \in stored' : Prompts!IsTemplate(t)
    BY <1>1, <1>3 DEF PromptInv, StoredGood
  <2>3. QED
    BY <2>1, <2>2, Zenon DEF StoredGood, Prompts!IsTemplate, Prompts!Template
<1>5. HandlersGood'
  BY <1>3, HandlersStand DEF PromptInv
<1>6. WritingGood'
  BY <1>3 DEF WritingGood, Prompts!Idle
<1>7. QED
  BY <1>2, <1>3, <1>4, <1>5, <1>6 DEF PromptInv

LEMMA PromptStepKeeps == ASSUME PromptInv, Prompts!Next PROVE PromptInv'
BY PromptCreateKeeps, PromptSaveKeeps, PromptUpsertKeeps, PromptReadKeeps, PromptSyncKeeps,
   PromptUnstoreKeeps, PromptActivateKeeps, PromptDeleteKeeps, PromptWriteKeeps,
   PromptRestartKeeps, PromptImportKeeps DEF Prompts!Next

LEMMA PromptsAlways == Spec => [](part = "prompts" => PromptInv)
<1>1. Init => (part = "prompts" => PromptInv)
  BY PromptInit
<1>2. (part = "prompts" => PromptInv) /\ [Next]_vars => (part = "prompts" => PromptInv)'
  <2> SUFFICES ASSUME part = "prompts" => PromptInv, [Next]_vars, part' = "prompts"
               PROVE  PromptInv'
    OBVIOUS
  <2>1. part = "prompts" /\ (Prompts!Next \/ UNCHANGED promptsVars)
    BY DEF Next, vars, CorporaStep, RealmStoreStep, RealmOverlapStep, SecretStoreStep,
         QuestionSetsStep, SettingsStep, PromptsStep, ExternalStep
  <2>2. CASE UNCHANGED promptsVars
    <3>1. FilesGood' /\ WritingGood'
      BY <2>1, <2>2, FilesStand DEF promptsVars
    <3>2. HandlersGood'
      BY <2>1, <2>2, HandlersStand DEF PromptInv, promptsVars
    <3>3. StoredGood' /\ faults' \in 0..PromptFaults /\ started' \in 0..PromptRequests
      BY <2>1, <2>2 DEF PromptInv, StoredGood, promptsVars, Prompts!IsTemplate, Prompts!Template
    <3>4. QED
      BY <3>1, <3>2, <3>3 DEF PromptInv
  <2>3. QED
    BY <2>1, <2>2, PromptStepKeeps
<1>3. QED
  BY <1>1, <1>2, PTL DEF Spec

\* No step writes over a file: a template that is there and after it under the same identifier
\* was written by the same hand.
LEMMA TextIsKept == ASSUME PromptInv, Prompts!Next PROVE Prompts!FilesKeepTheirText
<1> SUFFICES ASSUME NEW t \in files, NEW u \in files', t.id = u.id PROVE t.by = u.by
  BY DEF Prompts!FilesKeepTheirText
<1>1. u \in files => t.by = u.by
  BY DEF PromptInv, FilesGood, OwnIds
<1>2. t.id \in Prompts!IdsOf(files)
  BY DEF Prompts!IdsOf
<1>3. CASE files' \subseteq files
  BY <1>1, <1>3
<1>4. CASE \E h \in PromptHandlers : Prompts!SavePrompt(h)
  <2>1. PICK h \in PromptHandlers : Prompts!SavePrompt(h)
    BY <1>4
  <2>2. PICK x : files' = files \cup {x} /\ x.id \notin Prompts!IdsOf(files)
    BY <2>1, SavedIsNew
  <2>3. QED
    BY <1>1, <1>2, <2>2
<1>5. CASE Prompts!WriteFile
  <2>1. PICK x \in files : \E y : /\ files' = (files \ {x}) \cup {y}
                                /\ y.id = x.id /\ y.by = x.by
    BY <1>5, WrittenFile
  <2>2. PICK y : files' = (files \ {x}) \cup {y} /\ y.id = x.id /\ y.by = x.by
    BY <2>1
  <2>3. CASE u = y
    BY <2>2, <2>3 DEF PromptInv, FilesGood, OwnIds
  <2>4. QED
    BY <1>1, <2>2, <2>3
<1>6. CASE Prompts!Restart \/ Prompts!Import
  <2>1. IsFiniteSet({PromptImported}) /\ Prompts!IsTemplate(PromptImported)
    BY FS_Singleton, PromptsAssumption DEF PromptsAssumption, Prompts!Assumptions
  <2>2. \A x \in files' \ files : x.id \notin Prompts!IdsOf(files)
    BY <1>6, <2>1, SyncedAreNew DEF Prompts!Restart, Prompts!Import, PromptInv, StoredGood
  <2>3. QED
    BY <1>1, <1>2, <2>2
<1>7. QED
  <2>1. \/ files' \subseteq files
        \/ \E h \in PromptHandlers : Prompts!SavePrompt(h)
        \/ Prompts!WriteFile \/ Prompts!Restart \/ Prompts!Import
    BY DEF Prompts!Next, Prompts!CreatePrompt, Prompts!SavedUpsert, Prompts!ReadRealms,
         Prompts!SyncOne, Prompts!DeletedUnstore, Prompts!SetActive, Prompts!DeletePrompt
  <2>2. QED
    BY <1>3, <1>4, <1>5, <1>6, <2>1

\* EditsAreKept: no overlap undoes an edit of the addresses and knobs of an external RAG, no creation
\* writes over the text of a prompt that is there, and an edited question is scored with the answer
\* it shows and says that it was edited (routers/external_rags.py, core/prompt_store.py,
\* routers/datasets.py).
THEOREM NoEditIsUndone == Spec => EditsAreKept
<1>1. ExternalInv => External!NoEditIsLost
  BY DEF ExternalInv
<1>2. DatasetInv => QuestionSets!ScoredWithWhatIsShown /\ QuestionSets!EditsAreMarked
  <2> SUFFICES ASSUME DatasetInv, NEW d \in Sets, NEW i \in DOMAIN doc[d].questions
               PROVE  /\ doc[d].questions[i].renamed => doc[d].questions[i].truth \in {Nil, doc[d].questions[i].answer}
                      /\ doc[d].questions[i].renamed /\ doc[d].questions[i].origin = "generated"
                            => doc[d].questions[i].edited
    BY Zenon DEF QuestionSets!ScoredWithWhatIsShown, QuestionSets!EditsAreMarked, Sets
  <2>1. doc[d].questions \in Seq(GoodQuestion)
    BY DEF DatasetInv, DatasetDoc, GoodList
  <2>2. doc[d].questions[i] \in GoodQuestion
    BY <2>1
  <2>3. QED
    BY <2>2 DEF GoodQuestion
<1>3. (part = "prompts" => PromptInv) /\ [Next]_vars
        => [part = "prompts" => Prompts!FilesKeepTheirText]_vars
  <2> SUFFICES ASSUME PromptInv, part = "prompts", Next PROVE Prompts!FilesKeepTheirText
    OBVIOUS
  <2>1. Prompts!Next
    BY DEF Next, CorporaStep, RealmStoreStep, RealmOverlapStep, SecretStoreStep,
         QuestionSetsStep, SettingsStep, PromptsStep, ExternalStep
  <2>2. QED
    BY <2>1, TextIsKept
<1>4. QED
  BY <1>1, <1>2, <1>3, ExternalAlways, DatasetsAlways, PromptsAlways, PTL DEF Spec, EditsAreKept

----------------------------------------------------------------------------
(* Settings and packs *)

Setting == [model : Models, packs : SUBSET Packs]

\* A change of settings that was read and is still to be saved.
PutOK(e) ==
    /\ e.scope \in Settings!Scopes /\ e.read \in Setting
    /\ \/ e.op = "model" /\ e.what \in Models
       \/ e.op = "packs" /\ e.what \in SUBSET Packs

\* What is registered: the platform's components stay, what packs contributed is in the registry
\* and belongs to one of them.
RegistryOK ==
    /\ OwnParts \subseteq DOMAIN owner
    /\ DOMAIN contributed = DOMAIN loaded
    /\ \A p \in DOMAIN contributed : contributed[p] \subseteq DOMAIN owner \ OwnParts
    /\ \A p, q \in DOMAIN contributed : p # q => contributed[p] \cap contributed[q] = {}

\* A start that is under way has loaded what it was to load, or still has it before it.
LoadedSoFar ==
    ~up => \A s \in start.scopes : \A p \in Settings!Stored(s).packs \cap DOMAIN Settings!Imported :
              start.got[p] = Len(PackRegisters[p]) =>
                  \/ p \in start.todo
                  \/ p \in DOMAIN loaded /\ Settings!Range(PackRegisters[p]) \subseteq DOMAIN owner

StartOK ==
    /\ start = [scopes |-> start.scopes, got |-> start.got, todo |-> start.todo]
    /\ start.scopes \subseteq Settings!Scopes /\ start.todo \subseteq Packs
    /\ start.got \in Settings!Outcomes
    /\ LoadedSoFar

SettingsInv ==
    /\ saved \in [Settings!Scopes -> Setting \cup {Settings!Absent}]
    /\ put = [c \in SettingsClients |-> put[c]]
    /\ \A c \in SettingsClients : put[c] = Settings!Idle \/ PutOK(put[c])
    /\ RegistryOK
    /\ up \in BOOLEAN
    /\ start # Settings!Idle => StartOK

LEMMA SettingsGiven ==
  /\ EnvModel \in Models /\ Packs \subseteq Nat \ {0}
  /\ \A p \in Packs : PackRegisters[p] \in Seq(Settings!Range(PackRegisters[p])) /\ PackRegisters[p] # <<>>
BY SettingsAssumption DEF SettingsAssumption, Settings!Assumptions

\* What a scope has stored is a setting.
LEMMA StoredIsSetting ==
  ASSUME saved \in [Settings!Scopes -> Setting \cup {Settings!Absent}]
  PROVE  \A s \in Settings!Scopes : Settings!Stored(s) \in Setting
<1>1. Settings!Defaults \in Setting
  BY SettingsGiven DEF Settings!Defaults, Setting
<1>2. QED
  BY <1>1 DEF Settings!Stored

LEMMA SettingsInit == ASSUME part = "settings", Init PROVE SettingsInv
<1>1. Settings!Init
  BY DEF Init
<1>2. RegistryOK
  BY <1>1 DEF Settings!Init, RegistryOK, Settings!NoFun
<1>3. QED
  BY <1>1, <1>2 DEF Settings!Init, SettingsInv

\* A client's change is read, or done with; the others' are not touched.
LEMMA PutMoves ==
  ASSUME SettingsInv, NEW c \in SettingsClients, NEW e, e = Settings!Idle \/ PutOK(e),
         put' = [put EXCEPT ![c] = e]
  PROVE  /\ put' = [x \in SettingsClients |-> put'[x]]
         /\ \A x \in SettingsClients : put'[x] = Settings!Idle \/ PutOK(put'[x])
<1>1. put' = [x \in SettingsClients |-> IF x = c THEN e ELSE put[x]]
  BY DEF SettingsInv
<1>2. \A x \in SettingsClients : put'[x] = e \/ put'[x] = put[x]
  BY <1>1
<1>3. QED
  BY <1>1, <1>2 DEF SettingsInv

LEMMA PutKeeps == ASSUME SettingsInv, NEW c \in SettingsClients, Settings!Put(c) PROVE SettingsInv'
<1>1. PICK s \in Settings!Scopes, o \in Settings!Offer : \E r \in Settings!Readings(s) :
        put' = [put EXCEPT ![c] = [op |-> o[1], scope |-> s, what |-> o[2], read |-> r,
                                   blind |-> r # Settings!Stored(s)]]
  BY DEF Settings!Put
<1>2. PICK r \in Settings!Readings(s) :
        put' = [put EXCEPT ![c] = [op |-> o[1], scope |-> s, what |-> o[2], read |-> r,
                                   blind |-> r # Settings!Stored(s)]]
  BY <1>1
<1> DEFINE e == [op |-> o[1], scope |-> s, what |-> o[2], read |-> r,
                 blind |-> r # Settings!Stored(s)]
<1>3. r \in Setting
  BY StoredIsSetting, SettingsGiven DEF SettingsInv, Settings!Readings, Settings!Defaults, Setting
<1>4. PutOK(e)
  BY <1>3 DEF PutOK, Settings!Offer
<1> HIDE DEF e
<1>5. put' = [put EXCEPT ![c] = e]
  BY <1>2 DEF e
<1>6. /\ put' = [x \in SettingsClients |-> put'[x]]
      /\ \A x \in SettingsClients : put'[x] = Settings!Idle \/ PutOK(put'[x])
  BY <1>4, <1>5, PutMoves
<1>7. UNCHANGED <<saved, where, generator, owner, contributed, loaded, start, up>>
  BY DEF Settings!Put
<1>8. /\ saved' \in [Settings!Scopes -> Setting \cup {Settings!Absent}] /\ RegistryOK' /\ up' \in BOOLEAN
      /\ (start # Settings!Idle => StartOK)'
  BY <1>7 DEF SettingsInv, RegistryOK, StartOK, LoadedSoFar, Settings!Stored, Settings!Imported,
       Settings!Idle, Settings!Absent
<1>9. QED
  BY <1>6, <1>8 DEF SettingsInv, Settings!Idle, PutOK, Settings!Absent

LEMMA AnswerKeeps == ASSUME SettingsInv, NEW c \in SettingsClients, Settings!Answer(c) PROVE SettingsInv'
<1>1. /\ up /\ put[c] # Settings!Idle /\ put' = [put EXCEPT ![c] = Settings!Idle]
      /\ saved' \in {saved, [saved EXCEPT ![put[c].scope] =
                              Settings!Change(put[c].op, put[c].read, put[c].what)]}
      /\ UNCHANGED <<where, owner, contributed, loaded, start, up, puts>>
  BY DEF Settings!Answer
<1>2. PutOK(put[c])
  BY <1>1 DEF SettingsInv
<1>3. Settings!Change(put[c].op, put[c].read, put[c].what) \in Setting
  BY <1>2 DEF PutOK, Settings!Change, Setting
<1>4. saved' \in [Settings!Scopes -> Setting \cup {Settings!Absent}]
  BY <1>1, <1>2, <1>3 DEF SettingsInv, PutOK
<1>5. /\ put' = [x \in SettingsClients |-> put'[x]]
      /\ \A x \in SettingsClients : put'[x] = Settings!Idle \/ PutOK(put'[x])
  BY <1>1, PutMoves
<1>6. RegistryOK' /\ up' \in BOOLEAN /\ (start # Settings!Idle => StartOK)'
  BY <1>1 DEF SettingsInv, RegistryOK, StartOK, LoadedSoFar, Settings!Idle
<1>7. QED
  BY <1>4, <1>5, <1>6 DEF SettingsInv, Settings!Idle, PutOK, Settings!Absent

LEMMA StartKeeps == ASSUME SettingsInv, Settings!Start PROVE SettingsInv'
<1>1. PICK scopes \in {Settings!Scopes, {GlobalScope}}, n \in Settings!Outcomes :
        start' = [scopes |-> scopes, got |-> n,
                  todo |-> Settings!ActiveAnywhere([s \in scopes |-> Settings!Stored(s)])]
  BY DEF Settings!Start
<1> DEFINE todo == Settings!ActiveAnywhere([s \in scopes |-> Settings!Stored(s)])
<1>2. todo = UNION {Settings!Stored(s).packs : s \in scopes}
  BY DEF Settings!ActiveAnywhere
<1>3. scopes \subseteq Settings!Scopes
  BY DEF Settings!Scopes
<1>4. todo \subseteq Packs
  BY <1>2, <1>3, StoredIsSetting DEF SettingsInv, Setting
<1>5. \A s \in scopes : Settings!Stored(s).packs \subseteq todo
  BY <1>2
<1> HIDE DEF todo
<1>6. /\ start' = [scopes |-> scopes, got |-> n, todo |-> todo]
      /\ start'.scopes = scopes /\ start'.got = n /\ start'.todo = todo
  BY <1>1 DEF todo
<1>7. UNCHANGED <<saved, where, put, up, puts>>
  BY DEF Settings!Start
<1>8. LoadedSoFar'
  <2>1. \A s \in scopes : Settings!Stored(s)' = Settings!Stored(s)
    BY <1>7 DEF Settings!Stored, Settings!Absent, Settings!Defaults
  <2>2. QED
    BY <1>5, <1>6, <2>1 DEF LoadedSoFar
<1>9. StartOK'
  BY <1>3, <1>4, <1>6, <1>8 DEF StartOK
<1>10. RegistryOK'
  BY DEF Settings!Start, RegistryOK, Settings!NoFun
<1>11. QED
  BY <1>7, <1>9, <1>10 DEF SettingsInv, Settings!Idle, PutOK, Settings!Absent

\* The pack that is next is one of those to load.
LEMMA NextPackIsOne ==
  ASSUME NEW S \in SUBSET Packs, S # {}
  PROVE  Settings!Min(S) \in S
<1>1. S \in SUBSET Nat
  BY SettingsGiven
<1>2. \E m \in S : \A k \in S : m <= k
  BY <1>1, LeastNumberOf
<1>3. QED
  BY <1>2 DEF Settings!Min

LEMMA LoadPackKeeps == ASSUME SettingsInv, Settings!LoadPack PROVE SettingsInv'
<1>1. /\ ~up /\ start # Settings!Idle /\ StartOK /\ start.todo # {}
      /\ UNCHANGED <<saved, where, put, generator, up, puts>>
  BY DEF Settings!LoadPack, SettingsInv
<1>2. PICK p \in Packs : /\ p \in start.todo /\ Settings!LoadOne(p, start.got[p])
                         /\ start' = [start EXCEPT !.todo = start.todo \ {p}]
  BY <1>1, NextPackIsOne DEF Settings!LoadPack, StartOK
<1> DEFINE n == start.got[p]
           parts == {PackRegisters[p][i] : i \in 1..n}
<1>3. /\ start' = [scopes |-> start.scopes, got |-> start.got, todo |-> start.todo \ {p}]
      /\ start'.scopes = start.scopes /\ start'.got = start.got /\ start'.todo = start.todo \ {p}
  BY <1>1, <1>2 DEF StartOK
<1>4. /\ DOMAIN owner \subseteq DOMAIN owner'
      /\ DOMAIN loaded \subseteq DOMAIN loaded'
      /\ p \in DOMAIN Settings!Imported /\ n = Len(PackRegisters[p]) =>
            p \in DOMAIN loaded' /\ Settings!Range(PackRegisters[p]) \subseteq DOMAIN owner'
  <2>1. DOMAIN owner \subseteq DOMAIN owner' /\ DOMAIN loaded \subseteq DOMAIN loaded'
    BY <1>2 DEF Settings!LoadOne, Settings!With
  <2>2. ASSUME p \in DOMAIN Settings!Imported, n = Len(PackRegisters[p])
        PROVE  p \in DOMAIN loaded' /\ Settings!Range(PackRegisters[p]) \subseteq DOMAIN owner'
    <3>1. PackRegisters[p] \in Seq(Settings!Range(PackRegisters[p]))
      BY SettingsGiven
    <3>2. n \in Nat /\ ~(n < Len(PackRegisters[p]))
      BY <2>2, <3>1
    <3>3. Settings!Range(PackRegisters[p]) = parts
      BY <2>2, <3>1 DEF Settings!Range
    <3> HIDE DEF n
    <3>4. Settings!LoadOne(p, n)
      BY <1>2 DEF n
    <3>5. /\ owner' = [x \in DOMAIN owner \cup parts |-> IF x \in parts THEN p ELSE owner[x]]
          /\ loaded' = Settings!With(loaded, p, Settings!Imported[p])
      BY <2>2, <3>2, <3>4 DEF Settings!LoadOne
    <3> HIDE DEF parts
    <3>6. QED
      BY <3>3, <3>5 DEF Settings!With
  <2>3. QED
    BY <2>1, <2>2
<1>5. RegistryOK'
  <2>1. CASE UNCHANGED <<contributed, loaded>>
    BY <1>4, <2>1 DEF RegistryOK, SettingsInv
  <2>2. CASE ~(UNCHANGED <<contributed, loaded>>)
    <3> DEFINE new == Settings!NewParts(parts, owner)
    <3>1. /\ contributed' = Settings!With(contributed, p, new)
          /\ loaded' = Settings!With(loaded, p, Settings!Imported[p])
          /\ owner' = [x \in DOMAIN owner \cup parts |-> IF x \in parts THEN p ELSE owner[x]]
      BY <1>2, <2>2 DEF Settings!LoadOne
    <3>2. new = parts \ DOMAIN owner
      BY DEF Settings!NewParts
    <3> HIDE DEF parts, new
    <3>3. DOMAIN owner' = DOMAIN owner \cup parts
      BY <3>1
    <3>4. /\ DOMAIN contributed' = DOMAIN contributed \cup {p} /\ DOMAIN loaded' = DOMAIN loaded \cup {p}
          /\ contributed'[p] = new
          /\ \A q \in DOMAIN contributed : q # p => contributed'[q] = contributed[q]
      BY <3>1 DEF Settings!With
    <3>5. QED
      BY <3>2, <3>3, <3>4 DEF RegistryOK, SettingsInv
  <2>3. QED
    BY <2>1, <2>2
<1>6. LoadedSoFar'
  <2> SUFFICES ASSUME NEW s \in start.scopes,
                      NEW q \in Settings!Stored(s).packs \cap DOMAIN Settings!Imported,
                      start.got[q] = Len(PackRegisters[q])
               PROVE  \/ q \in start.todo \ {p}
                      \/ q \in DOMAIN loaded' /\ Settings!Range(PackRegisters[q]) \subseteq DOMAIN owner'
    <3>1. \A s \in start.scopes : Settings!Stored(s)' = Settings!Stored(s)
      BY <1>1 DEF Settings!Stored, Settings!Absent, Settings!Defaults
    <3>2. Settings!Imported' = Settings!Imported
      BY <1>1 DEF Settings!Imported
    <3>3. QED
      BY <1>3, <3>1, <3>2 DEF LoadedSoFar
  <2>1. CASE q = p
    BY <1>4, <2>1
  <2>2. CASE q # p
    BY <1>1, <1>4, <2>2 DEF StartOK, LoadedSoFar
  <2>3. QED
    BY <2>1, <2>2
<1>7. StartOK'
  BY <1>1, <1>3, <1>6 DEF StartOK
<1>8. QED
  BY <1>1, <1>5, <1>7 DEF SettingsInv, Settings!Idle, PutOK, Settings!Absent

LEMMA ServeKeeps == ASSUME SettingsInv, Settings!Serve PROVE SettingsInv'
<1>1. up' = TRUE /\ UNCHANGED <<saved, where, put, generator, owner, contributed, loaded, start, puts>>
  BY DEF Settings!Serve
<1>2. RegistryOK' /\ (start # Settings!Idle => StartOK)'
  BY <1>1 DEF SettingsInv, RegistryOK, StartOK, LoadedSoFar, Settings!Idle
<1>3. QED
  BY <1>1, <1>2 DEF SettingsInv, Settings!Idle, PutOK, Settings!Absent

LEMMA StopKeeps == ASSUME SettingsInv, Settings!Stop PROVE SettingsInv'
<1>1. /\ up' = FALSE /\ start' = Settings!Idle /\ put' = [c \in SettingsClients |-> Settings!Idle]
      /\ UNCHANGED <<saved, owner, contributed, loaded>>
  BY DEF Settings!Stop
<1>2. RegistryOK'
  BY <1>1 DEF SettingsInv, RegistryOK
<1>3. QED
  BY <1>1, <1>2 DEF SettingsInv, Settings!Idle, PutOK, Settings!Absent

LEMMA SettingsAlways == Spec => [](part = "settings" => SettingsInv)
<1>1. Init => (part = "settings" => SettingsInv)
  BY SettingsInit
<1>2. (part = "settings" => SettingsInv) /\ [Next]_vars => (part = "settings" => SettingsInv)'
  <2> SUFFICES ASSUME part = "settings" => SettingsInv, [Next]_vars, part' = "settings"
               PROVE  SettingsInv'
    OBVIOUS
  <2>1. part = "settings" /\ (Settings!Next \/ UNCHANGED settingsVars)
    BY DEF Next, vars, CorporaStep, RealmStoreStep, RealmOverlapStep, SecretStoreStep,
         QuestionSetsStep, SettingsStep, PromptsStep, ExternalStep
  <2>2. CASE UNCHANGED settingsVars
    <3>1. UNCHANGED <<saved, where, put, owner, contributed, loaded, start, up>>
      BY <2>2 DEF settingsVars
    <3>2. RegistryOK' /\ (start # Settings!Idle => StartOK)'
      BY <2>1, <3>1 DEF SettingsInv, RegistryOK, StartOK, LoadedSoFar, Settings!Stored,
           Settings!Imported, Settings!Idle, Settings!Absent
    <3>3. QED
      BY <2>1, <3>1, <3>2 DEF SettingsInv, Settings!Idle, PutOK, Settings!Absent
  <2>3. QED
    BY <2>1, <2>2, PutKeeps, AnswerKeeps, StartKeeps, LoadPackKeeps, ServeKeeps, StopKeeps
       DEF Settings!Next
<1>3. QED
  BY <1>1, <1>2, PTL DEF Spec

-----------------------------------------------------------------------------
(* What is a realm's own *)

\* While a realm has a template that can be read, none of another realm answers for it.
LEMMA OwnTemplatesFirst == ASSUME PromptInv PROVE Prompts!OwnTemplatesComeFirst
<1> SUFFICES ASSUME NEW r \in PromptRealms, NEW S \in Prompts!Readable, Prompts!InRealm(S, r) # {}
             PROVE  Prompts!GetActive(S, r).realm = r
  BY DEF Prompts!OwnTemplatesComeFirst
<1> DEFINE own == Prompts!InRealm(S, r)
<1>1. S \subseteq files
  BY DEF Prompts!Readable
<1>2. own \subseteq files /\ \A t \in own : t.realm = r
  BY <1>1 DEF Prompts!InRealm
<1>3. Prompts!Active(own) \subseteq own
  BY DEF Prompts!Active
<1>4. \A T \in SUBSET own : T # {} => Prompts!Newest(T) \in own
  <2> SUFFICES ASSUME NEW T \in SUBSET own, T # {} PROVE Prompts!Newest(T) \in T
    OBVIOUS
  <2>1. T \subseteq files
    BY <1>2
  <2>2. IsFiniteSet(T)
    BY <2>1, FS_Subset DEF PromptInv, FilesGood
  <2>3. \A t \in T : Prompts!IsTemplate(t)
    BY <2>1 DEF PromptInv, FilesGood
  <2>4. QED
    BY <2>2, <2>3, NewestIsOneOfThem
<1> HIDE DEF own
<1>5. CASE Prompts!Active(own) # {}
  <2>1. Prompts!GetActive(S, r) = Prompts!Newest(Prompts!Active(own))
    BY <1>5 DEF Prompts!GetActive, own
  <2>2. QED
    BY <1>2, <1>3, <1>4, <1>5, <2>1
<1>6. CASE Prompts!Active(own) = {}
  <2>1. own # {}
    BY DEF own
  <2>2. Prompts!GetActive(S, r) = Prompts!Newest(own)
    BY <1>6, <2>1 DEF Prompts!GetActive, own
  <2>3. QED
    BY <1>2, <1>4, <2>1, <2>2
<1>7. QED
  BY <1>5, <1>6

\* A realm has one active template at most as long as no file was made from a document.
LEMMA OneIsActive == ASSUME PromptInv PROVE Prompts!OneActiveUntilSeeded
<1> SUFFICES ASSUME writing = Prompts!Idle, ~seeded, NEW r \in PromptRealms \cup {Nil}
             PROVE  Cardinality(Prompts!Active(Prompts!InRealm(files, r))) <= 1
  BY PromptCard DEF Prompts!OneActiveUntilSeeded
<1> DEFINE S == Prompts!Active(Prompts!InRealm(files, r))
<1>1. \A t, u \in S : t = u
  BY DEF PromptInv, WritingGood, OneActive, Prompts!Active, Prompts!InRealm
<1> HIDE DEF S
<1>2. CASE S = {}
  BY <1>2, FS_EmptySet DEF S
<1>3. ASSUME NEW t \in S PROVE Cardinality(S) <= 1
  <2>1. S = {t}
    BY <1>1
  <2>2. Cardinality(S) = 1
    BY Zenon, <2>1, FS_Singleton
  <2>3. QED
    BY <2>2
<1>4. QED
  BY <1>2, <1>3 DEF S

\* An activation changes no flag of another realm's files.
LEMMA FlagsStay == ASSUME PromptInv, Prompts!Next PROVE Prompts!ActivationStaysInItsRealm
<1> SUFFICES ASSUME writing # Prompts!Idle, NEW t \in files, NEW u \in files', t.id = u.id,
                    t.active # u.active
             PROVE  \E w \in writing.chosen : w.id = writing.target /\ w.realm = t.realm
  BY DEF Prompts!ActivationStaysInItsRealm
<1>1. u \notin files
  BY DEF PromptInv, FilesGood, OwnIds
<1>2. CASE Prompts!Restart
  <2>1. \A x \in files' \ files : x.id \notin Prompts!IdsOf(files)
    BY <1>2, SyncedAreNew DEF Prompts!Restart, PromptInv, StoredGood
  <2>2. QED
    BY <1>1, <2>1 DEF Prompts!IdsOf
<1>3. CASE Prompts!WriteFile
  <2>1. PICK x \in files : \E y : /\ x = writing.todo[1] /\ WritingOK
                                /\ files' = (files \ {x}) \cup {y} /\ y.id = x.id
    BY <1>3, WrittenFile
  <2>2. PICK y : files' = (files \ {x}) \cup {y} /\ y.id = x.id
    BY <2>1
  <2>3. t = x
    BY <1>1, <2>2 DEF PromptInv, FilesGood, OwnIds
  <2>4. PICK w \in writing.chosen : ActivationOK(w)
    BY <2>1 DEF WritingOK
  <2>5. x.realm = w.realm /\ w.id = writing.target
    BY <2>1, <2>4 DEF WritingOK, ActivationOK
  <2>6. QED
    BY <2>3, <2>5
<1>4. QED
  BY <1>2, <1>3 DEF Prompts!Next, Prompts!CreatePrompt, Prompts!Accept, Prompts!Free,
     Prompts!SavePrompt, Prompts!SavedUpsert, Prompts!ReadRealms, Prompts!SyncOne,
     Prompts!DeletedUnstore, Prompts!SetActive, Prompts!DeletePrompt, Prompts!Import

\* A realm is offered the components of its own packs, and hears no other pack's hooks.
LEMMA OwnPacksOnly == ASSUME SettingsInv PROVE Settings!OnlyItsOwnPacks
<1> SUFFICES ASSUME NEW s \in Settings!Scopes
             PROVE  LET active == Settings!Stored(s).packs IN
                    /\ \A p \in DOMAIN loaded \ active : contributed[p] \cap Settings!Offered(active) = {}
                    /\ Settings!ChatHooks(active) \subseteq active
                    /\ \A p, q \in DOMAIN contributed : p # q => contributed[p] \cap contributed[q] = {}
  BY DEF Settings!OnlyItsOwnPacks
<1> DEFINE active == Settings!Stored(s).packs
<1> HIDE DEF active
<1>1. \A p \in DOMAIN loaded \ active : contributed[p] \subseteq Settings!Hidden(active)
  BY DEF Settings!Hidden, SettingsInv, RegistryOK
<1>2. Settings!Offered(active) \cap Settings!Hidden(active) = {}
  BY DEF Settings!Offered
<1>3. Settings!ChatHooks(active) \subseteq active
  BY DEF Settings!ChatHooks
<1>4. \A p, q \in DOMAIN contributed : p # q => contributed[p] \cap contributed[q] = {}
  BY DEF SettingsInv, RegistryOK
<1>5. QED
  BY <1>1, <1>2, <1>3, <1>4 DEF active

\* A gateway that begins to answer has loaded what the realms activated.
LEMMA StartLoads == ASSUME SettingsInv, Settings!Next PROVE Settings!ActivatedIsLoaded
<1> SUFFICES ASSUME ~up, up', NEW s \in start.scopes,
                    NEW p \in Settings!Stored(s).packs \cap DOMAIN Settings!Imported,
                    start.got[p] = Len(PackRegisters[p])
             PROVE  p \in DOMAIN loaded' /\ Settings!Range(PackRegisters[p]) \subseteq DOMAIN owner'
  BY DEF Settings!ActivatedIsLoaded
<1>1. Settings!Serve
  BY DEF Settings!Next, Settings!Start, Settings!LoadPack, Settings!Stop, Settings!Put, Settings!Answer
<1>2. start # Settings!Idle /\ start.todo = {} /\ UNCHANGED <<owner, loaded>>
  BY <1>1 DEF Settings!Serve
<1>3. QED
  BY <1>2 DEF SettingsInv, StartOK, LoadedSoFar

\* A list for a realm has its question sets and no others.
LEMMA ListIsOwn == ASSUME DatasetInv, QuestionSets!Next PROVE QuestionSets!ListIsOfTheRealm
<1> SUFFICES ASSUME listed' # listed, listed'.realm # NoRealm, NEW e \in listed'.entries
             PROVE  e \in Sets /\ doc[e].realm = listed'.realm
  BY DEF QuestionSets!ListIsOfTheRealm, Sets
<1>1. QuestionSets!List
  BY DEF QuestionSets!Next, QuestionSets!CreateDataset, QuestionSets!DeleteDataset, QuestionSets!Read,
     QuestionSets!Add, QuestionSets!Update, QuestionSets!Delete
<1>2. PICK r \in DatasetRealms \cup {NoRealm}, on \in BOOLEAN :
        listed' = [realm |-> r, entries |-> QuestionSets!Entries(r, on)]
  BY <1>1 DEF QuestionSets!List
<1>3. r # NoRealm /\ e \in QuestionSets!Entries(r, on) /\ listed'.realm = r
  BY <1>2
<1>4. e \in Sets /\ r \in {NoRealm, doc[e].realm}
  BY <1>3 DEF QuestionSets!Entries, Sets
<1>5. QED
  BY <1>3, <1>4

\* RealmsDoNotMix: a realm's templates come before any other's and an activation changes no other
\* realm's; it leaves one active as long as nothing was seeded or stopped half way.  What only packs
\* a realm did not activate registered is not offered to it, what it activated and could be loaded is
\* there after a start, and a list of question sets is the realm's
\* (core/prompt_store.py, core/domain/loader.py, routers/datasets.py).
THEOREM RealmsAreApart == Spec => RealmsDoNotMix
<1>1. PromptInv => Prompts!OwnTemplatesComeFirst /\ Prompts!OneActiveUntilSeeded
  BY OwnTemplatesFirst, OneIsActive
<1>2. SettingsInv => Settings!OnlyItsOwnPacks
  BY OwnPacksOnly
<1>3. (part = "prompts" => PromptInv) /\ [Next]_vars
        => [part = "prompts" => Prompts!ActivationStaysInItsRealm]_vars
  <2> SUFFICES ASSUME PromptInv, part = "prompts", Next PROVE Prompts!ActivationStaysInItsRealm
    OBVIOUS
  <2>1. QED
    BY FlagsStay DEF Next, CorporaStep, RealmStoreStep, RealmOverlapStep, SecretStoreStep,
       QuestionSetsStep, SettingsStep, PromptsStep, ExternalStep
<1>4. (part = "settings" => SettingsInv) /\ [Next]_vars
        => [part = "settings" => Settings!ActivatedIsLoaded]_vars
  <2> SUFFICES ASSUME SettingsInv, part = "settings", Next PROVE Settings!ActivatedIsLoaded
    OBVIOUS
  <2>1. QED
    BY StartLoads DEF Next, CorporaStep, RealmStoreStep, RealmOverlapStep, SecretStoreStep,
       QuestionSetsStep, SettingsStep, PromptsStep, ExternalStep
<1>5. (part = "datasets" => DatasetInv) /\ [Next]_vars
        => [part = "datasets" => QuestionSets!ListIsOfTheRealm]_vars
  <2> SUFFICES ASSUME DatasetInv, part = "datasets", Next PROVE QuestionSets!ListIsOfTheRealm
    OBVIOUS
  <2>1. QED
    BY ListIsOwn DEF Next, CorporaStep, RealmStoreStep, RealmOverlapStep, SecretStoreStep,
       QuestionSetsStep, SettingsStep, PromptsStep, ExternalStep
<1>6. QED
  BY <1>1, <1>2, <1>3, <1>4, <1>5, DatasetsAlways, PromptsAlways, SettingsAlways, PTL
     DEF Spec, RealmsDoNotMix

----------------------------------------------------------------------------
(* Every registry at once *)

LEMMA SecretShapes == ASSUME SecretInv PROVE SecretStore!TypeOK
BY DEF SecretInv, SecretTypes, SecretStore!TypeOK

LEMMA RealmShapes == ASSUME RealmTypes({RealmClient}) PROVE RealmStore!TypeOK
<1>1. Docs(realms, rags, datasets, oid)
  BY DEF RealmTypes
<1>2. \A d \in realms \cup rags \cup datasets : d.oid < oid
  BY <1>1 DEF Docs
<1>3. \A d, e \in realms \cup rags \cup datasets : d.oid = e.oid => d = e
  BY <1>1 DEF Docs
<1>4. QED
  BY <1>1, <1>2, <1>3 DEF Docs, RealmStore!TypeOK

LEMMA OverlapShapes == ASSUME RealmTypes(OverlapClients) PROVE RealmOverlap!TypeOK
<1>1. Docs(realms, rags, datasets, oid)
  BY DEF RealmTypes
<1>2. \A d \in realms \cup rags \cup datasets : d.oid < oid
  BY <1>1 DEF Docs
<1>3. \A d, e \in realms \cup rags \cup datasets : d.oid = e.oid => d = e
  BY <1>1 DEF Docs
<1>4. QED
  BY <1>1, <1>2, <1>3 DEF Docs, RealmOverlap!TypeOK

LEMMA QuestionShapes == ASSUME DatasetInv PROVE QuestionSets!TypeOK
<1> SUFFICES ASSUME NEW d \in Sets
             PROVE  /\ QuestionSets!Cardinality(QuestionSets!Ids(doc[d].questions)) = Len(doc[d].questions)
                    /\ QuestionSets!Ids(doc[d].questions) \subseteq 1..ids
                    /\ doc[d].n \in {Nil} \cup 0..DatasetIds
  BY DEF QuestionSets!TypeOK, Sets
<1>1. GoodList(doc[d].questions, ids) /\ doc[d].n \in {Nil} \cup 0..DatasetIds /\ ids \in Nat
  BY DEF DatasetInv, DatasetDoc
<1>2. QED
  BY <1>1, ListsAreCounted

LEMMA SettingsShapes == ASSUME SettingsInv PROVE Settings!TypeOK
BY DEF SettingsInv, RegistryOK, Setting, Settings!TypeOK

LEMMA PromptShapes == ASSUME PromptInv PROVE Prompts!TypeOK
<1>1. \A t \in files \cup stored : t.version \in 1..PromptVersions /\ t.realm \in PromptRealms \cup {Nil}
  BY DEF PromptInv, FilesGood, StoredGood, Prompts!IsTemplate
<1>2. faults \in 0..PromptFaults /\ started \in 0..PromptRequests
  BY DEF PromptInv
<1>3. writing # Prompts!Idle => writing.todo # <<>>
  BY DEF PromptInv, WritingGood, WritingOK
<1>4. Cardinality(Prompts!IdsOf(files)) = Cardinality(files)
  <2>1. PICK f : f = [t \in files |-> t.id]
    OBVIOUS
  <2>2. IsFiniteSet(files) /\ \A t, u \in files : t.id = u.id => t = u
    BY DEF PromptInv, FilesGood, OwnIds
  <2>3. DOMAIN f = files /\ f = [t \in files |-> f[t]] /\ \A t, u \in files : f[t] = f[u] => t = u
    BY <2>1, <2>2
  <2>4. Cardinality({f[t] : t \in files}) = Cardinality(files)
    BY <2>2, <2>3, ValuesAreFinite
  <2>5. {f[t] : t \in files} = Prompts!IdsOf(files)
    BY <2>1 DEF Prompts!IdsOf
  <2>6. QED
    BY <2>4, <2>5
<1>5. QED
  BY <1>1, <1>2, <1>3, <1>4, PromptCard DEF Prompts!TypeOK

\* Whatever requests overlap and wherever they fail, every registry keeps to its shape: an id per
\* corpus, realm document, question and template, RAGs that were declared, secrets of the kinds
\* that are stored, packs that share no component with the platform (routers, adapters/mongodb.py).
THEOREM RegistriesKeepTheirShape == Spec => []TypeOK
<1>1. (part = "corpora" => CorpusInv) => (part = "corpora" => Corpora!TypeOK)
  BY DEF CorpusInv, CorpusTypes
<1>2. (part = "realms" => RealmTypes({RealmClient})) => (part = "realms" => RealmStore!TypeOK)
  BY RealmShapes
<1>3. (part = "overlap" => RealmTypes(OverlapClients)) => (part = "overlap" => RealmOverlap!TypeOK)
  BY OverlapShapes
<1>4. (part = "secrets" => SecretInv) => (part = "secrets" => SecretStore!TypeOK)
  BY SecretShapes
<1>5. (part = "datasets" => DatasetInv) => (part = "datasets" => QuestionSets!TypeOK)
  BY QuestionShapes
<1>6. (part = "settings" => SettingsInv) => (part = "settings" => Settings!TypeOK)
  BY SettingsShapes
<1>7. (part = "prompts" => PromptInv) => (part = "prompts" => Prompts!TypeOK)
  BY PromptShapes
<1>8. (part = "external" => ExternalInv) => (part = "external" => External!TypeOK)
  BY DEF ExternalInv
<1>9. QED
  BY <1>1, <1>2, <1>3, <1>4, <1>5, <1>6, <1>7, <1>8, CorporaAlways, RealmTypesAlways,
     OverlapTypesAlways, SecretsAlways, DatasetsAlways, SettingsAlways, PromptsAlways,
     ExternalAlways, PTL DEF TypeOK

==============================================================================
