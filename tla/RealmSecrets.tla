------------------------------ MODULE RealmSecrets ------------------------------
(***************************************************************************)
(* Secrets from the form to the connection: core/secrets.py, the requests  *)
(* that store, show, export and open them (routers/realms.py,              *)
(* external_rags.py) and the command that seals and rotates                *)
(* (tools/realm_secrets.py) while the gateway is running.  A slot is one   *)
(* secret field: of a realm's resource, or a header of a RAG.              *)
(***************************************************************************)
EXTENDS Integers, FiniteSets

CONSTANTS
    Resources, Headers,     \* slots
    Clients,
    Keys, NoKey,            \* values of CAUSA_SECRET_KEY
    Values,                 \* plain secrets
    MaxWrites               \* bound: requests and runs of the command that write

Assumptions == NoKey \notin Keys /\ MaxWrites \in Nat

Slots == Resources \cup Headers
Unset == [kind |-> "unset"]
Plain(v) == [kind |-> "plain", value |-> v]
Sealed(k, v) == [kind |-> "sealed", key |-> k, value |-> v]
Mask == [kind |-> "mask"]                \* MASK
Empty == [kind |-> "empty"]              \* ""
Stored == {Unset} \cup {Plain(v) : v \in Values} \cup {Sealed(k, v) : k \in Keys, v \in Values}
Sendable == {Unset, Mask, Empty} \cup {Plain(v) : v \in Values}

VARIABLES
    secret,     \* secret[s]: what the database has
    key,        \* the key the gateway was started with
    client,     \* client[c]: the slot it edits, what it sent and what it read
    file,       \* the last export: what it has of every slot
    tool,       \* the command: its keys, its plans, what is left to write and to read
                \* back, and what others wrote since it read the slots
    writes

vars == <<secret, key, client, file, tool, writes>>

Free == [op |-> "free"]

\* An installation has secrets from earlier, some stored before sealing existed.
Init ==
    /\ secret \in [Slots -> Stored]
    /\ key \in Keys \cup {NoKey}
    /\ client = [c \in Clients |-> Free]
    /\ file = [s \in Slots |-> Unset]
    /\ tool = Free
    /\ writes = 0

---------------------------------------------------------------------------
(* core/secrets.py and adapters/fernet_secrets.py *)

\* FernetSecretBox.open: under the key it was sealed with, and no other.
Opens(k, x) == x.kind = "sealed" => k # NoKey /\ x.key = k

\* for_storage: what is written, and nothing when a new secret meets no key.
ForStorage(sent, stored, k) ==
    CASE sent \in {Unset, Mask} -> {stored}
      [] sent = Empty -> {Unset}
      [] OTHER -> IF k = NoKey THEN {} ELSE {Sealed(k, sent.value)}

\* masked, and _mask_resources and _mask_headers of an export.
Masked(x) == IF x = Unset THEN Unset ELSE Mask

---------------------------------------------------------------------------
(* Requests *)

\* _sealed_headers: a header the edit leaves out is removed, a resource's field is kept.
Sent(s, x) == IF s \in Headers /\ x = Unset THEN Empty ELSE x

\* set_realm_resources and update_external_rag: the document is read ...
Read(c) ==
    /\ client[c] = Free /\ writes < MaxWrites
    /\ writes' = writes + 1
    /\ \E s \in Slots, x \in Sendable :
          client' = [client EXCEPT ![c] =
              [op |-> "write", slot |-> s, sent |-> Sent(s, x), read |-> secret[s]]]
    /\ UNCHANGED <<secret, key, file, tool>>

\* The command beside which others write slots of S, for the properties.
Beside(S) == IF tool.op = "write" THEN [tool EXCEPT !.others = @ \cup S] ELSE tool

\* ... and written with what was sent over what was read.
Write(c) ==
    LET l == client[c]  new == ForStorage(l.sent, l.read, key) IN
    /\ l.op = "write"
    /\ client' = [client EXCEPT ![c] = Free]
    /\ IF new = {} THEN UNCHANGED <<secret, tool>>
       ELSE /\ secret' = [secret EXCEPT ![l.slot] = CHOOSE x \in new : TRUE]
            /\ tool' = Beside({l.slot})
    /\ UNCHANGED <<key, file, writes>>

\* export_realm: resources masked always, headers unless include_secrets.
Exported(s, include_secrets) ==
    IF s \in Headers /\ include_secrets THEN secret[s] ELSE Masked(secret[s])

Export ==
    /\ \E include_secrets \in BOOLEAN :
          file' = [s \in Slots |-> Exported(s, include_secrets)]
    /\ UNCHANGED <<secret, key, client, tool, writes>>

\* import_realm: a masked value is dropped.
Travelled(x) == IF x = Mask THEN Unset ELSE x

\* An import of the file, into the same documents for want of others.
Import ==
    /\ writes < MaxWrites /\ writes' = writes + 1
    /\ \A c \in Clients : client[c] = Free
    /\ secret' = [s \in Slots |-> Travelled(file[s])]
    /\ tool' = Beside(Slots)
    /\ UNCHANGED <<key, client, file>>

\* The gateway is started again, with the same key, another or none.
Restart ==
    /\ key' \in Keys \cup {NoKey}
    /\ client' = [c \in Clients |-> Free]
    /\ UNCHANGED <<secret, file, tool, writes>>

---------------------------------------------------------------------------
(* tools/realm_secrets.py *)

\* _reseal: whether a secret is in the plan.
ToSeal(x, old) == x.kind = "plain" \/ (x.kind = "sealed" /\ old # NoKey)

\* _reseal of a sealed secret opens it under the old key, and the command ends there when
\* one does not open.
Aborts(old) == \E s \in Slots : ToSeal(secret[s], old) /\ ~Opens(old, secret[s])

\* Variant with a bug: the secret is sealed under the key it was opened with.
ResealedUnderTheOld(new, old, x) == Sealed(IF old = NoKey THEN new ELSE old, x.value)

Resealed(new, old, x) == Sealed(new, x.value)

\* The plan is made of one reading of everything.
StartTool ==
    /\ tool.op # "write" /\ writes < MaxWrites
    /\ writes' = writes + 1
    /\ \E new \in Keys, old \in Keys \cup {NoKey} :
          tool' = [op |-> IF Aborts(old) THEN "aborted" ELSE "write", new |-> new, old |-> old,
                   plan |-> [s \in {t \in Slots : ToSeal(secret[t], old)} |->
                               Resealed(new, old, secret[s])],
                   left |-> {t \in Slots : ToSeal(secret[t], old)},
                   check |-> {}, unreadable |-> 0, others |-> {},
                   resumed |-> \E s \in Slots : secret[s].kind = "sealed" /\ secret[s].key = old]
    /\ UNCHANGED <<secret, key, client, file>>

\* One document is written ...
WriteOne ==
    /\ tool.op = "write" /\ tool.check = {}
    /\ \E s \in tool.left :
          /\ secret' = [secret EXCEPT ![s] = tool.plan[s]]
          /\ tool' = [tool EXCEPT !.left = @ \ {s}, !.check = {s}]
    /\ UNCHANGED <<key, client, file, writes>>

\* ... and read back: a secret that others sealed under another key since does not open, and
\* the command ends there.
ReadBack ==
    /\ tool.op = "write"
    /\ \E s \in tool.check :
          tool' = IF secret[s].kind = "sealed" /\ ~Opens(tool.new, secret[s])
                  THEN [tool EXCEPT !.op = "aborted"]
                  ELSE [tool EXCEPT !.check = {},
                          !.unreadable = IF secret[s] = tool.plan[s] THEN @ ELSE @ + 1]
    /\ UNCHANGED <<secret, key, client, file, writes>>

EndTool ==
    /\ tool.op = "write" /\ tool.left \cup tool.check = {}
    /\ tool' = [tool EXCEPT !.op = "ended"]
    /\ UNCHANGED <<secret, key, client, file, writes>>

\* The command is stopped before its end.
StopTool ==
    /\ tool.op = "write"
    /\ tool' = Free
    /\ UNCHANGED <<secret, key, client, file, writes>>

Next ==
    \/ \E c \in Clients : Read(c) \/ Write(c)
    \/ Export \/ Import \/ Restart
    \/ StartTool \/ WriteOne \/ ReadBack \/ EndTool \/ StopTool

Spec == Init /\ [][Next]_vars

---------------------------------------------------------------------------
(* Properties *)

\* Whatever is stored is a secret or nothing: dots are never written where one was.
TypeOK ==
    /\ \A s \in Slots : secret[s] \in Stored
    /\ \A s \in Slots : file[s] \in Stored \cup {Mask}

\* "storing it in the clear instead would be the failure this module exists to prevent": a
\* write of the gateway or of the command adds nothing in the clear.
NothingNewInTheClear ==
    \A s \in Slots : (secret'[s].kind = "plain" /\ secret'[s] # secret[s]) =>
        \/ \E c \in Clients : client[c].op = "write" /\ client[c].read = secret'[s]
        \/ file[s] = secret'[s]

\* A command that comes to its end, the first or one that takes up what a stopped one left,
\* leaves nothing in the clear; a rotation leaves nothing under another key than the new one,
\* and sealing only what was sealed before it; and it reports no failure.  A slot that others
\* wrote since the command read it is theirs.
SealedAfterTheTool ==
    (tool.op = "write" /\ tool'.op = "ended") =>
        /\ tool.others = {} => tool'.unreadable = 0
        /\ \A s \in Slots \ tool.others :
              \/ secret[s] = Unset
              \/ secret[s].kind = "sealed" /\ secret[s].key = tool.new
              \/ tool.old = NoKey /\ secret[s].kind = "sealed" /\ s \notin DOMAIN tool.plan

\* Wherever the command is stopped, half of the secrets may be under each key, and every one
\* is still the secret it was: a slot nobody else wrote is only resealed under the new key.
HalfWayKeepsTheSecrets ==
    \A s \in Slots :
        (tool.op = "write" /\ s \notin tool.others /\ tool'.op # "free"
           /\ s \notin tool'.others /\ secret'[s] # secret[s])
            => secret[s].kind # "unset" /\ secret'[s] = Sealed(tool.new, secret[s].value)

-----------------------------------------------------------------------------
(* What the code, its tests or its documents say and the code does not keep (README). *)

\* "writing the mask back must not replace the secret".
MaskKeepsTheSecret ==
    [][\A c \in Clients :
           (client[c].op = "write" /\ client[c].sent = Mask /\ client'[c] = Free /\ key' = key)
               => secret'[client[c].slot] = secret[client[c].slot]]_vars

\* "Never carries a secret, whatever include_secrets asks."
NoSecretInAFile == \A s \in Slots : file[s] \in {Unset, Mask}

\* "The same tool reseals everything under a new key": a rotation is not refused because
\* some secrets are under the new key already.
RotationCanBeTakenUp ==
    (tool.op = "aborted" /\ tool.resumed)
        => \E s \in Slots : secret[s].kind = "sealed" /\ secret[s].key \notin {tool.old, tool.new}
=============================================================================
