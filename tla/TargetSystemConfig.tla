-------------------------- MODULE TargetSystemConfig --------------------------
(***************************************************************************)
(* One target system and its configuration: TargetSystemService, the       *)
(* redaction of what it returns, and TargetSystemsPage, which edits the    *)
(* redacted copy and sends it back.                                        *)
(*                                                                         *)
(* A config is a partial function from the paths of its leaves; both       *)
(* redactSecrets and mergeConfigPreservingSecrets go down into nested      *)
(* objects.  Arrays hold no secrets in any connector's config.  A leaf is  *)
(* a text, a number or a boolean, and the inputs hold texts.  The reload    *)
(* of the registry that follows every change is in ConnectorRegistry.      *)
(***************************************************************************)
EXTENDS Integers, Functions

CONSTANTS
    Editor,        \* tabs that show the page
    StoredConfigs, \* the configs the row may have at first
    Text,          \* what a leaf may hold: texts and the JSON values below
    Numbers,       \* the JSON numbers among them
    StringOf,      \* what String() makes of a number
    ParsedAs,      \* the texts that are positive integers, and their numbers
    NewValues,     \* what may be typed into the inputs: leaf -> values
    MaxSaves,      \* bound: requests that change the system
    MaxIds         \* bound: rows made one after the other

ASSUME BoundAssumption == MaxSaves \in Nat /\ MaxIds \in Nat \ {0}

VARIABLES
    row,     \* the TargetSystem row
    page,    \* each tab: the list it loaded and its form
    req,     \* each tab's request that changes the row
    saves,
    dropped  \* history: a save built on an older read removed a secret

configVars == <<row, page, req, saves, dropped>>

Jitter == "retryPolicy.jitter"
PolicyNumbers == {"retryPolicy.maxRetries"}    \* the other three are like it
RetryKeys == PolicyNumbers \cup {Jitter}
Nested(k) == k \in {"headers.authorization"} \cup RetryKeys

\* The inputs of the types; any other one is like one of these.
InputKeys == {"baseUrl", "accessToken", "timeout"}
Leaves == InputKeys \cup {"headers.authorization"} \cup RetryKeys

Masked == "***"    \* MASKED_SECRET_VALUE and the other placeholders
Empty  == ""       \* an input left empty
True   == "#true"  \* the JSON booleans
False  == "#false"

Config == UNION {[D -> Text] : D \in SUBSET Leaves}

ASSUME InputAssumption == NewValues \in [Leaves -> SUBSET Text]
ASSUME ValueAssumption ==
    /\ {Masked, Empty, True, False} \cup Numbers \subseteq Text
    /\ {Masked, Empty, True, False} \cap Numbers = {}
    /\ StringOf \in [Numbers -> Text \ {Empty}]
    /\ ParsedAs \in [DOMAIN ParsedAs -> Numbers]
    /\ {Masked, Empty} \cap DOMAIN ParsedAs = {}

-----------------------------------------------------------------------------
(***************************************************************************)
(* secret-redaction.ts                                                     *)
(***************************************************************************)
IsSecretKey(k) == k \in {"accessToken", "headers.authorization"}
IsMaskedSecretValue(v) == v = Masked

ASSUME StoredAssumption ==
    \A config \in StoredConfigs :
        /\ config \in Config
        /\ \A k \in DOMAIN config : IsSecretKey(k) => config[k] # Masked

RedactSecrets(config) ==
    [k \in DOMAIN config |-> IF IsSecretKey(k) THEN Masked ELSE config[k]]

\* Mutant: a nested object replaces the stored one.
MergeShallow(current, incoming) ==
    [k \in DOMAIN current \cup DOMAIN incoming |->
        IF k \in DOMAIN incoming
           /\ ~(~Nested(k) /\ IsSecretKey(k) /\ IsMaskedSecretValue(incoming[k]))
        THEN incoming[k] ELSE current[k]]

\* Mutant: the result starts from nothing instead of the stored config.
MergeDropsAbsent(current, incoming) ==
    [k \in DOMAIN incoming |->
        IF IsSecretKey(k) /\ IsMaskedSecretValue(incoming[k])
           /\ k \in DOMAIN current
        THEN current[k] ELSE incoming[k]]

MergeConfigPreservingSecrets(current, incoming) ==
    [k \in DOMAIN current \cup DOMAIN incoming |->
        IF /\ k \in DOMAIN incoming
           /\ ~(/\ IsSecretKey(k) /\ IsMaskedSecretValue(incoming[k])
                /\ k \in DOMAIN current)
        THEN incoming[k] ELSE current[k]]

-----------------------------------------------------------------------------
(***************************************************************************)
(* TargetSystemsPage.  The inputs a type has; everything else the row      *)
(* holds is carried along as extraConfig.                                  *)
(***************************************************************************)
TypeFields(type) == IF type = "passwork" THEN InputKeys
                    ELSE {"baseUrl"}                       \* rest
Types == {"passwork", "rest"}
IsSecretConfigKey(k) == k = "accessToken"

NoConfig == [k \in {} |-> Empty]
NoItem == [id |-> 0, type |-> "passwork", config |-> NoConfig]
NewForm == [id |-> 0, type |-> "passwork", values |-> [k \in {Jitter} |-> True],
            extra |-> NoConfig]
NewPage == [item |-> NoItem, form |-> NewForm, edited |-> {}, seen |-> NoConfig]
NoReq == [pc |-> "idle", id |-> 0, type |-> "passwork", config |-> NoConfig,
          current |-> NoConfig, edited |-> {}, seen |-> NoConfig]

\* The object { ...under, ...over }
Spread(under, over) == [k \in DOMAIN under \cup DOMAIN over |->
                           IF k \in DOMAIN over THEN over[k] ELSE under[k]]

Leaf(config, k) == IF k \in DOMAIN config THEN config[k] ELSE Empty

\* String(value ?? ''); no connector has a boolean where there is an input.
String(v) == IF v \in Numbers THEN StringOf[v] ELSE v

\* Anything but a boolean is taken for the default.
JitterOf(config) == IF Leaf(config, Jitter) = False THEN False ELSE True

\* retryPolicyFromConfig
PolicyForm(config) ==
    [k \in (DOMAIN config \cap PolicyNumbers) \cup {Jitter} |->
        IF k = Jitter THEN JitterOf(config) ELSE String(config[k])]

EditForm(item) ==
    LET fields == DOMAIN item.config \cap TypeFields(item.type)
    IN  [id |-> item.id, type |-> item.type,
         values |-> Spread(PolicyForm(item.config), [k \in fields |->
             IF IsSecretConfigKey(k) /\ item.config[k] = Masked THEN Empty
             ELSE String(item.config[k])]),
         extra |-> Restrict(item.config,
                            DOMAIN item.config \ (TypeFields(item.type) \cup RetryKeys))]

\* Numbers that are not positive integers are left out, and so is a policy
\* that holds nothing but the default jitter.
BuildRetryPolicy(values) ==
    LET numbers == {k \in DOMAIN values \cap PolicyNumbers :
                       values[k] \in DOMAIN ParsedAs}
        sent == IF numbers # {} \/ values[Jitter] # True
                THEN numbers \cup {Jitter} ELSE {}
    IN  [k \in sent |-> IF k = Jitter THEN values[k] ELSE ParsedAs[values[k]]]

\* An input that is empty is not sent: clearing one changes nothing.
BuildConfig(form) ==
    LET sent == {k \in DOMAIN form.values \cap TypeFields(form.type) :
                    /\ form.values[k] # Empty
                    /\ ~(IsSecretConfigKey(k) /\ form.values[k] = Masked)}
    IN  Spread(Spread(form.extra, Restrict(form.values, sent)),
               BuildRetryPolicy(form.values))

-----------------------------------------------------------------------------
ConfigInit ==
    /\ row \in [id : {1}, here : {TRUE}, type : {"passwork"}, config : StoredConfigs]
    /\ page = [t \in Editor |-> NewPage]
    /\ req = [t \in Editor |-> NoReq]
    /\ saves = 0
    /\ dropped = FALSE

Item == [id : 0..MaxIds, type : Types, config : Config]
FormValues == UNION {[D \cup {Jitter} -> Text] : D \in SUBSET Leaves}
Form == [id : 0..MaxIds, type : Types, values : FormValues, extra : Config]
Page == [item : Item, form : Form, edited : SUBSET Leaves, seen : Config]
Request == [pc : {"idle", "create", "read", "write", "delete"},
            id : 0..MaxIds, type : Types, config : Config, current : Config,
            edited : SUBSET Leaves, seen : Config]

ConfigTypeOK ==
    /\ row \in [id : 1..MaxIds, here : BOOLEAN, type : Types, config : Config]
    /\ page \in [Editor -> Page]
    /\ req \in [Editor -> Request]
    /\ saves \in 0..MaxSaves
    /\ dropped \in BOOLEAN

\* toPublicTargetSystem
Listed == IF row.here
          THEN [id |-> row.id, type |-> row.type,
                config |-> RedactSecrets(row.config)]
          ELSE NoItem

Busy(t) == req[t].pc # "idle"

HandleEdit(t) ==
    /\ ~Busy(t) /\ page[t].item.id # 0
    /\ page' = [page EXCEPT ![t].form = EditForm(page[t].item), ![t].edited = {},
                            ![t].seen = page[t].item.config]
    /\ UNCHANGED <<row, req, saves, dropped>>

TypeIn(t, k) ==
    /\ ~Busy(t) /\ k \in TypeFields(page[t].form.type) \cup RetryKeys
    /\ \E v \in NewValues[k] :
          page' = [page EXCEPT ![t].form.values = Spread(@, [j \in {k} |-> v]),
                               ![t].edited = @ \cup {k}]
    /\ UNCHANGED <<row, req, saves, dropped>>

\* Another type: the inputs and the extra keys are forgotten.
SelectType(t) ==
    /\ ~Busy(t)
    /\ LET form == page[t].form
       IN  \E type \in Types \ {form.type} :
              page' = [page EXCEPT
                  ![t].form = [form EXCEPT !.type = type, !.extra = NoConfig,
                      !.values = Restrict(form.values, DOMAIN form.values \cap RetryKeys)],
                  ![t].edited = @ \cap RetryKeys]
    /\ UNCHANGED <<row, req, saves, dropped>>

EmptyForm(t) ==
    page' = [page EXCEPT ![t].form = NewForm, ![t].edited = {}, ![t].seen = NoConfig]

ResetForm(t) ==
    /\ ~Busy(t) /\ page[t].form # NewForm
    /\ EmptyForm(t)
    /\ UNCHANGED <<row, req, saves, dropped>>

\* handleSave has passed the middleware.  The load() at its end is a request
\* of its own, which other steps overtake and which may fail.
Submit(t) ==
    /\ ~Busy(t) /\ saves < MaxSaves
    /\ LET form == page[t].form
       IN  req' = [req EXCEPT ![t] =
              [pc |-> IF form.id = 0 THEN "create" ELSE "read", id |-> form.id,
               type |-> form.type, config |-> BuildConfig(form),
               current |-> NoConfig, edited |-> page[t].edited,
               seen |-> page[t].seen]]
    /\ saves' = saves + 1
    /\ UNCHANGED <<row, page, dropped>>

SubmitDelete(t) ==
    /\ ~Busy(t) /\ saves < MaxSaves /\ page[t].item.id # 0
    /\ req' = [req EXCEPT ![t] = [NoReq EXCEPT !.pc = "delete",
                                               !.id = page[t].item.id]]
    /\ saves' = saves + 1
    /\ UNCHANGED <<row, page, dropped>>

-----------------------------------------------------------------------------
(***************************************************************************)
(* TargetSystemService.  update reads, merges and writes in two steps.     *)
(***************************************************************************)
Answered(t) == req' = [req EXCEPT ![t] = NoReq]

\* Mutant: names need not be unique.
CreateNoConflict(t) ==
    /\ req[t].pc = "create"
    /\ row' = [id |-> row.id + 1, here |-> TRUE, type |-> req[t].type,
               config |-> req[t].config]
    /\ dropped' = FALSE
    /\ EmptyForm(t)
    /\ Answered(t) /\ UNCHANGED saves

Create(t) ==
    /\ req[t].pc = "create"
    /\ IF row.here                                 \* P2002: the name is taken
       THEN UNCHANGED <<row, page, dropped>>
       ELSE /\ row.id < MaxIds
            /\ row' = [id |-> row.id + 1, here |-> TRUE, type |-> req[t].type,
                       config |-> req[t].config]
            /\ dropped' = FALSE
            /\ EmptyForm(t)
    /\ Answered(t) /\ UNCHANGED saves

UpdateReads(t) ==
    /\ req[t].pc = "read"
    /\ req' = [req EXCEPT ![t].pc = "write",
                          ![t].current = IF row.here /\ row.id = req[t].id
                                         THEN row.config ELSE NoConfig]
    /\ UNCHANGED <<row, page, saves, dropped>>

UpdateWrites(t) ==
    /\ req[t].pc = "write"
    /\ IF row.here /\ row.id = req[t].id
       THEN /\ row' = [row EXCEPT !.type = req[t].type,
                          !.config = MergeConfigPreservingSecrets(req[t].current,
                                                                  req[t].config)]
            /\ dropped' = (dropped \/ \E k \in DOMAIN row.config \ DOMAIN row'.config :
                                         IsSecretKey(k))
            /\ EmptyForm(t)
       ELSE UNCHANGED <<row, page, dropped>>       \* P2025: not found
    /\ Answered(t) /\ UNCHANGED saves

Delete(t) ==
    /\ req[t].pc = "delete"
    /\ row' = IF row.id = req[t].id THEN [row EXCEPT !.here = FALSE] ELSE row
    /\ Answered(t) /\ UNCHANGED <<page, saves, dropped>>

-----------------------------------------------------------------------------
(***************************************************************************)
(* The placeholder the API shows in place of a secret is never stored as   *)
(* the secret, although the page sends it back with every save, from lists *)
(* as old as they may be, for rows that were deleted and made again.  Only *)
(* after an update() built on an older read has removed a secret that      *)
(* another save added does the placeholder find nothing to stand for.      *)
(***************************************************************************)
NoMaskStored ==
    dropped \/ \A k \in DOMAIN row.config : IsSecretKey(k) => row.config[k] # Masked

(***************************************************************************)
(* A save changes what the administrator typed.  Another leaf keeps its    *)
(* value, which the page may write in another way: an input's number       *)
(* becomes its text, a number of the policy that was stored as a text a    *)
(* number, and a policy without jitter gets the default.  A leaf changes   *)
(* otherwise only if the save is built on something older: a plain value   *)
(* of the list the form was filled from, or the row update() read before   *)
(* another save.                                                           *)
(***************************************************************************)
Rewritten(k, old, new) ==
    \/ k \in InputKeys /\ new = String(old)
    \/ /\ k \in PolicyNumbers /\ String(old) \in DOMAIN ParsedAs
       /\ new = ParsedAs[String(old)]
    \/ k = Jitter /\ old \notin {True, False} /\ new = True

SaveChangesOnlyEdits ==
    [][row.here /\ row'.here /\ ~dropped =>
          \E t \in Editor : \A k \in Leaves :
              \/ Leaf(row.config, k) = Leaf(row'.config, k)
              \/ Rewritten(k, Leaf(row.config, k), Leaf(row'.config, k))
              \/ k \in req[t].edited
              \/ req[t].current # row.config
              \/ ~IsSecretKey(k) /\ req[t].seen # RedactSecrets(row.config)]_row
=============================================================================
