-------------------------- MODULE AdminConsoleProofs --------------------------
(***************************************************************************)
(* The target systems page and its sessions for any number of tabs,        *)
(* sessions, saves and successive rows, and for any text typed into the    *)
(* inputs.                                                                 *)
(***************************************************************************)
EXTENDS AdminConsole, TLAPS

-----------------------------------------------------------------------------
(* Configs and what the page and the service make of them.                 *)

\* A config is a function from some of the leaves.
LEMMA ConfigElim ==
    ASSUME NEW c \in Config
    PROVE  DOMAIN c \subseteq Leaves /\ c \in [DOMAIN c -> Text]
  BY DEF Config

\* Every function from some of the leaves is a config.
LEMMA ConfigIntro ==
    ASSUME NEW D \in SUBSET Leaves, NEW c \in [D -> Text]
    PROVE  c \in Config
  BY DEF Config

\* The empty config, the placeholder and an empty input.
LEMMA Blank ==
    /\ NoConfig \in Config /\ DOMAIN NoConfig = {}
    /\ Masked \in Text /\ Empty \in Text /\ Masked # Empty
    /\ 0 \in 0..MaxIds /\ "passwork" \in Types
<1>1. NoConfig \in [{} -> Text] /\ DOMAIN NoConfig = {}
  BY DEF NoConfig
<1>2. NoConfig \in Config
  BY <1>1, ConfigIntro
<1>3. Masked \in Text /\ Empty \in Text
  BY ValueAssumption
<1>4. Masked # Empty /\ 0 \in 0..MaxIds /\ "passwork" \in Types
  BY BoundAssumption DEF Masked, Empty, Types
<1> QED
  BY <1>1, <1>2, <1>3, <1>4

\* redactSecrets keeps the keys and hides every secret.
LEMMA Redacted ==
    ASSUME NEW c \in Config
    PROVE  /\ RedactSecrets(c) \in Config
           /\ DOMAIN RedactSecrets(c) = DOMAIN c
           /\ \A k \in DOMAIN c :
                 RedactSecrets(c)[k] = IF IsSecretKey(k) THEN Masked ELSE c[k]
<1>1. RedactSecrets(c) \in [DOMAIN c -> Text]
  BY ConfigElim, Blank DEF RedactSecrets
<1> QED
  BY <1>1, ConfigElim, ConfigIntro DEF RedactSecrets

\* What mergeConfigPreservingSecrets makes of two configs is one.
LEMMA Merged ==
    ASSUME NEW a \in Config, NEW b \in Config
    PROVE  MergeConfigPreservingSecrets(a, b) \in Config
<1>1. MergeConfigPreservingSecrets(a, b) \in [DOMAIN a \cup DOMAIN b -> Text]
  BY ConfigElim DEF MergeConfigPreservingSecrets
<1>2. DOMAIN a \cup DOMAIN b \in SUBSET Leaves
  BY ConfigElim
<1> QED
  BY <1>1, <1>2, ConfigIntro

\* The values of a form are a config that has the jitter.
LEMMA ValuesElim ==
    ASSUME NEW c \in FormValues
    PROVE  c \in Config /\ Jitter \in DOMAIN c
<1>1. PICK D \in SUBSET Leaves : c \in [D \cup {Jitter} -> Text]
  BY DEF FormValues
<1>2. D \cup {Jitter} \in SUBSET Leaves
  BY DEF Leaves, RetryKeys
<1> QED
  BY <1>1, <1>2, ConfigIntro

\* Every config that has the jitter may be the values of a form.
LEMMA ValuesIntro ==
    ASSUME NEW D \in SUBSET Leaves, Jitter \in D, NEW c \in [D -> Text]
    PROVE  c \in FormValues
<1>1. D \cup {Jitter} = D
  OBVIOUS
<1> QED
  BY <1>1 DEF FormValues

\* What an input shows of a value, and what the jitter's box shows.
LEMMA Shows ==
    /\ \A v \in Text : String(v) \in Text
    /\ String(Masked) = Masked
    /\ \A c \in Config : JitterOf(c) \in {True, False} /\ JitterOf(c) \in Text
  BY ValueAssumption DEF String, JitterOf

\* The form takes each leaf of the list either into an input, where a hidden
\* secret becomes an empty one and a number its text, or into the extra keys.
LEMMA FormFilled ==
    ASSUME NEW item \in Item
    PROVE  /\ EditForm(item) \in Form
           /\ EditForm(item).id = item.id
           /\ DOMAIN EditForm(item).values \subseteq InputKeys \cup RetryKeys
           /\ EditForm(item).values[Jitter] = JitterOf(item.config)
           /\ \A k \in DOMAIN EditForm(item).values \ {Jitter} :
                 /\ k \in DOMAIN item.config
                 /\ EditForm(item).values[k] \in {Empty, String(item.config[k])}
           /\ \A k \in DOMAIN EditForm(item).extra :
                 /\ k \in DOMAIN item.config
                 /\ EditForm(item).extra[k] = item.config[k]
<1> DEFINE config == item.config
           own == TypeFields(item.type) \cup RetryKeys
           policy == PolicyForm(config)
           fields == DOMAIN config \cap TypeFields(item.type)
           shown == [k \in fields |->
                        IF IsSecretConfigKey(k) /\ config[k] = Masked
                        THEN Empty ELSE String(config[k])]
           values == Spread(policy, shown)
           extra == [k \in DOMAIN config \ own |-> config[k]]
<1>1. config \in Config /\ item.id \in 0..MaxIds /\ item.type \in Types
  BY DEF Item
<1>2. DOMAIN config \subseteq Leaves /\ config \in [DOMAIN config -> Text]
  BY <1>1, ConfigElim
<1>3. fields \subseteq InputKeys /\ Jitter \notin fields
  BY DEF TypeFields, InputKeys, Jitter
<1>4. /\ DOMAIN policy = (DOMAIN config \cap PolicyNumbers) \cup {Jitter}
      /\ policy[Jitter] = JitterOf(config)
      /\ \A k \in DOMAIN policy \ {Jitter} : policy[k] = String(config[k])
  BY DEF PolicyForm
<1>5. /\ DOMAIN values = DOMAIN policy \cup fields
      /\ \A k \in DOMAIN values :
            values[k] = IF k \in fields THEN shown[k] ELSE policy[k]
  BY DEF Spread
<1>6. /\ values[Jitter] = JitterOf(config)
      /\ \A k \in DOMAIN values \ {Jitter} :
            k \in DOMAIN config /\ values[k] \in {Empty, String(config[k])}
  <2> HIDE DEF values, policy
  <2> QED
    BY <1>3, <1>4, <1>5
<1>7. values \in FormValues /\ DOMAIN values \subseteq InputKeys \cup RetryKeys
  <2>1. /\ DOMAIN values \subseteq InputKeys \cup RetryKeys
        /\ DOMAIN values \in SUBSET Leaves /\ Jitter \in DOMAIN values
    BY <1>2, <1>3, <1>4, <1>5 DEF RetryKeys, Leaves
  <2>2. \A k \in DOMAIN values : values[k] \in Text
    <3>1. \A k \in DOMAIN config : String(config[k]) \in Text
      BY <1>2, Shows
    <3> HIDE DEF values
    <3> QED
      BY <1>1, <1>6, <3>1, Shows, Blank
  <2>3. values \in [DOMAIN values -> Text]
    <3>1. values = [k \in DOMAIN values |-> values[k]]
      BY DEF Spread
    <3> HIDE DEF values
    <3> QED
      BY <2>2, <3>1
  <2> HIDE DEF values
  <2> QED
    BY <2>1, <2>3, ValuesIntro
<1>8. extra \in Config
  <2>1. DOMAIN config \ own \in SUBSET Leaves /\ extra \in [DOMAIN config \ own -> Text]
    BY <1>2
  <2> QED
    BY <2>1, ConfigIntro
<1>9. EditForm(item) = [id |-> item.id, type |-> item.type,
                        values |-> values, extra |-> extra]
  BY DEF EditForm, Restrict
<1>10. EditForm(item) \in Form
  <2> HIDE DEF values, extra
  <2> QED
    BY <1>1, <1>7, <1>8, <1>9 DEF Form
<1>11. \A k \in DOMAIN extra : k \in DOMAIN config /\ extra[k] = config[k]
  OBVIOUS
<1> HIDE DEF values, extra
<1> QED
  BY <1>6, <1>7, <1>9, <1>10, <1>11

\* What buildConfig sends is what an input holds, a number of the policy, its
\* jitter or an extra key, and no input sends the placeholder of a secret.
LEMMA ConfigBuilt ==
    ASSUME NEW form \in Form
    PROVE  /\ BuildConfig(form) \in Config
           /\ \A k \in DOMAIN BuildConfig(form) :
                 \/ /\ k \in InputKeys \cap DOMAIN form.values
                    /\ BuildConfig(form)[k] = form.values[k]
                    /\ form.values[k] # Empty
                    /\ ~(IsSecretConfigKey(k) /\ form.values[k] = Masked)
                 \/ /\ k \in PolicyNumbers \cap DOMAIN form.values
                    /\ form.values[k] \in DOMAIN ParsedAs
                    /\ BuildConfig(form)[k] = ParsedAs[form.values[k]]
                 \/ k = Jitter /\ BuildConfig(form)[k] = form.values[k]
                 \/ k \in DOMAIN form.extra /\ BuildConfig(form)[k] = form.extra[k]
<1> DEFINE sent == {k \in DOMAIN form.values \cap TypeFields(form.type) :
                       /\ form.values[k] # Empty
                       /\ ~(IsSecretConfigKey(k) /\ form.values[k] = Masked)}
           typed == [k \in sent |-> form.values[k]]
           policy == BuildRetryPolicy(form.values)
           built == Spread(Spread(form.extra, typed), policy)
<1>1. /\ form.values \in [DOMAIN form.values -> Text]
      /\ DOMAIN form.values \subseteq Leaves /\ Jitter \in DOMAIN form.values
      /\ form.extra \in [DOMAIN form.extra -> Text]
      /\ DOMAIN form.extra \subseteq Leaves
  BY ConfigElim, ValuesElim DEF Form
<1>2. BuildConfig(form) = built
  BY DEF BuildConfig, Restrict
<1>3. \A k \in DOMAIN policy :
         \/ /\ k \in PolicyNumbers \cap DOMAIN form.values
            /\ form.values[k] \in DOMAIN ParsedAs
            /\ policy[k] = ParsedAs[form.values[k]]
         \/ k = Jitter /\ policy[k] = form.values[k]
  BY DEF BuildRetryPolicy, PolicyNumbers, Jitter
<1>4. sent \subseteq InputKeys \cap DOMAIN form.values
  BY DEF TypeFields, InputKeys
<1>5. /\ DOMAIN built = DOMAIN form.extra \cup sent \cup DOMAIN policy
      /\ \A k \in DOMAIN built :
            built[k] = IF k \in DOMAIN policy THEN policy[k]
                       ELSE IF k \in sent THEN form.values[k] ELSE form.extra[k]
      /\ built = [k \in DOMAIN built |-> built[k]]
  BY DEF Spread
<1> HIDE DEF built, policy
<1>6. \A k \in DOMAIN built :
         \/ /\ k \in InputKeys \cap DOMAIN form.values
            /\ built[k] = form.values[k]
            /\ form.values[k] # Empty
            /\ ~(IsSecretConfigKey(k) /\ form.values[k] = Masked)
         \/ /\ k \in PolicyNumbers \cap DOMAIN form.values
            /\ form.values[k] \in DOMAIN ParsedAs
            /\ built[k] = ParsedAs[form.values[k]]
         \/ k = Jitter /\ built[k] = form.values[k]
         \/ k \in DOMAIN form.extra /\ built[k] = form.extra[k]
  BY <1>3, <1>4, <1>5
<1> HIDE DEF sent
<1>7. built \in Config
  <2>1. DOMAIN built \in SUBSET Leaves
    BY <1>1, <1>3, <1>4, <1>5
  <2>2. \A k \in DOMAIN built : built[k] \in Text
    BY <1>1, <1>6, ValueAssumption
  <2>3. built \in [DOMAIN built -> Text]
    BY <1>5, <2>2
  <2> QED
    BY <2>1, <2>3, ConfigIntro
<1> QED
  BY <1>2, <1>6, <1>7

-----------------------------------------------------------------------------
(* Typing.                                                                 *)

\* An empty page, an empty request and an empty list entry.
LEMMA Fresh ==
    /\ NoItem \in Item /\ NewForm \in Form /\ NewPage \in Page
    /\ NoReq \in Request
<1>1. ASSUME NEW i \in 0..MaxIds, NEW y \in Types, NEW c \in Config
      PROVE  /\ [id |-> i, type |-> y, config |-> c] \in Item
             /\ [pc |-> "idle", id |-> i, type |-> y, config |-> c,
                 current |-> c, edited |-> {}, seen |-> c] \in Request
  BY DEF Item, Request
<1>2. NoItem \in Item /\ NoReq \in Request
  BY <1>1, Blank DEF NoItem, NoReq
<1>3. NewForm \in Form
  <2> DEFINE values == [k \in {Jitter} |-> True]
  <2>1. {Jitter} \in SUBSET Leaves /\ values \in [{Jitter} -> Text]
    BY ValueAssumption DEF Leaves, RetryKeys
  <2>2. values \in FormValues
    BY <2>1, ValuesIntro
  <2> HIDE DEF values
  <2>3. [id |-> 0, type |-> "passwork", values |-> values, extra |-> NoConfig] \in Form
    BY <2>2, Blank DEF Form
  <2> QED
    BY <2>3 DEF NewForm, values
<1> QED
  BY <1>2, <1>3, Blank DEF NewPage, Page

\* Every step of the page keeps its form and what it was filled from.
LEMMA PageStep ==
    ASSUME ConfigTypeOK, NEW t \in Editor,
           \/ HandleEdit(t) \/ SelectType(t) \/ EmptyForm(t)
           \/ \E k \in Leaves : TypeIn(t, k)
           \/ page' = [page EXCEPT ![t].item = Listed]
           \/ page' = [page EXCEPT ![t] = NewPage]
    PROVE  page' \in [Editor -> Page]
<1> USE DEF ConfigTypeOK
<1>0. page[t] \in Page /\ page[t].form \in Form /\ page[t].item \in Item
  BY DEF Page
<1>1. ASSUME NEW p \in Page, page' = [page EXCEPT ![t] = p]
      PROVE  page' \in [Editor -> Page]
  BY <1>1
<1>2. CASE HandleEdit(t)
  <2> DEFINE p == [page[t] EXCEPT !.form = EditForm(page[t].item), !.edited = {},
                                  !.seen = page[t].item.config]
  <2>1. page' = [page EXCEPT ![t] = p]
    BY <1>2 DEF HandleEdit
  <2>2. page[t].item.config \in Config /\ EditForm(page[t].item) \in Form
    BY <1>0, FormFilled DEF Item
  <2>3. p \in Page
    BY <1>0, <2>2 DEF Page
  <2> QED
    BY <1>1, <2>1, <2>3
<1>3. CASE SelectType(t)
  <2> DEFINE kept == Restrict(page[t].form.values,
                              DOMAIN page[t].form.values \cap RetryKeys)
  <2>1. PICK type \in Types :
           page' = [page EXCEPT ![t].form =
                       [page[t].form EXCEPT !.type = type, !.extra = NoConfig,
                                            !.values = kept],
                                ![t].edited = @ \cap RetryKeys]
    BY <1>3 DEF SelectType
  <2> DEFINE form == [page[t].form EXCEPT !.type = type, !.extra = NoConfig,
                                          !.values = kept]
             p == [page[t] EXCEPT !.form = form,
                                  !.edited = page[t].edited \cap RetryKeys]
  <2>2. page' = [page EXCEPT ![t] = p]
    BY <2>1
  <2>3. kept \in FormValues
    <3>1. page[t].form.values \in Config /\ Jitter \in DOMAIN page[t].form.values
      BY <1>0, ValuesElim DEF Form
    <3>2. /\ DOMAIN page[t].form.values \cap RetryKeys \in SUBSET Leaves
          /\ kept \in [DOMAIN page[t].form.values \cap RetryKeys -> Text]
          /\ Jitter \in DOMAIN page[t].form.values \cap RetryKeys
      BY <3>1, ConfigElim DEF Restrict, RetryKeys
    <3> QED
      BY <3>2, ValuesIntro
  <2> HIDE DEF kept
  <2>4. form \in Form
    BY <1>0, <2>3, Blank DEF Form
  <2> HIDE DEF form
  <2>5. p \in Page
    BY <1>0, <2>4 DEF Page
  <2> QED
    BY <1>1, <2>2, <2>5
<1>4. CASE EmptyForm(t)
  <2> DEFINE p == [page[t] EXCEPT !.form = NewForm, !.edited = {}, !.seen = NoConfig]
  <2>1. page' = [page EXCEPT ![t] = p]
    BY <1>4 DEF EmptyForm
  <2>2. p \in Page
    BY <1>0, Fresh, Blank DEF Page
  <2> QED
    BY <1>1, <2>1, <2>2
<1>5. ASSUME NEW k \in Leaves, TypeIn(t, k) PROVE page' \in [Editor -> Page]
  <2>1. PICK v \in NewValues[k] :
           page' = [page EXCEPT ![t].form.values = Spread(@, [j \in {k} |-> v]),
                                ![t].edited = @ \cup {k}]
    BY <1>5 DEF TypeIn
  <2> DEFINE values == Spread(page[t].form.values, [j \in {k} |-> v])
             form == [page[t].form EXCEPT !.values = values]
             p == [page[t] EXCEPT !.form = form, !.edited = page[t].edited \cup {k}]
  <2>2. page' = [page EXCEPT ![t] = p]
    BY <2>1
  <2>3. values \in FormValues
    <3>1. /\ page[t].form.values \in Config /\ Jitter \in DOMAIN page[t].form.values
          /\ v \in Text
      BY <1>0, ValuesElim, InputAssumption DEF Form
    <3>2. /\ DOMAIN page[t].form.values \cup {k} \in SUBSET Leaves
          /\ values \in [DOMAIN page[t].form.values \cup {k} -> Text]
      BY <3>1, ConfigElim DEF Spread
    <3> QED
      BY <3>1, <3>2, ValuesIntro
  <2> HIDE DEF values
  <2>4. form \in Form
    BY <1>0, <2>3 DEF Form
  <2> HIDE DEF form
  <2>5. p \in Page
    BY <1>0, <2>4 DEF Page
  <2> QED
    BY <1>1, <2>2, <2>5
<1>6. CASE page' = [page EXCEPT ![t].item = Listed]
  <2>1. Listed \in Item
    <3>1. row.id \in 0..MaxIds /\ row.type \in Types /\ RedactSecrets(row.config) \in Config
      BY Redacted
    <3> QED
      BY <3>1, Fresh DEF Listed, Item
  <2> DEFINE p == [page[t] EXCEPT !.item = Listed]
  <2>2. p \in Page
    BY <1>0, <2>1 DEF Page
  <2>3. page' = [page EXCEPT ![t] = p]
    BY <1>6
  <2> QED
    BY <1>1, <2>2, <2>3
<1>7. CASE page' = [page EXCEPT ![t] = NewPage]
  BY <1>1, <1>7, Fresh
<1> QED
  BY <1>2, <1>3, <1>4, <1>5, <1>6, <1>7

\* Every step of a request, from its submission to its answer.
LEMMA RequestStep ==
    ASSUME ConfigTypeOK, NEW t \in Editor,
           \/ Submit(t) \/ SubmitDelete(t) \/ UpdateReads(t) \/ Answered(t)
    PROVE  req' \in [Editor -> Request]
<1> USE DEF ConfigTypeOK
<1>0. /\ req[t] \in Request /\ page[t] \in Page /\ page[t].form \in Form
      /\ page[t].item.id \in 0..MaxIds
  BY DEF Page, Item
<1>1. ASSUME NEW q \in Request, req' = [req EXCEPT ![t] = q]
      PROVE  req' \in [Editor -> Request]
  BY <1>1
<1>2. CASE Submit(t)
  <2> DEFINE form == page[t].form
             q == [pc |-> IF form.id = 0 THEN "create" ELSE "read", id |-> form.id,
                   type |-> form.type, config |-> BuildConfig(form),
                   current |-> NoConfig, edited |-> page[t].edited,
                   seen |-> page[t].seen]
  <2>1. req' = [req EXCEPT ![t] = q]
    BY <1>2 DEF Submit
  <2>2. BuildConfig(form) \in Config
    BY <1>0, ConfigBuilt
  <2>3. /\ form.id \in 0..MaxIds /\ form.type \in Types
        /\ page[t].edited \in SUBSET Leaves /\ page[t].seen \in Config
    BY <1>0 DEF Form, Page
  <2>4. q \in Request
    BY <2>2, <2>3, Blank DEF Request
  <2> QED
    BY <1>1, <2>1, <2>4
<1>3. CASE SubmitDelete(t)
  <2> DEFINE q == [NoReq EXCEPT !.pc = "delete", !.id = page[t].item.id]
  <2>1. req' = [req EXCEPT ![t] = q]
    BY <1>3 DEF SubmitDelete
  <2>2. q \in Request
    BY <1>0, Fresh DEF Request
  <2> QED
    BY <1>1, <2>1, <2>2
<1>4. CASE UpdateReads(t)
  <2>1. PICK c \in Config : req' = [req EXCEPT ![t].pc = "write", ![t].current = c]
    BY <1>4, Blank DEF UpdateReads
  <2> DEFINE q == [req[t] EXCEPT !.pc = "write", !.current = c]
  <2>2. req' = [req EXCEPT ![t] = q]
    BY <2>1
  <2>3. q \in Request
    BY <1>0 DEF Request
  <2> QED
    BY <1>1, <2>2, <2>3
<1>5. CASE Answered(t)
  BY <1>1, <1>5, Fresh DEF Answered
<1> QED
  BY <1>2, <1>3, <1>4, <1>5

Stored == [id : 1..MaxIds, here : BOOLEAN, type : Types, config : Config]

\* The row: each id is used once, and the bound of the ids is kept.
LEMMA RowStep ==
    ASSUME ConfigTypeOK, NEW t \in Editor,
           Create(t) \/ UpdateWrites(t) \/ Delete(t)
    PROVE  row' \in Stored /\ dropped' \in BOOLEAN
<1> USE DEF ConfigTypeOK
<1>0. /\ req[t].type \in Types /\ req[t].config \in Config
      /\ req[t].current \in Config /\ row \in Stored
  BY DEF Request, Stored
<1>1. ASSUME NEW i \in 1..MaxIds
      PROVE  [id |-> i, here |-> TRUE, type |-> req[t].type,
              config |-> req[t].config] \in Stored
  BY <1>0 DEF Stored
<1>2. CASE Create(t)
  <2>1. CASE row.here
    BY <1>0, <1>2, <2>1 DEF Create
  <2>2. CASE ~row.here
    <3>1. row.id + 1 \in 1..MaxIds
      BY <1>2, <2>2, BoundAssumption DEF Create
    <3> QED
      BY <1>1, <1>2, <2>2, <3>1 DEF Create
  <2> QED
    BY <2>1, <2>2
<1>3. CASE UpdateWrites(t)
  <2>1. MergeConfigPreservingSecrets(req[t].current, req[t].config) \in Config
    BY <1>0, Merged
  <2>2. row' \in Stored
    BY <1>0, <1>3, <2>1 DEF UpdateWrites, Stored
  <2>3. dropped' \in BOOLEAN
    BY <1>3 DEF UpdateWrites
  <2> QED
    BY <2>2, <2>3
<1>4. CASE Delete(t)
  BY <1>0, <1>4 DEF Delete, Stored
<1> QED
  BY <1>2, <1>3, <1>4

Kinds == {"none", "session", "login", "logout", "reject", "list"}

\* A response and the session that may come with it.
LEMMA AnswerStep ==
    ASSUME AuthTypeOK, NEW t \in Tab, NEW kind \in Kinds,
           NEW c \in Session \cup {None, Keep}, NEW f \in Session \cup {None},
           Answer(t, kind, c, f)
    PROVE  reply' \in [Tab -> Response]
  BY DEF AuthTypeOK, Answer, Response, Kinds

\* A session made now has a number of its own.
LEMMA SessionStep ==
    ASSUME AuthTypeOK, CreateSession
    PROVE  made' \in Session /\ made' \in 0..MaxSessions /\ live' \subseteq Session
  BY SessionAssumption DEF AuthTypeOK, CreateSession, Session

\* What the middleware makes of a request.
LEMMA MiddlewareStep ==
    ASSUME AuthTypeOK, NEW session \in Session \cup {None},
           NEW c \in Session \cup {Keep}, Authenticated(session, c)
    PROVE  made' \in 0..MaxSessions /\ live' \subseteq Session
  BY SessionStep DEF AuthTypeOK, Authenticated

\* What a tab shows once the response is there.
LEMMA TabStep ==
    ASSUME AuthTypeOK, NEW t \in Tab
    PROVE  TabAfter(t) \in Shown
<1>1. tab[t] \in Shown /\ reply[t].csrf \in Session \cup {None}
  BY DEF AuthTypeOK, Response
<1>2. ASSUME NEW n \in Session \cup {None}, NEW screen \in {"loading", "login", "app"}
      PROVE  /\ [tab[t] EXCEPT !.csrf = n, !.screen = screen] \in Shown
             /\ [tab[t] EXCEPT !.csrf = n, !.screen = screen, !.error = FALSE] \in Shown
             /\ [tab[t] EXCEPT !.error = TRUE] \in Shown
  BY <1>1 DEF Shown
<1>3. None \in Session \cup {None}
  OBVIOUS
<1> QED
  BY <1>1, <1>2, <1>3 DEF TabAfter

\* Every step of the sessions keeps the declared ranges.
LEMMA AuthStep ==
    ASSUME AuthTypeOK, NEW t \in Tab,
           \/ FetchAuthSession(t) \/ LoginLocal(t) \/ LoginSso(t) \/ Logout(t)
           \/ Deliver(t) \/ ReloadTab(t)
    PROVE  AuthTypeOK'
<1> USE DEF AuthTypeOK
<1>0. None \in Session \cup {None} /\ Keep \in Session \cup {None, Keep}
  OBVIOUS
<1>1. CASE FetchAuthSession(t) \/ Logout(t)
  <2>1. ReadSession \in Session \cup {None}
    BY <1>0 DEF ReadSession
  <2>2. reply' \in [Tab -> Response]
    BY <1>0, <1>1, <2>1, AnswerStep DEF FetchAuthSession, SessionStatus, Logout, Kinds
  <2> QED
    BY <1>1, <2>2 DEF FetchAuthSession, Logout
<1>2. CASE LoginLocal(t) \/ LoginSso(t)
  <2>1. made' \in Session /\ made' \in 0..MaxSessions /\ live' \subseteq Session
    BY <1>2, SessionStep DEF LoginLocal, LoginSso
  <2>2. Answer(t, "login", made', made')
    BY <1>2 DEF LoginLocal, LoginSso
  <2>3. reply' \in [Tab -> Response]
    BY <2>1, <2>2 DEF Answer, Response
  <2> QED
    BY <1>2, <2>1, <2>3 DEF LoginLocal, LoginSso
<1>3. CASE Deliver(t)
  <2>1. NoReply \in Response
    <3>1. ASSUME NEW c \in Session \cup {None, Keep}, NEW f \in Session \cup {None}
          PROVE  [kind |-> "none", cookie |-> c, csrf |-> f] \in Response
      BY DEF Response
    <3> QED
      BY <1>0, <3>1 DEF NoReply
  <2>2. CookieAfter(t) \in Session \cup {None}
    BY DEF CookieAfter, Response
  <2>3. TabAfter(t) \in Shown
    BY TabStep
  <2> QED
    BY <1>3, <2>1, <2>2, <2>3 DEF Deliver
<1>4. CASE ReloadTab(t)
  <2>1. ASSUME NEW n \in Session \cup {None}
        PROVE  [screen |-> "loading", csrf |-> n, error |-> FALSE] \in Shown
    BY DEF Shown
  <2>2. [screen |-> "loading", csrf |-> None, error |-> FALSE] \in Shown
    BY <1>0, <2>1
  <2> QED
    BY <1>4, <2>2 DEF ReloadTab
<1> QED
  BY <1>1, <1>2, <1>3, <1>4

\* Init gives every variable a value of its range.
LEMMA TypeInit == Init => TypeOK
<1> SUFFICES ASSUME Init PROVE TypeOK
  OBVIOUS
<1>1. AuthTypeOK
  <2>1. ASSUME NEW c \in Session \cup {None, Keep}, NEW f \in Session \cup {None}
        PROVE  /\ [kind |-> "none", cookie |-> c, csrf |-> f] \in Response
               /\ [screen |-> "loading", csrf |-> f, error |-> FALSE] \in Shown
    BY DEF Response, Shown
  <2>2. None \in Session \cup {None} /\ Keep \in Session \cup {None, Keep}
    OBVIOUS
  <2>3. NoReply \in Response
        /\ [screen |-> "loading", csrf |-> None, error |-> FALSE] \in Shown
    BY <2>1, <2>2 DEF NoReply
  <2> QED
    BY <2>2, <2>3, SessionAssumption DEF Init, AuthInit, AuthTypeOK
<1>2. ConfigTypeOK
  <2>1. StoredConfigs \subseteq Config
    BY StoredAssumption
  <2>2. 1 \in 1..MaxIds
    BY BoundAssumption
  <2>3. row \in [id : {1}, here : {TRUE}, type : {"passwork"}, config : StoredConfigs]
    BY DEF Init, ConfigInit
  <2>4. row \in Stored
    BY <2>1, <2>2, <2>3 DEF Stored, Types
  <2>5. saves \in 0..MaxSaves
    BY BoundAssumption DEF Init, ConfigInit
  <2> QED
    BY <2>4, <2>5, Fresh DEF Init, ConfigInit, ConfigTypeOK, Stored
<1> QED
  BY <1>1, <1>2 DEF TypeOK

\* The page behind the middleware.
LEMMA TypeStep ==
    ASSUME TypeOK, [Next]_vars
    PROVE  TypeOK'
<1> USE DEF TypeOK
<1>1. ASSUME UNCHANGED configVars PROVE ConfigTypeOK'
  BY <1>1 DEF configVars, ConfigTypeOK
<1>2. ASSUME UNCHANGED authVars PROVE AuthTypeOK'
  BY <1>2 DEF authVars, AuthTypeOK
<1>3. ASSUME NEW t \in Tab, Ask(t) \/ SignIn(t) \/ SignOut(t) \/ Arrive(t)
      PROVE  TypeOK'
  BY <1>1, <1>3, AuthStep DEF Ask, SignIn, SignOut, Arrive
<1>4. ASSUME NEW t \in Tab, Reload(t) PROVE TypeOK'
  <2>1. AuthTypeOK'
    BY <1>4, AuthStep DEF Reload
  <2>2. page' \in [Editor -> Page]
    BY <1>4, PageStep, EditorAssumption DEF Reload
  <2> QED
    BY <1>4, <2>1, <2>2 DEF Reload, ConfigTypeOK
<1>5. ASSUME NEW t \in Tab, Load(t) PROVE TypeOK'
  <2>1. PICK session \in Session \cup {None}, c \in Session \cup {Keep} :
           /\ Authenticated(session, c)
           /\ IF session = None
              THEN Refused(t, c) /\ UNCHANGED page
              ELSE /\ IF c = Keep THEN UNCHANGED reply ELSE Answer(t, "list", c, None)
                   /\ page' = [page EXCEPT ![t].item = Listed]
    BY <1>5 DEF Load
  <2>2. made' \in 0..MaxSessions /\ live' \subseteq Session
    BY <2>1, MiddlewareStep
  <2>3. page' \in [Editor -> Page]
    <3>1. CASE UNCHANGED page
      BY <3>1 DEF ConfigTypeOK
    <3>2. CASE page' = [page EXCEPT ![t].item = Listed]
      BY <3>2, PageStep, EditorAssumption
    <3> QED
      BY <2>1, <3>1, <3>2
  <2>4. reply' \in [Tab -> Response]
    <3>1. CASE UNCHANGED reply
      BY <3>1 DEF AuthTypeOK
    <3>2. CASE Answer(t, "list", c, None) \/ Refused(t, c)
      BY <3>2, AnswerStep DEF Refused, Kinds
    <3> QED
      BY <2>1, <3>1, <3>2
  <2> QED
    BY <1>5, <2>2, <2>3, <2>4 DEF Load, AuthTypeOK, ConfigTypeOK
<1>6. ASSUME NEW t \in Tab, Mutate(t) PROVE TypeOK'
  <2>1. PICK session \in Session \cup {None}, c \in Session \cup {Keep} :
           /\ Authenticated(session, c)
           /\ IF VerifyCsrf(t, session)
              THEN (Submit(t) \/ SubmitDelete(t)) /\ UNCHANGED reply
              ELSE ~Busy(t) /\ Refused(t, c) /\ UNCHANGED configVars
    BY <1>6 DEF Mutate
  <2>2. made' \in 0..MaxSessions /\ live' \subseteq Session
    BY <2>1, MiddlewareStep
  <2>3. ConfigTypeOK'
    <3>1. CASE Submit(t) \/ SubmitDelete(t)
      <4>1. req' \in [Editor -> Request]
        BY <3>1, RequestStep, EditorAssumption
      <4>2. saves' \in 0..MaxSaves
        BY <3>1, BoundAssumption DEF Submit, SubmitDelete, ConfigTypeOK
      <4> QED
        BY <3>1, <4>1, <4>2 DEF Submit, SubmitDelete, ConfigTypeOK
    <3> QED
      BY <1>1, <2>1, <3>1
  <2>4. reply' \in [Tab -> Response]
    <3>1. CASE UNCHANGED reply
      BY <3>1 DEF AuthTypeOK
    <3>2. CASE Refused(t, c)
      BY <3>2, AnswerStep DEF Refused, Kinds
    <3> QED
      BY <2>1, <3>1, <3>2
  <2> QED
    BY <1>6, <2>2, <2>3, <2>4 DEF Mutate, AuthTypeOK
<1>7. ASSUME NEW t \in Tab, Edit(t) PROVE TypeOK'
  <2>1. page' \in [Editor -> Page]
    BY <1>7, PageStep, EditorAssumption DEF Edit, ResetForm
  <2>2. UNCHANGED <<row, req, saves, dropped>> /\ UNCHANGED authVars
    BY <1>7 DEF Edit, HandleEdit, SelectType, ResetForm, TypeIn
  <2> QED
    BY <1>2, <2>1, <2>2 DEF ConfigTypeOK
<1>8. ASSUME NEW t \in Tab, Serve(t) PROVE TypeOK'
  <2>1. AuthTypeOK'
    BY <1>2, <1>8 DEF Serve
  <2>2. req' \in [Editor -> Request]
    BY <1>8, RequestStep, EditorAssumption
    DEF Serve, Create, UpdateWrites, Delete
  <2>3. page' \in [Editor -> Page] /\ saves' = saves
    <3>1. UNCHANGED page \/ EmptyForm(t)
      BY <1>8 DEF Serve, Create, UpdateReads, UpdateWrites, Delete
    <3>2. saves' = saves
      BY <1>8 DEF Serve, Create, UpdateReads, UpdateWrites, Delete
    <3> QED
      BY <3>1, <3>2, PageStep, EditorAssumption DEF ConfigTypeOK
  <2>4. row' \in Stored /\ dropped' \in BOOLEAN
    <3>1. CASE UpdateReads(t)
      BY <3>1 DEF UpdateReads, ConfigTypeOK, Stored
    <3>2. CASE ~UpdateReads(t)
      BY <1>8, <3>2, RowStep, EditorAssumption DEF Serve
    <3> QED
      BY <3>1, <3>2
  <2> QED
    BY <2>1, <2>2, <2>3, <2>4 DEF ConfigTypeOK, Stored
<1>9. CASE Lapse
  <2>1. PICK n \in Session : Expire(n)
    BY <1>9 DEF Lapse
  <2>2. AuthTypeOK'
    BY <2>1 DEF Expire, AuthTypeOK
  <2> QED
    BY <1>1, <1>9, <2>2 DEF Lapse
<1>10. CASE UNCHANGED vars
  BY <1>1, <1>2, <1>10 DEF vars
<1> QED
  BY <1>3, <1>4, <1>5, <1>6, <1>7, <1>8, <1>9, <1>10 DEF Next

\* Every variable of the sessions and of the page keeps its declared range.
THEOREM Typing == Spec => []TypeOK
<1>1. TypeOK /\ [Next]_vars => TypeOK'
  BY TypeStep
<1> QED
  BY <1>1, TypeInit, PTL DEF Spec

-----------------------------------------------------------------------------
(* Sessions.  A session number reaches the cookie at most once, in the one  *)
(* response that carries it, and what the browser has left is behind it.    *)

SessionInv ==
    /\ cookie <= made /\ cookie \notin left
    /\ \A n \in left : n <= made
    /\ \A t \in Tab : reply[t].cookie \in Session =>
          /\ reply[t].cookie <= made
          /\ reply[t].cookie \notin left \cup {cookie}
          /\ \A u \in Tab \ {t} : reply[u].cookie # reply[t].cookie
    /\ \A t \in Tab : reply[t].kind = "logout" => reply[t].cookie = None

\* SessionInv survives every step.
LEMMA SessionInvStep ==
    ASSUME TypeOK, SessionInv, [Next]_vars
    PROVE  SessionInv'
<1> USE SessionAssumption DEF TypeOK, AuthTypeOK, Session, None, Keep
<1>1. ASSUME UNCHANGED <<cookie, left, reply>>, made' \in {made, made + 1}
      PROVE  SessionInv'
  BY <1>1 DEF SessionInv
<1>2. ASSUME NEW t \in Tab, NEW kind, NEW f, NEW c \in {None, Keep, made + 1},
             UNCHANGED <<cookie, left>>, made' \in {made, made + 1},
             c = made + 1 => made' = c, kind = "logout" => c = None,
             Answer(t, kind, c, f)
      PROVE  SessionInv'
  <2>1. /\ reply'[t].cookie = c /\ reply'[t].kind = kind
        /\ \A u \in Tab \ {t} : reply'[u] = reply[u]
    BY <1>2 DEF Answer
  <2>2. /\ cookie' <= made' /\ cookie' \notin left'
        /\ \A n \in left' : n <= made'
    BY <1>2 DEF SessionInv
  <2>3. \A u \in Tab : reply'[u].kind = "logout" => reply'[u].cookie = None
    BY <1>2, <2>1 DEF SessionInv
  <2>4. ASSUME NEW u \in Tab, reply'[u].cookie \in Session
        PROVE  /\ reply'[u].cookie <= made'
               /\ reply'[u].cookie \notin left' \cup {cookie'}
               /\ \A v \in Tab \ {u} : reply'[v].cookie # reply'[u].cookie
    <3>1. \A v \in Tab \ {t} : reply[v].cookie # made + 1
      BY DEF SessionInv, Response
    <3>2. CASE u = t
      BY <1>2, <2>1, <2>4, <3>1, <3>2 DEF SessionInv
    <3>3. CASE u # t
      BY <1>2, <2>1, <2>4, <3>1, <3>3 DEF SessionInv
    <3> QED
      BY <3>2, <3>3
  <2> QED
    BY <2>2, <2>3, <2>4 DEF SessionInv
<1>3. ASSUME NEW t \in Tab, Deliver(t) PROVE SessionInv'
  <2>1. /\ made' = made
        /\ reply'[t].cookie = Keep /\ reply'[t].kind = "none"
        /\ \A u \in Tab \ {t} : reply'[u] = reply[u]
        /\ cookie' = IF reply[t].cookie = Keep THEN cookie ELSE reply[t].cookie
    BY <1>3 DEF Deliver, NoReply, CookieAfter
  <2>2. left' = left \/ (left' = left \cup ({cookie} \ {None}) /\ cookie' = None)
    BY <1>3, <2>1 DEF Deliver, SessionInv
  <2>3. /\ cookie' <= made' /\ cookie' \notin left'
        /\ \A n \in left' : n <= made'
    <3>1. cookie' = None \/ cookie' = cookie \/ (cookie' = reply[t].cookie
                                                  /\ cookie' \in Session)
      BY <2>1 DEF Response
    <3>2. None \notin left /\ None <= made /\ cookie \in Int /\ left \subseteq Int
      OBVIOUS
    <3>3. /\ cookie <= made /\ cookie \notin left /\ (\A n \in left : n <= made)
          /\ reply[t].cookie \in Session => /\ reply[t].cookie <= made
                                           /\ reply[t].cookie \notin left \cup {cookie}
      BY DEF SessionInv
    <3> QED
      BY <2>1, <2>2, <3>1, <3>2, <3>3
  <2>4. \A u \in Tab : reply'[u].kind = "logout" => reply'[u].cookie = None
    BY <2>1 DEF SessionInv
  <2>5. ASSUME NEW u \in Tab, reply'[u].cookie \in Session
        PROVE  /\ reply'[u].cookie <= made'
               /\ reply'[u].cookie \notin left' \cup {cookie'}
               /\ \A v \in Tab \ {u} : reply'[v].cookie # reply'[u].cookie
    <3>1. u # t
      BY <2>1, <2>5
    <3> QED
      BY <2>1, <2>2, <2>5, <3>1 DEF SessionInv
  <2> QED
    BY <2>3, <2>4, <2>5 DEF SessionInv
<1>4. ASSUME NEW t \in Tab, Ask(t) \/ SignIn(t) \/ SignOut(t) PROVE SessionInv'
  BY <1>2, <1>4 DEF Ask, FetchAuthSession, SessionStatus, SignIn, LoginLocal,
     LoginSso, CreateSession, SignOut, Logout
<1>5. ASSUME NEW t \in Tab, Load(t) \/ Mutate(t) PROVE SessionInv'
  <2>1. PICK session \in Session \cup {None}, c \in Session \cup {Keep} :
           /\ Authenticated(session, c)
           /\ \/ UNCHANGED reply
              \/ Answer(t, "list", c, None) \/ Answer(t, "reject", c, None)
    BY <1>5 DEF Load, Mutate, Refused
  <2>2. UNCHANGED <<cookie, left>>
    BY <1>5 DEF Load, Mutate
  <2>3. /\ made' \in {made, made + 1} /\ c \in {None, Keep, made + 1}
        /\ c = made + 1 => made' = c
    BY <2>1 DEF Authenticated, CreateSession
  <2> QED
    BY <1>1, <1>2, <2>1, <2>2, <2>3
<1>6. ASSUME NEW t \in Tab, Arrive(t) PROVE SessionInv'
  BY <1>3, <1>6 DEF Arrive
<1>7. ASSUME NEW t \in Tab, Reload(t) \/ Edit(t) \/ Serve(t) PROVE SessionInv'
  BY <1>1, <1>7 DEF Reload, ReloadTab, Edit, Serve, authVars
<1>8. CASE Lapse
  <2>1. /\ cookie' \in {cookie, None} /\ UNCHANGED <<made, left, reply>>
    BY <1>8 DEF Lapse, Expire
  <2> QED
    BY <2>1 DEF SessionInv
<1>9. CASE UNCHANGED vars
  BY <1>1, <1>9 DEF vars, authVars
<1> QED
  BY <1>4, <1>5, <1>6, <1>7, <1>8, <1>9 DEF Next

\* SessionInv holds throughout.
LEMMA SessionInvariant == Spec => []SessionInv
<1>1. Init => SessionInv
  BY DEF Init, AuthInit, SessionInv, NoReply, None, Keep, Session
<1>2. TypeOK /\ SessionInv /\ [Next]_vars => SessionInv'
  BY SessionInvStep
<1> QED
  BY <1>1, <1>2, Typing, PTL DEF Spec

\* The token of a session the browser has logged out of changes nothing any
\* more, for any number of tabs, sessions and responses still on their way:
\* the server forgets nothing, but the cookie never comes back.
THEOREM LogoutHolds == Spec => LogoutIsFinal
<1>1. ASSUME TypeOK, SessionInv, [Next]_vars
      PROVE  [\A t \in Tab : ~Busy(t) /\ Busy(t)' => tab[t].csrf \notin left]_vars
  <2> SUFFICES ASSUME NEW t \in Tab, ~Busy(t), Busy(t)', Next
               PROVE  tab[t].csrf \notin left
    BY <1>1
  <2> USE <1>1, SessionAssumption, EditorAssumption
          DEF TypeOK, AuthTypeOK, ConfigTypeOK, Session, None, Keep
  <2>1. PICK u \in Tab : Mutate(u) /\ req'[t] # req[t]
    <3>1. req'[t] # req[t]
      BY DEF Busy
    <3>2. ASSUME NEW u \in Tab, Serve(u) PROVE FALSE
      <4>1. req'[u] = NoReq \/ req[u].pc = "read"
        BY <3>2 DEF Serve, Create, UpdateReads, UpdateWrites, Delete, Answered
      <4>2. \A v \in Tab \ {u} : req'[v] = req[v]
        BY <3>2 DEF Serve, Create, UpdateReads, UpdateWrites, Delete, Answered
      <4> QED
        BY <3>1, <4>1, <4>2 DEF Busy, NoReq
    <3> QED
      BY <3>1, <3>2 DEF Next, Ask, SignIn, SignOut, Arrive, Reload, Load, Edit,
         HandleEdit, TypeIn, SelectType, ResetForm, Lapse, configVars
  <2>2. PICK session \in Session \cup {None}, c \in Session \cup {Keep} :
           /\ Authenticated(session, c)
           /\ VerifyCsrf(u, session) /\ (Submit(u) \/ SubmitDelete(u))
    BY <2>1 DEF Mutate, configVars
  <2>3. u = t
    BY <2>1, <2>2 DEF Submit, SubmitDelete
  <2>4. session = cookie \/ session = made + 1
    BY <2>2 DEF VerifyCsrf, Authenticated, ReadSession, CreateSession
  <2> QED
    BY <2>2, <2>3, <2>4 DEF VerifyCsrf, SessionInv
<1> QED
  BY <1>1, Typing, SessionInvariant, PTL DEF Spec, LogoutIsFinal

-----------------------------------------------------------------------------
(* The placeholder.  It travels only in lists and in the extra keys of a    *)
(* form, always for a secret the row of that id has; an id is used once.    *)

SecretsHidden(c) == \A k \in DOMAIN c : IsSecretKey(k) => c[k] = Masked
MaskedKeys(c) == {k \in DOMAIN c : IsSecretKey(k) /\ c[k] = Masked}

PageOK(p, last) ==
    /\ p.item.id <= last /\ p.form.id <= last
    /\ SecretsHidden(p.item.config) /\ SecretsHidden(p.seen)
    /\ \A k \in DOMAIN p.form.extra :
          k \in DOMAIN p.seen /\ p.form.extra[k] = p.seen[k]
    /\ \A k \in DOMAIN p.form.values \ p.edited :
          IF k = Jitter THEN p.form.values[k] = JitterOf(p.seen)
          ELSE \/ p.form.values[k] = Empty
               \/ k \in DOMAIN p.seen /\ p.form.values[k] = String(p.seen[k])
    /\ DOMAIN p.form.values \subseteq InputKeys \cup RetryKeys
    /\ p.form.id = 0 => DOMAIN p.form.extra = {}

RequestOK(q, last) ==
    /\ q.id <= last
    /\ SecretsHidden(q.seen)
    /\ \A k \in DOMAIN q.config \ q.edited :
          \/ k \in DOMAIN q.seen /\ q.config[k] = q.seen[k]
          \/ ~IsSecretKey(k) /\ Rewritten(k, Leaf(q.seen, k), q.config[k])
    /\ q.pc = "create" => MaskedKeys(q.config) = {}

PageMasks(p, r) ==
    /\ p.item.id = r.id => MaskedKeys(p.item.config) \subseteq DOMAIN r.config
    /\ p.form.id = r.id => MaskedKeys(p.form.extra) \subseteq DOMAIN r.config

RequestMasks(q, r) ==
    /\ q.id = r.id => MaskedKeys(q.config) \subseteq DOMAIN r.config
    /\ q.pc = "write" /\ q.id = r.id /\ r.here =>
          /\ MaskedKeys(q.config) \subseteq DOMAIN q.current
          /\ MaskedKeys(q.current) = {}

ConfigInv ==
    /\ \A t \in Editor : PageOK(page[t], row.id) /\ RequestOK(req[t], row.id)
    /\ \/ dropped
       \/ /\ MaskedKeys(row.config) = {}
          /\ \A t \in Editor : PageMasks(page[t], row) /\ RequestMasks(req[t], row)

\* Nothing on an empty page, in an empty form or in an empty request.
LEMMA FreshOK ==
    ASSUME ConfigTypeOK
    PROVE  /\ PageOK(NewPage, row.id) /\ PageMasks(NewPage, row)
           /\ RequestOK(NoReq, row.id) /\ RequestMasks(NoReq, row)
           /\ \A p \in Page : PageOK(p, row.id) =>
                 PageOK([p EXCEPT !.form = NewForm, !.edited = {}, !.seen = NoConfig],
                        row.id)
           /\ \A p \in Page : PageMasks(p, row) =>
                 PageMasks([p EXCEPT !.form = NewForm, !.edited = {}, !.seen = NoConfig],
                           row)
<1>1. DOMAIN NoConfig = {} /\ row.id \in Int /\ row.id >= 1
  BY Blank DEF ConfigTypeOK
<1>2. /\ NewForm.id = 0 /\ NewForm.extra = NoConfig
      /\ DOMAIN NewForm.values = {Jitter} /\ NewForm.values[Jitter] = JitterOf(NoConfig)
      /\ NoItem.id = 0 /\ NoItem.config = NoConfig
      /\ NewPage.item = NoItem /\ NewPage.form = NewForm /\ NewPage.seen = NoConfig
      /\ NoReq.pc = "idle" /\ NoReq.id = 0 /\ NoReq.config = NoConfig
      /\ NoReq.seen = NoConfig
  BY <1>1 DEF NewForm, NoItem, NewPage, NoReq, JitterOf, Leaf, Empty, False
<1>3. PageOK(NewPage, row.id) /\ PageMasks(NewPage, row)
  BY <1>1, <1>2 DEF PageOK, PageMasks, SecretsHidden, MaskedKeys, RetryKeys
<1>4. RequestOK(NoReq, row.id) /\ RequestMasks(NoReq, row)
  BY <1>1, <1>2 DEF RequestOK, RequestMasks, SecretsHidden, MaskedKeys
<1>5. ASSUME NEW p \in Page
      PROVE  LET e == [p EXCEPT !.form = NewForm, !.edited = {}, !.seen = NoConfig]
             IN  /\ e.item = p.item /\ e.form = NewForm /\ e.seen = NoConfig
                 /\ e.edited = {}
  BY DEF Page
<1> QED
  BY <1>1, <1>2, <1>3, <1>4, <1>5 DEF PageOK, PageMasks, SecretsHidden, MaskedKeys,
     RetryKeys

\* Each step of the page.
LEMMA PageKept ==
    ASSUME ConfigTypeOK, ConfigInv, NEW t \in Editor,
           \/ HandleEdit(t) \/ SelectType(t) \/ EmptyForm(t)
           \/ \E k \in Leaves : TypeIn(t, k)
           \/ page' = [page EXCEPT ![t].item = Listed]
           \/ page' = [page EXCEPT ![t] = NewPage]
    PROVE  \A u \in Editor : PageOK(page'[u], row.id)
                             /\ (dropped \/ PageMasks(page'[u], row))
<1> USE DEF ConfigTypeOK
<1>0. /\ page[t] \in Page /\ page[t].form \in Form /\ page[t].item \in Item
      /\ PageOK(page[t], row.id)
      /\ dropped \/ (PageMasks(page[t], row) /\ MaskedKeys(row.config) = {})
      /\ row.id \in Int /\ row.id >= 1
  BY DEF Page, ConfigInv
<1>1. \A u \in Editor \ {t} : page'[u] = page[u]
  BY DEF HandleEdit, SelectType, EmptyForm, TypeIn
<1>2. SUFFICES PageOK(page'[t], row.id) /\ (dropped \/ PageMasks(page'[t], row))
  BY <1>1 DEF ConfigInv
<1>3. CASE HandleEdit(t)
  <2>1. /\ page'[t].item = page[t].item /\ page'[t].form = EditForm(page[t].item)
        /\ page'[t].edited = {} /\ page'[t].seen = page[t].item.config
    BY <1>0, <1>3 DEF HandleEdit, Page
  <2> DEFINE item == page[t].item
  <2>2. /\ EditForm(item).id = item.id
        /\ DOMAIN EditForm(item).values \subseteq InputKeys \cup RetryKeys
        /\ EditForm(item).values[Jitter] = JitterOf(item.config)
        /\ \A k \in DOMAIN EditForm(item).values \ {Jitter} :
              /\ k \in DOMAIN item.config
              /\ EditForm(item).values[k] \in {Empty, String(item.config[k])}
        /\ \A k \in DOMAIN EditForm(item).extra :
              /\ k \in DOMAIN item.config
              /\ EditForm(item).extra[k] = item.config[k]
    BY <1>0, FormFilled
  <2>3. item.id # 0
    BY <1>3 DEF HandleEdit
  <2> HIDE DEF item
  <2>4. PageOK(page'[t], row.id)
    BY <1>0, <2>1, <2>2, <2>3 DEF PageOK, item
  <2>5. PageMasks(page[t], row) => PageMasks(page'[t], row)
    BY <2>1, <2>2 DEF PageMasks, MaskedKeys, item
  <2> QED
    BY <1>0, <2>4, <2>5
<1>4. CASE SelectType(t)
  <2> DEFINE values == page[t].form.values
             kept == Restrict(values, DOMAIN values \cap RetryKeys)
  <2>1. PICK type \in Types :
           page' = [page EXCEPT ![t].form =
                       [page[t].form EXCEPT !.type = type, !.extra = NoConfig,
                                            !.values = kept],
                                ![t].edited = @ \cap RetryKeys]
    BY <1>4 DEF SelectType
  <2>2. /\ page'[t].item = page[t].item /\ page'[t].seen = page[t].seen
        /\ page'[t].edited = page[t].edited \cap RetryKeys
        /\ page'[t].form.id = page[t].form.id
        /\ page'[t].form.extra = NoConfig /\ page'[t].form.values = kept
    BY <1>0, <2>1 DEF Page, Form
  <2>3. /\ DOMAIN kept = DOMAIN values \cap RetryKeys
        /\ \A k \in DOMAIN kept : kept[k] = values[k]
    BY DEF Restrict
  <2> HIDE DEF kept
  <2>4. PageOK(page'[t], row.id)
    BY <1>0, <2>2, <2>3, Blank DEF PageOK
  <2>5. PageMasks(page[t], row) => PageMasks(page'[t], row)
    BY <2>2, Blank DEF PageMasks, MaskedKeys
  <2> QED
    BY <1>0, <2>4, <2>5
<1>5. CASE EmptyForm(t)
  <2>1. page'[t] = [page[t] EXCEPT !.form = NewForm, !.edited = {}, !.seen = NoConfig]
    BY <1>5 DEF EmptyForm
  <2> QED
    BY <1>0, <2>1, FreshOK
<1>6. ASSUME NEW k \in Leaves, TypeIn(t, k)
      PROVE  PageOK(page'[t], row.id) /\ (dropped \/ PageMasks(page'[t], row))
  <2>1. PICK v \in NewValues[k] :
           page' = [page EXCEPT ![t].form.values = Spread(@, [j \in {k} |-> v]),
                                ![t].edited = @ \cup {k}]
    BY <1>6 DEF TypeIn
  <2> DEFINE values == Spread(page[t].form.values, [j \in {k} |-> v])
  <2>2. /\ page'[t].item = page[t].item /\ page'[t].seen = page[t].seen
        /\ page'[t].edited = page[t].edited \cup {k}
        /\ page'[t].form.id = page[t].form.id
        /\ page'[t].form.extra = page[t].form.extra
        /\ page'[t].form.values = values
    BY <1>0, <2>1 DEF Page, Form
  <2>3. /\ DOMAIN values = DOMAIN page[t].form.values \cup {k}
        /\ \A j \in DOMAIN values \ {k} : values[j] = page[t].form.values[j]
    BY DEF Spread
  <2>4. k \in InputKeys \cup RetryKeys
    BY <1>6 DEF TypeIn, TypeFields, InputKeys
  <2> HIDE DEF values
  <2>5. PageOK(page'[t], row.id)
    BY <1>0, <2>2, <2>3, <2>4 DEF PageOK
  <2>6. PageMasks(page[t], row) => PageMasks(page'[t], row)
    BY <2>2 DEF PageMasks
  <2> QED
    BY <1>0, <2>5, <2>6
<1>7. CASE page' = [page EXCEPT ![t].item = Listed]
  <2>1. /\ page'[t].item = Listed /\ page'[t].form = page[t].form
        /\ page'[t].edited = page[t].edited /\ page'[t].seen = page[t].seen
    BY <1>0, <1>7 DEF Page
  <2>2. /\ Listed.id <= row.id /\ SecretsHidden(Listed.config)
        /\ Listed.id = row.id => MaskedKeys(Listed.config) \subseteq DOMAIN row.config
    <3>1. CASE row.here
      <4>1. Listed.id = row.id /\ Listed.config = RedactSecrets(row.config)
        BY <3>1 DEF Listed
      <4>2. row.config \in Config
        OBVIOUS
      <4> QED
        BY <1>0, <4>1, <4>2, Redacted DEF SecretsHidden, MaskedKeys
    <3>2. CASE ~row.here
      BY <1>0, <3>2, Blank DEF Listed, NoItem, SecretsHidden, MaskedKeys
    <3> QED
      BY <3>1, <3>2
  <2>3. PageOK(page'[t], row.id)
    BY <1>0, <2>1, <2>2 DEF PageOK
  <2>4. PageMasks(page[t], row) => PageMasks(page'[t], row)
    BY <2>1, <2>2 DEF PageMasks
  <2> QED
    BY <1>0, <2>3, <2>4
<1>8. CASE page' = [page EXCEPT ![t] = NewPage]
  BY <1>8, FreshOK
<1> QED
  BY <1>3, <1>4, <1>5, <1>6, <1>7, <1>8

\* Each step of a request that leaves the row alone.
LEMMA RequestKept ==
    ASSUME ConfigTypeOK, ConfigInv, NEW t \in Editor,
           \/ Submit(t) \/ SubmitDelete(t) \/ UpdateReads(t) \/ Answered(t)
    PROVE  \A u \in Editor : RequestOK(req'[u], row.id)
                             /\ (dropped \/ RequestMasks(req'[u], row))
<1> USE DEF ConfigTypeOK
<1>0. /\ page[t] \in Page /\ page[t].form \in Form /\ req[t] \in Request
      /\ PageOK(page[t], row.id) /\ RequestOK(req[t], row.id)
      /\ \/ dropped
         \/ /\ PageMasks(page[t], row) /\ RequestMasks(req[t], row)
            /\ MaskedKeys(row.config) = {}
      /\ row.id \in Int /\ row.id >= 1
  BY DEF Page, ConfigInv
<1>1. \A u \in Editor \ {t} : req'[u] = req[u]
  BY DEF Submit, SubmitDelete, UpdateReads, Answered
<1>2. SUFFICES RequestOK(req'[t], row.id) /\ (dropped \/ RequestMasks(req'[t], row))
  BY <1>1 DEF ConfigInv
<1>3. CASE Submit(t)
  <2> DEFINE form == page[t].form
             config == BuildConfig(form)
  <2>1. /\ req'[t].pc = IF form.id = 0 THEN "create" ELSE "read"
        /\ req'[t].id = form.id /\ req'[t].config = config
        /\ req'[t].edited = page[t].edited /\ req'[t].seen = page[t].seen
    BY <1>3 DEF Submit
  <2>2. \A k \in DOMAIN config :
           \/ /\ k \in InputKeys \cap DOMAIN form.values /\ config[k] = form.values[k]
              /\ form.values[k] # Empty
              /\ ~(IsSecretConfigKey(k) /\ form.values[k] = Masked)
           \/ /\ k \in PolicyNumbers \cap DOMAIN form.values
              /\ form.values[k] \in DOMAIN ParsedAs
              /\ config[k] = ParsedAs[form.values[k]]
           \/ k = Jitter /\ config[k] = form.values[k]
           \/ k \in DOMAIN form.extra /\ config[k] = form.extra[k]
    BY <1>0, ConfigBuilt
  <2> HIDE DEF config
  <2>3. ASSUME NEW k \in MaskedKeys(config)
        PROVE  k \in MaskedKeys(form.extra)
    <3>1. k \in InputKeys \cup RetryKeys => IsSecretConfigKey(k) /\ k \in InputKeys
      BY <2>3 DEF MaskedKeys, IsSecretKey, InputKeys, RetryKeys, PolicyNumbers, Jitter,
         IsSecretConfigKey
    <3> QED
      BY <1>0, <2>2, <2>3, <3>1 DEF MaskedKeys, RetryKeys, PolicyNumbers, Jitter, InputKeys
  <2>4. RequestOK(req'[t], row.id)
    <3>1. ASSUME NEW k \in DOMAIN config \ page[t].edited
          PROVE  \/ k \in DOMAIN page[t].seen /\ config[k] = page[t].seen[k]
                 \/ ~IsSecretKey(k) /\ Rewritten(k, Leaf(page[t].seen, k), config[k])
      <4> DEFINE seen == page[t].seen
      <4>0. /\ Jitter \in DOMAIN form.values
            /\ SecretsHidden(seen)
            /\ \A j \in DOMAIN form.values \ page[t].edited :
                  IF j = Jitter THEN form.values[j] = JitterOf(seen)
                  ELSE \/ form.values[j] = Empty
                       \/ j \in DOMAIN seen /\ form.values[j] = String(seen[j])
        BY <1>0, ValuesElim DEF PageOK, Form
      <4>1. CASE k \in DOMAIN form.extra /\ config[k] = form.extra[k]
        BY <1>0, <4>1 DEF PageOK
      <4>2. CASE /\ k \in InputKeys \cap DOMAIN form.values /\ config[k] = form.values[k]
                 /\ form.values[k] # Empty
                 /\ ~(IsSecretConfigKey(k) /\ form.values[k] = Masked)
        <5>1. k \in DOMAIN seen /\ config[k] = String(seen[k])
          BY <3>1, <4>0, <4>2 DEF InputKeys, Jitter
        <5>2. ~IsSecretKey(k)
          <6>1. k # "headers.authorization"
            BY <4>2 DEF InputKeys
          <6> QED
            BY <4>0, <4>2, <5>1, <6>1, Shows DEF SecretsHidden, IsSecretKey,
               IsSecretConfigKey
        <5> QED
          BY <4>2, <5>1, <5>2 DEF Rewritten, Leaf
      <4>3. CASE /\ k \in PolicyNumbers \cap DOMAIN form.values
                 /\ form.values[k] \in DOMAIN ParsedAs
                 /\ config[k] = ParsedAs[form.values[k]]
        <5>1. k # Jitter /\ ~IsSecretKey(k)
          BY <4>3 DEF PolicyNumbers, Jitter, IsSecretKey
        <5>2. k \in DOMAIN seen /\ form.values[k] = String(seen[k])
          BY <3>1, <4>0, <4>3, <5>1, ValueAssumption
        <5> QED
          BY <4>3, <5>1, <5>2 DEF Rewritten, Leaf
      <4>4. CASE k = Jitter /\ config[k] = form.values[k]
        <5>1. config[k] = JitterOf(seen) /\ ~IsSecretKey(k)
          BY <3>1, <4>0, <4>4 DEF IsSecretKey, Jitter
        <5>2. CASE Leaf(seen, Jitter) \in {True, False}
          <6>1. Jitter \in DOMAIN seen /\ Leaf(seen, Jitter) = seen[Jitter]
            BY <5>2 DEF Leaf, Empty, True, False
          <6> QED
            BY <4>4, <5>1, <5>2, <6>1 DEF JitterOf
        <5>3. CASE Leaf(seen, Jitter) \notin {True, False}
          BY <4>4, <5>1, <5>3 DEF JitterOf, Rewritten
        <5> QED
          BY <5>2, <5>3
      <4> QED
        BY <2>2, <4>1, <4>2, <4>3, <4>4
    <3>2. form.id = 0 => MaskedKeys(config) = {}
      BY <1>0, <2>3 DEF PageOK, MaskedKeys
    <3> QED
      BY <1>0, <2>1, <3>1, <3>2 DEF RequestOK, PageOK
  <2>5. PageMasks(page[t], row) => RequestMasks(req'[t], row)
    BY <2>1, <2>3 DEF PageMasks, RequestMasks
  <2> QED
    BY <1>0, <2>4, <2>5
<1>4. CASE SubmitDelete(t)
  <2>1. /\ req'[t].pc = "delete" /\ req'[t].id = page[t].item.id
        /\ req'[t].config = NoConfig /\ req'[t].seen = NoConfig
    BY <1>4 DEF SubmitDelete, NoReq
  <2> QED
    BY <1>0, <2>1, Blank DEF RequestOK, RequestMasks, PageOK, SecretsHidden,
       MaskedKeys
<1>5. CASE UpdateReads(t)
  <2>1. /\ req'[t].pc = "write" /\ req'[t].id = req[t].id
        /\ req'[t].config = req[t].config /\ req'[t].seen = req[t].seen
        /\ req'[t].edited = req[t].edited
        /\ row.here /\ row.id = req[t].id => req'[t].current = row.config
    BY <1>0, <1>5 DEF UpdateReads, Request
  <2>2. RequestOK(req'[t], row.id)
    BY <1>0, <2>1 DEF RequestOK
  <2>3. RequestMasks(req[t], row) /\ MaskedKeys(row.config) = {}
        => RequestMasks(req'[t], row)
    BY <2>1 DEF RequestMasks
  <2> QED
    BY <1>0, <2>2, <2>3
<1>6. CASE Answered(t)
  BY <1>6, FreshOK DEF Answered
<1> QED
  BY <1>3, <1>4, <1>5, <1>6

\* What update writes when its row is still there.
LEMMA Written ==
    ASSUME ConfigTypeOK, ConfigInv, NEW t \in Editor, UpdateWrites(t),
           row.here, row.id = req[t].id
    PROVE  /\ row'.id = row.id /\ row'.here
           /\ DOMAIN row'.config = DOMAIN req[t].current \cup DOMAIN req[t].config
           /\ \A k \in DOMAIN row'.config :
                 row'.config[k] =
                    IF /\ k \in DOMAIN req[t].config
                       /\ ~(/\ IsSecretKey(k) /\ req[t].config[k] = Masked
                            /\ k \in DOMAIN req[t].current)
                    THEN req[t].config[k] ELSE req[t].current[k]
           /\ dropped => dropped'
           /\ ~dropped' => \A k \in DOMAIN row.config :
                              IsSecretKey(k) => k \in DOMAIN row'.config
<1>1. /\ row'.id = row.id /\ row'.here
      /\ row'.config = MergeConfigPreservingSecrets(req[t].current, req[t].config)
  BY DEF UpdateWrites, ConfigTypeOK
<1>2. dropped' = (dropped \/ \E k \in DOMAIN row.config \ DOMAIN row'.config :
                                 IsSecretKey(k))
  BY DEF UpdateWrites
<1>3. /\ DOMAIN row'.config = DOMAIN req[t].current \cup DOMAIN req[t].config
      /\ \A k \in DOMAIN row'.config :
            row'.config[k] =
               IF /\ k \in DOMAIN req[t].config
                  /\ ~(/\ IsSecretKey(k) /\ req[t].config[k] = Masked
                       /\ k \in DOMAIN req[t].current)
               THEN req[t].config[k] ELSE req[t].current[k]
  BY <1>1 DEF MergeConfigPreservingSecrets, IsMaskedSecretValue
<1>4. /\ dropped => dropped'
      /\ ~dropped' => \A k \in DOMAIN row.config :
                         IsSecretKey(k) => k \in DOMAIN row'.config
  BY <1>2, Zenon
<1> QED
  BY <1>1, <1>3, <1>4

\* Each change of the row.
LEMMA RowKept ==
    ASSUME ConfigTypeOK, ConfigInv, NEW t \in Editor,
           Create(t) \/ UpdateWrites(t) \/ Delete(t)
    PROVE  /\ row.id <= row'.id
           /\ \/ dropped'
              \/ /\ MaskedKeys(row'.config) = {}
                 /\ \A p \in Page :
                       PageOK(p, row.id) /\ (dropped \/ PageMasks(p, row))
                       => PageMasks(p, row')
                 /\ \A q \in Request :
                       RequestOK(q, row.id) /\ (dropped \/ RequestMasks(q, row))
                       => RequestMasks(q, row')
<1> USE DEF ConfigTypeOK
<1>0. /\ RequestOK(req[t], row.id) /\ row.id \in Int
      /\ dropped \/ (RequestMasks(req[t], row) /\ MaskedKeys(row.config) = {})
  BY DEF ConfigInv
<1>1. ASSUME UNCHANGED <<row, dropped>>
      PROVE  /\ row.id <= row'.id
             /\ \/ dropped'
                \/ /\ MaskedKeys(row'.config) = {}
                   /\ \A p \in Page : dropped \/ PageMasks(p, row) => PageMasks(p, row')
                   /\ \A q \in Request :
                         dropped \/ RequestMasks(q, row) => RequestMasks(q, row')
  BY <1>0, <1>1
<1>2. CASE Create(t)
  <2>1. CASE row.here
    BY <1>1, <1>2, <2>1 DEF Create
  <2>2. CASE ~row.here
    <3>1. row'.id = row.id + 1 /\ row'.config = req[t].config
      BY <1>2, <2>2 DEF Create
    <3>2. MaskedKeys(row'.config) = {}
      BY <1>0, <1>2, <3>1 DEF RequestOK, Create
    <3>3. ASSUME NEW p \in Page, PageOK(p, row.id) PROVE PageMasks(p, row')
      <4>1. p.item.id \in Int /\ p.form.id \in Int
        BY DEF Page, Item, Form
      <4> QED
        BY <1>0, <3>1, <3>3, <4>1 DEF PageOK, PageMasks
    <3>4. ASSUME NEW q \in Request, RequestOK(q, row.id) PROVE RequestMasks(q, row')
      <4>1. q.id \in Int
        BY DEF Request
      <4> QED
        BY <1>0, <3>1, <3>4, <4>1 DEF RequestOK, RequestMasks
    <3> QED
      BY <1>0, <3>1, <3>2, <3>3, <3>4
  <2> QED
    BY <2>1, <2>2
<1>3. CASE UpdateWrites(t)
  <2>1. CASE ~(row.here /\ row.id = req[t].id)
    BY <1>1, <1>3, <2>1 DEF UpdateWrites
  <2>2. CASE row.here /\ row.id = req[t].id
    <3>1. /\ row'.id = row.id /\ row'.here
          /\ DOMAIN row'.config = DOMAIN req[t].current \cup DOMAIN req[t].config
          /\ \A k \in DOMAIN row'.config :
                row'.config[k] =
                   IF /\ k \in DOMAIN req[t].config
                      /\ ~(/\ IsSecretKey(k) /\ req[t].config[k] = Masked
                           /\ k \in DOMAIN req[t].current)
                   THEN req[t].config[k] ELSE req[t].current[k]
          /\ dropped => dropped'
          /\ ~dropped' => \A k \in DOMAIN row.config :
                             IsSecretKey(k) => k \in DOMAIN row'.config
      BY <1>3, <2>2, Written
    <3>2. SUFFICES ASSUME ~dropped'
                   PROVE  /\ MaskedKeys(row'.config) = {}
                          /\ \A p \in Page : PageMasks(p, row) => PageMasks(p, row')
                          /\ \A q \in Request :
                                RequestMasks(q, row) => RequestMasks(q, row')
      BY <1>0, <3>1
    <3>3. /\ MaskedKeys(req[t].config) \subseteq DOMAIN req[t].current
          /\ MaskedKeys(req[t].current) = {}
      BY <1>0, <1>3, <2>2, <3>1, <3>2 DEF RequestMasks, UpdateWrites
    <3>4. MaskedKeys(row'.config) = {}
      BY <3>1, <3>3 DEF MaskedKeys
    <3>5. ASSUME NEW c, MaskedKeys(c) \subseteq DOMAIN row.config
          PROVE  MaskedKeys(c) \subseteq DOMAIN row'.config
      BY <3>1, <3>2, <3>5 DEF MaskedKeys
    <3> QED
      BY <2>2, <3>1, <3>4, <3>5 DEF PageMasks, RequestMasks
  <2> QED
    BY <2>1, <2>2
<1>4. CASE Delete(t)
  <2>1. /\ row'.id = row.id /\ row'.config = row.config /\ dropped' = dropped
        /\ row'.here => row.here
    BY <1>4 DEF Delete
  <2> QED
    BY <1>0, <2>1 DEF PageMasks, RequestMasks
<1> QED
  BY <1>2, <1>3, <1>4

\* ConfigInv survives every step.
LEMMA ConfigInvStep ==
    ASSUME TypeOK, ConfigInv, [Next]_vars
    PROVE  ConfigInv'
<1> USE EditorAssumption DEF TypeOK
<1>0. row.id \in Int
  BY DEF ConfigTypeOK
<1>1. ASSUME UNCHANGED configVars PROVE ConfigInv'
  BY <1>1 DEF configVars, ConfigInv
<1>2. ASSUME NEW t \in Editor, UNCHANGED <<row, req, dropped>>,
             \A u \in Editor : PageOK(page'[u], row.id)
                               /\ (dropped \/ PageMasks(page'[u], row))
      PROVE  ConfigInv'
  BY <1>2 DEF ConfigInv
<1>3. ASSUME NEW t \in Editor, UNCHANGED <<row, page, dropped>>,
             \A u \in Editor : RequestOK(req'[u], row.id)
                               /\ (dropped \/ RequestMasks(req'[u], row))
      PROVE  ConfigInv'
  BY <1>3 DEF ConfigInv
<1>4. ASSUME NEW t \in Tab,
             Ask(t) \/ SignIn(t) \/ SignOut(t) \/ Arrive(t) \/ Lapse
      PROVE  ConfigInv'
  BY <1>1, <1>4 DEF Ask, SignIn, SignOut, Arrive, Lapse
<1>5. ASSUME NEW t \in Tab, Reload(t) \/ Edit(t) \/ Load(t) PROVE ConfigInv'
  <2>1. UNCHANGED <<row, req, dropped>>
    BY <1>5 DEF Reload, Edit, Load, HandleEdit, SelectType, ResetForm, TypeIn
  <2>2. CASE UNCHANGED page
    BY <2>1, <2>2 DEF ConfigInv
  <2>3. CASE page' # page
    <3>1. \/ HandleEdit(t) \/ SelectType(t) \/ EmptyForm(t)
          \/ \E k \in Leaves : TypeIn(t, k)
          \/ page' = [page EXCEPT ![t].item = Listed]
          \/ page' = [page EXCEPT ![t] = NewPage]
      BY <1>5, <2>3 DEF Reload, Edit, Load, ResetForm
    <3> QED
      BY <1>2, <2>1, <3>1, PageKept
  <2> QED
    BY <2>2, <2>3
<1>6. ASSUME NEW t \in Tab, Mutate(t) PROVE ConfigInv'
  <2>1. UNCHANGED configVars \/ Submit(t) \/ SubmitDelete(t)
    BY <1>6 DEF Mutate
  <2>2. CASE Submit(t) \/ SubmitDelete(t)
    BY <1>3, <2>2, RequestKept DEF Submit, SubmitDelete
  <2> QED
    BY <1>1, <2>1, <2>2
<1>7. ASSUME NEW t \in Tab, UpdateReads(t) PROVE ConfigInv'
  BY <1>3, <1>7, RequestKept DEF UpdateReads
<1>8. ASSUME NEW t \in Tab, Create(t) \/ UpdateWrites(t) \/ Delete(t)
      PROVE  ConfigInv'
  <2>1. /\ Answered(t)
        /\ UNCHANGED page \/ EmptyForm(t)
    BY <1>8 DEF Create, UpdateWrites, Delete
  <2>2. \A u \in Editor : /\ RequestOK(req'[u], row.id) /\ req'[u] \in Request
                          /\ dropped \/ RequestMasks(req'[u], row)
    BY <2>1, RequestKept, RequestStep
  <2>3. \A u \in Editor : /\ PageOK(page'[u], row.id) /\ page'[u] \in Page
                          /\ dropped \/ PageMasks(page'[u], row)
    <3>1. CASE UNCHANGED page
      BY <3>1 DEF ConfigInv, ConfigTypeOK
    <3>2. CASE EmptyForm(t)
      BY <3>2, PageKept, PageStep
    <3> QED
      BY <2>1, <3>1, <3>2
  <2>4. /\ row.id <= row'.id
        /\ \/ dropped'
           \/ /\ MaskedKeys(row'.config) = {}
              /\ \A u \in Editor : PageMasks(page'[u], row') /\ RequestMasks(req'[u], row')
    BY <1>8, <2>2, <2>3, RowKept
  <2>5. row'.id \in Int
    BY <1>8, RowStep DEF Stored
  <2>6. \A u \in Editor : PageOK(page'[u], row'.id) /\ RequestOK(req'[u], row'.id)
    <3>1. ASSUME NEW u \in Editor
          PROVE  /\ page'[u].item.id \in Int /\ page'[u].form.id \in Int
                 /\ req'[u].id \in Int
      BY <2>2, <2>3 DEF Page, Item, Form, Request
    <3>2. ASSUME NEW u \in Editor
          PROVE  /\ page'[u].item.id <= row'.id /\ page'[u].form.id <= row'.id
                 /\ req'[u].id <= row'.id
      <4>1. /\ page'[u].item.id <= row.id /\ page'[u].form.id <= row.id
            /\ req'[u].id <= row.id
        BY <2>2, <2>3 DEF PageOK, RequestOK
      <4> QED
        BY <1>0, <2>4, <2>5, <3>1, <4>1
    <3> QED
      BY <2>2, <2>3, <3>2 DEF PageOK, RequestOK
  <2> QED
    BY <2>4, <2>6 DEF ConfigInv
<1>9. CASE Lapse \/ UNCHANGED vars
  BY <1>1, <1>9 DEF Lapse, vars
<1> QED
  BY <1>4, <1>5, <1>6, <1>7, <1>8, <1>9 DEF Next, Serve

\* ConfigInv holds throughout.
LEMMA ConfigInvariant == Spec => []ConfigInv
<1>1. Init => ConfigInv
  <2> SUFFICES ASSUME Init PROVE ConfigInv
    OBVIOUS
  <2>1. ConfigTypeOK
    BY TypeInit DEF TypeOK
  <2>2. /\ \A t \in Editor : page[t] = NewPage /\ req[t] = NoReq
        /\ row.config \in StoredConfigs
    BY DEF Init, ConfigInit
  <2>3. MaskedKeys(row.config) = {}
    BY <2>2, StoredAssumption DEF MaskedKeys
  <2> QED
    BY <2>1, <2>2, <2>3, FreshOK DEF ConfigInv
<1>2. TypeOK /\ ConfigInv /\ [Next]_vars => ConfigInv'
  BY ConfigInvStep
<1> QED
  BY <1>1, <1>2, Typing, PTL DEF Spec

\* The placeholder never becomes the stored secret, for any number of tabs
\* with lists of any age, unless an update built on an older read removed a
\* secret that another save had added.
THEOREM PlaceholderNeverStored == Spec => []NoMaskStored
<1>1. ConfigInv => NoMaskStored
  BY DEF ConfigInv, NoMaskStored, MaskedKeys
<1> QED
  BY <1>1, ConfigInvariant, PTL

\* A save changes nothing but what was typed, the form's way of writing what
\* was there apart, unless it is built on a read or, for a value that is not
\* secret, on a list older than the row.
THEOREM SaveKeepsTheRest == Spec => SaveChangesOnlyEdits
<1> DEFINE Saved ==
       row.here /\ row'.here /\ ~dropped =>
          \E t \in Editor : \A k \in Leaves :
              \/ Leaf(row.config, k) = Leaf(row'.config, k)
              \/ Rewritten(k, Leaf(row.config, k), Leaf(row'.config, k))
              \/ k \in req[t].edited
              \/ req[t].current # row.config
              \/ ~IsSecretKey(k) /\ req[t].seen # RedactSecrets(row.config)
<1>1. ASSUME TypeOK, ConfigInv, [Next]_vars PROVE [Saved]_row
  <2> SUFFICES ASSUME row' # row, row.here, row'.here, ~dropped
               PROVE  Saved
    OBVIOUS
  <2> USE <1>1, EditorAssumption DEF TypeOK
  <2>1. PICK t \in Editor : Create(t) \/ UpdateWrites(t) \/ Delete(t)
    BY DEF Next, Ask, SignIn, SignOut, Arrive, Reload, Load, Edit, Mutate, Serve,
       Submit, SubmitDelete, UpdateReads, HandleEdit, TypeIn, SelectType,
       ResetForm, Lapse, configVars, vars
  <2>2. UpdateWrites(t) /\ row.id = req[t].id
    BY <2>1 DEF Create, Delete, UpdateWrites, ConfigTypeOK
  <2>3. /\ DOMAIN row'.config = DOMAIN req[t].current \cup DOMAIN req[t].config
        /\ \A k \in DOMAIN row'.config :
              row'.config[k] =
                 IF /\ k \in DOMAIN req[t].config
                    /\ ~(/\ IsSecretKey(k) /\ req[t].config[k] = Masked
                         /\ k \in DOMAIN req[t].current)
                 THEN req[t].config[k] ELSE req[t].current[k]
    BY <2>2, Written
  <2>4. /\ RequestOK(req[t], row.id)
        /\ MaskedKeys(req[t].config) \subseteq DOMAIN req[t].current
    BY <2>2 DEF ConfigInv, RequestMasks, UpdateWrites
  <2>5. ASSUME NEW k \in Leaves, k \notin req[t].edited, req[t].current = row.config,
               IsSecretKey(k) \/ req[t].seen = RedactSecrets(row.config)
        PROVE  \/ Leaf(row.config, k) = Leaf(row'.config, k)
               \/ Rewritten(k, Leaf(row.config, k), Leaf(row'.config, k))
    <3>1. CASE k \notin DOMAIN req[t].config
      BY <2>3, <2>5, <3>1 DEF Leaf
    <3>2. CASE k \in DOMAIN req[t].config
      <4>1. \/ k \in DOMAIN req[t].seen /\ req[t].config[k] = req[t].seen[k]
            \/ /\ ~IsSecretKey(k)
               /\ Rewritten(k, Leaf(req[t].seen, k), req[t].config[k])
        BY <2>4, <2>5, <3>2 DEF RequestOK
      <4>2. CASE IsSecretKey(k)
        <5>1. req[t].config[k] = Masked
          BY <2>4, <4>1, <4>2 DEF RequestOK, SecretsHidden
        <5>2. k \in DOMAIN req[t].current
          BY <2>4, <3>2, <4>2, <5>1 DEF MaskedKeys
        <5> QED
          BY <2>3, <2>5, <4>2, <5>1, <5>2 DEF Leaf
      <4>3. CASE ~IsSecretKey(k)
        <5>1. row.config \in Config
          BY DEF ConfigTypeOK
        <5>2. Leaf(req[t].seen, k) = Leaf(row.config, k)
          BY <2>5, <4>3, <5>1, Redacted DEF Leaf
        <5>3. Leaf(row'.config, k) = req[t].config[k]
          BY <2>3, <3>2, <4>3 DEF Leaf
        <5> QED
          BY <4>1, <5>2, <5>3 DEF Leaf
      <4> QED
        BY <4>2, <4>3
    <3> QED
      BY <3>1, <3>2
  <2> QED
    BY <2>5
<1> QED
  BY <1>1, Typing, ConfigInvariant, PTL DEF Spec, SaveChangesOnlyEdits
=============================================================================
