--------------------------- MODULE MCAdminConsole ---------------------------
(***************************************************************************)
(* Two tabs, one target system, three saves, three sessions.               *)
(***************************************************************************)
EXTENDS AdminConsole, FiniteSets

CONSTANTS t1, t2

MCModes == {"local", "both"}

MCNumbers == {"#5"}
MCStringOf == [v \in MCNumbers |-> "5"]
MCParsedAs == [text \in {"5"} |-> "#5"]
MCText == {"old", "new", Masked, Empty, "5", True, False} \cup MCNumbers

\* A policy without jitter, whose number is stored as a text or is none.
MCStoredConfigs ==
    {[k \in Leaves \ {Jitter} |->
        CASE k = "timeout" -> "#5" [] k \in PolicyNumbers -> retries [] OTHER -> "old"] :
     retries \in {"5", "old"}}

MCNewValues ==
    [k \in Leaves |-> CASE k = Jitter -> {False} [] k = "timeout" -> {}
                        [] k \in PolicyNumbers -> {"5", "new"} [] OTHER -> {"new"}]

(***************************************************************************)
(* Sessions and edits meet in the guard of Mutate only, so a behaviour is  *)
(* followed in one of two directions: sessions come and go while the first *)
(* tab edits the URL and saves, or one session serves two tabs that do     *)
(* everything the page offers, a leaf at a time.                           *)
(***************************************************************************)
Sessions ==
    /\ page[t2].form = NewForm /\ ~Busy(t2)
    /\ page[t1].edited \subseteq {"baseUrl"} /\ page[t1].form.type = "passwork"
    /\ page[t2].item = NoItem /\ saves <= 1
    /\ row.here /\ Leaf(row.config, "baseUrl") = "old"
    /\ made >= 2 => /\ Leaf(row.config, "retryPolicy.maxRetries") = "5"
                     /\ page[t1].form = NewForm
    /\ made = MaxSessions => page[t1] = NewPage /\ saves = 0

Editing ==
    /\ mode = "local" /\ made = 1 /\ cookie = 1 /\ live = {1}
    /\ \A t \in Tab : /\ tab[t] = [screen |-> "app", csrf |-> 1, error |-> FALSE]
                       /\ Quiet(t)
                       /\ Cardinality(page[t].edited) <= 1
    /\ page[t1].edited \subseteq {"baseUrl"} \cup RetryKeys
    /\ page[t2].form.type = "passwork" /\ page[t2].edited \subseteq {"accessToken"}
    /\ page[t2].edited # {} => page[t2].form.id # 0
    /\ req[t2].pc # "delete"
    /\ saves = 3 => row.id = 2
    /\ saves >= 2 + row.id - 1 => \A t \in Tab : Busy(t) \/ page[t].form = NewForm

OneConcern == Sessions \/ Editing
=============================================================================
