----------------------------- MODULE AdminConsole -----------------------------
(***************************************************************************)
(* The target systems page behind the admin middleware: what a tab asks of *)
(* TargetSystemConfig, AdminAuth lets through or refuses.                  *)
(***************************************************************************)
EXTENDS AdminAuth, TargetSystemConfig

ASSUME EditorAssumption == Editor = Tab

vars == <<authVars, configVars>>

TypeOK == AuthTypeOK /\ ConfigTypeOK

Init == AuthInit /\ ConfigInit

CanAsk(t) == tab[t].screen = "app" /\ Quiet(t)

\* GET /admin/target-systems: a safe method needs no token.  A list without
\* a Set-Cookie arrives at once.
Load(t) ==
    /\ CanAsk(t) /\ ~Busy(t)
    /\ \E session \in Session \cup {None}, newCookie \in Session \cup {Keep} :
          /\ Authenticated(session, newCookie)
          /\ IF session = None
             THEN Refused(t, newCookie) /\ UNCHANGED page
             ELSE /\ IF newCookie = Keep THEN UNCHANGED reply
                     ELSE Answer(t, "list", newCookie, None)
                  /\ page' = [page EXCEPT ![t].item = Listed]
    /\ UNCHANGED <<mode, cookie, tab, left, row, req, saves, dropped>>

\* PATCH, POST and DELETE.
Mutate(t) ==
    /\ CanAsk(t)
    /\ \E session \in Session \cup {None}, newCookie \in Session \cup {Keep} :
          /\ Authenticated(session, newCookie)
          /\ IF VerifyCsrf(t, session)
             THEN (Submit(t) \/ SubmitDelete(t)) /\ UNCHANGED reply
             ELSE /\ ~Busy(t)
                  /\ Refused(t, newCookie) /\ UNCHANGED configVars
    /\ UNCHANGED <<mode, cookie, tab, left>>

\* A save that will be refused.
Retry(t) == Mutate(t) /\ ~Usable(t)

Reload(t) ==
    /\ ~Busy(t)
    /\ ReloadTab(t)
    /\ page' = [page EXCEPT ![t] = NewPage]
    /\ UNCHANGED <<row, req, saves, dropped>>

\* The form is there while the page is.
Edit(t) ==
    /\ tab[t].screen = "app"
    /\ \/ HandleEdit(t) \/ SelectType(t) \/ ResetForm(t)
       \/ \E k \in Leaves : TypeIn(t, k)
    /\ UNCHANGED authVars

Serve(t) ==
    /\ Create(t) \/ UpdateReads(t) \/ UpdateWrites(t) \/ Delete(t)
    /\ UNCHANGED authVars

SignIn(t) == (LoginLocal(t) \/ LoginSso(t)) /\ UNCHANGED configVars
Arrive(t) == Deliver(t) /\ UNCHANGED configVars
Ask(t)    == FetchAuthSession(t) /\ UNCHANGED configVars
SignOut(t) == Logout(t) /\ ~Busy(t) /\ UNCHANGED configVars
Lapse == (\E n \in Session : Expire(n)) /\ UNCHANGED configVars

Next ==
    \/ \E t \in Tab :
          \/ Ask(t) \/ SignIn(t) \/ SignOut(t) \/ Arrive(t) \/ Reload(t)
          \/ Load(t) \/ Edit(t) \/ Mutate(t) \/ Serve(t)
    \/ Lapse

(***************************************************************************)
(* Requests are served and answered; an administrator whose save was       *)
(* refused loads the page anew, signs in when asked to, and tries again.   *)
(***************************************************************************)
Fairness ==
    \A t \in Tab :
        /\ WF_vars(Arrive(t)) /\ WF_vars(Ask(t)) /\ WF_vars(Serve(t))
        /\ SF_vars(SignIn(t))
        /\ SF_vars(Reload(t) /\ tab[t].error)
        /\ WF_vars(Retry(t))

Spec == Init /\ [][Next]_vars
FairSpec == Spec /\ Fairness

-----------------------------------------------------------------------------
(***************************************************************************)
(* No tab changes anything with the token of a session the browser has     *)
(* logged out of, in whatever tab and whatever else was on its way, though *)
(* the server has no record of a logout.                                   *)
(***************************************************************************)
LogoutIsFinal ==
    [][\A t \in Tab : ~Busy(t) /\ Busy(t)' => tab[t].csrf \notin left]_vars

(***************************************************************************)
(* A tab whose save was refused, because its token was overtaken by a      *)
(* login, a logout, an expiry or a session the proxy's headers made, can   *)
(* save again after a reload and, if asked for, a login; the same again if *)
(* that is overtaken too, as long as the bound leaves it sessions to make. *)
(***************************************************************************)
RefusedTabRecovers ==
    \A t \in Tab : tab[t].error ~> (Usable(t) \/ made = MaxSessions)
=============================================================================
