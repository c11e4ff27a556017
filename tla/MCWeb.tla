------------------------------- MODULE MCWeb -------------------------------
(***************************************************************************)
(* One instance for TLC of the parts of the web interface that share no    *)
(* state: the page of a plan, the dialog of the household's settings and   *)
(* the cards of the providers in it.  A behaviour follows one of them; the *)
(* others stay as they are.                                                *)
(***************************************************************************)
EXTENDS PlanPage, Settings, Integrations

VARIABLE focus

PageRests == Init /\ route = Home /\ ~calm /\ \A p \in PlanIds : plans[p].status # "ordered"
SettingsRest == SettingsInit /\ lang = "sv" /\ household = [f \in Fields |-> "sv"]
CardsRest == IntegrationsInit /\ ~steady /\ providers = [k \in Kinds |-> Empty]

WebInit ==
    \/ focus = "page" /\ Init /\ SettingsRest /\ CardsRest
    \/ focus = "settings" /\ PageRests /\ SettingsInit /\ CardsRest
    \/ focus = "integrations" /\ PageRests /\ SettingsRest /\ IntegrationsInit

WebNext ==
    \/ focus = "page" /\ Next /\ UNCHANGED <<focus, settingsVars, integrationsVars>>
    \/ focus = "settings" /\ SettingsNext /\ UNCHANGED <<focus, vars, integrationsVars>>
    \/ focus = "integrations" /\ IntegrationsNext /\ UNCHANGED <<focus, vars, settingsVars>>

WebSpec == WebInit /\ [][WebNext]_<<focus, vars, settingsVars, integrationsVars>>

\* The type invariants of the parts.
WebTypeOK == TypeOK /\ SettingsTypeOK /\ IntegrationsTypeOK
=============================================================================
