----------------------------- MODULE PortalPages -----------------------------
(***************************************************************************)
(* Pages of the two portals with the handlers behind them: the admin's     *)
(* drawer of a merchant's route (RouteDrawer), a merchant's API keys       *)
(* (ApiKeyPages), account (MerchantForms) and webhooks (WebhookEndpoints,  *)
(* with the dispatcher that calls them), and the filtered lists of both    *)
(* portals (ListPages).  Each behaviour is one of one page; they meet in   *)
(* Inertia's router.                                                       *)
(***************************************************************************)
EXTENDS RouteDrawer, ApiKeyPages, MerchantForms, ListPages, WebhookEndpoints

VARIABLE shownPage   \* whose behaviour this is

portalVars == <<shownPage, net, drawerVars, apiKeyVars, formVars, listVars, hookVars>>

\* A page that is not shown stands at one of its beginnings, it does not matter which.
Init ==
    /\ NetInit /\ DrawerInit /\ ApiKeyInit /\ FormInit /\ ListInit /\ HookInit
    /\ shownPage \in {"drawer", "keys", "forms", "list", "webhooks"}
    /\ shownPage # "keys" => keys = <<>> /\ keyPage.name = "edit"
    /\ shownPage # "forms" => merchant = Nothing
    /\ shownPage # "list" => listPage.list = SaasKeys
    /\ shownPage # "webhooks" => endpoints = <<>>

Next ==
    /\ UNCHANGED shownPage
    /\ \/ shownPage = "drawer" /\ DrawerNext /\ UNCHANGED <<apiKeyVars, formVars, listVars, hookVars>>
       \/ shownPage = "keys" /\ ApiKeyNext /\ UNCHANGED <<drawerVars, formVars, listVars, hookVars>>
       \/ shownPage = "forms" /\ FormNext /\ UNCHANGED <<drawerVars, apiKeyVars, listVars, hookVars>>
       \/ shownPage = "list" /\ ListNext /\ UNCHANGED <<drawerVars, apiKeyVars, formVars, hookVars>>
       \/ shownPage = "webhooks" /\ HookNext /\ UNCHANGED <<drawerVars, apiKeyVars, formVars, listVars>>

Spec == Init /\ [][Next]_portalVars
=============================================================================
