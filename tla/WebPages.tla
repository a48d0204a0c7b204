------------------------------- MODULE WebPages -------------------------------
(***************************************************************************)
(* The programs that face people: the store in the customer's browser      *)
(* (Shop), the demo merchant's content service (TechShopCms), and three    *)
(* parts of the portals: the canvas of a merchant's route, whose layout is *)
(* saved while nodes are dragged on (MerchantCanvas), the exports, which   *)
(* are polled (PaymentExports), and the merchants' e-mails                 *)
(* (EmailNotifications).  They share no state; a behaviour is one of one   *)
(* program.                                                                *)
(***************************************************************************)
EXTENDS Shop, TechShopCms, MerchantCanvas, PaymentExports, EmailNotifications

VARIABLE program   \* whose behaviour this is

pageVars == <<net, canvasVars, exportVars, mailVars>>
webVars == <<program, shopVars, cmsVars, pageVars>>

Init ==
    /\ ShopInit /\ CmsInit /\ NetInit /\ CanvasInit /\ ExportInit /\ MailInit
    /\ program \in {"shop", "cms", "canvas", "exports", "mails"}

Next ==
    /\ UNCHANGED program
    /\ \/ program = "shop" /\ ShopNext /\ UNCHANGED <<cmsVars, pageVars>>
       \/ program = "cms" /\ CmsNext /\ UNCHANGED <<shopVars, pageVars>>
       \/ program = "canvas" /\ CanvasNext /\ UNCHANGED <<shopVars, cmsVars, exportVars, mailVars>>
       \/ program = "exports" /\ ExportNext /\ UNCHANGED <<shopVars, cmsVars, canvasVars, mailVars>>
       \/ program = "mails" /\ MailsNext /\ UNCHANGED <<shopVars, cmsVars, net, canvasVars, exportVars>>

\* In another program's behaviour the steps the fairness is about are never enabled.
Spec == Init /\ [][Next]_webVars /\ ShopFairness /\ ExportFairness /\ MailFairness
=============================================================================
