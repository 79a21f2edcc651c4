--------------------------- MODULE MCInstallData ---------------------------
(* The files of base, customer and coin for TLC, cut to a few entries: two   *)
(* modules install cron jobs, plans are deleted with their product, and a    *)
(* price has a key to its plan, which is set to NULL, and one to its         *)
(* currency, which is neither.                                               *)
EXTENDS InstallData, TLC

CONSTANTS twd, syncPayment, applyStrategy, bot, trial, signal, month, price

MCEntries == {twd, syncPayment, applyStrategy, bot, trial, signal, month, price}

MCModuleOf ==
  (twd :> "base") @@ (syncPayment :> "customer") @@
  [e \in {applyStrategy, bot, trial, signal, month, price} |-> "coin"]

MCTableOf ==
  (twd :> "currency") @@ [e \in {syncPayment, applyStrategy} |-> "cron_job"] @@
  [e \in {bot, signal} |-> "product"] @@ [e \in {trial, month} |-> "plan"] @@
  (price :> "plan_price")

MCForeignOf ==
  (trial :> {bot}) @@ (month :> {signal}) @@ (price :> {month, twd}) @@
  [e \in MCEntries |-> {}]

MCCascades == {<<"plan", "product">>}
MCNullifies == {<<"plan_price", "plan">>}
MCReferred == {"plan", "cron_job"}

MCFiles == << <<"base", "currency">>, <<"customer", "cron_job">>, <<"coin", "product">>,
              <<"coin", "plan">>, <<"coin", "plan_price">>, <<"coin", "cron_job">> >>

\* One product after the other or beside it, without its plan at first; cron jobs that are
\* gone; and a currency that is gone with its price.
MCVersions ==
  {MCEntries, MCEntries \ {signal, month, price}, MCEntries \ {bot, trial},
   MCEntries \ {bot, trial, month, price},
   MCEntries \ {bot, syncPayment, applyStrategy, twd, price}}
=============================================================================
