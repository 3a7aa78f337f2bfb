---------------------------- MODULE ConsoleViews ----------------------------
(***************************************************************************)
(* The views of the console (frontend/src/views) as data: what each of     *)
(* their handlers asks of the server, when the page lets it run, and what  *)
(* it does with the answer.  Console gives these records their meaning.    *)
(*                                                                         *)
(* A handler is a function of the view's script together with the buttons  *)
(* that call it:                                                           *)
(*   on      where it is called: in an open form, on the page beneath, or  *)
(*           by the view itself (its mount, a timer, a message)            *)
(*   form    the form it is about;  opens: it opens that form              *)
(*   sends   "list" reads what the page shows, "change" alters what is     *)
(*           there, "create" may add something new, "replace" writes a     *)
(*           whole list back, "aside" concerns nothing the page lists      *)
(*   flag    the busy flag it raises;  off, when: the flags that keep it   *)
(*           away, and those it needs, by early returns, disabled buttons  *)
(*   done, fail   what the answer, or an error, makes it do                *)
(*   next    the request that follows the answer, unless it opens or fills *)
(*           a form instead                                                *)
(*   held    the flag stays up until what follows has been answered too    *)
(*   early   the row on the page is altered before the request is sent     *)
(* A view has the handler of its mount, the list a change makes it read    *)
(* again, whether pages and filters read it whatever is in flight, the     *)
(* flags that keep each form from being closed, the forms a button opens,  *)
(* the handler of its timer, and whether a button drops what it waits for. *)
(***************************************************************************)
EXTENDS Naturals

None == "none"
Page == "page"
View == "view"

Handler(v, name, sends) ==
    [view |-> v, name |-> name, sends |-> sends, on |-> Page, form |-> None, opens |-> FALSE,
     flag |-> None, off |-> {}, when |-> {}, done |-> {}, fail |-> {}, next |-> None,
     held |-> FALSE, early |-> FALSE]
About(h, form)   == [h EXCEPT !.form = form]
In(h, form)      == [h EXCEPT !.on = form, !.form = form]
Opening(h, form) == [h EXCEPT !.form = form, !.opens = TRUE]
Unasked(h)       == [h EXCEPT !.on = View]
Raises(h, f)     == [h EXCEPT !.flag = f]
Off(h, set)      == [h EXCEPT !.off = @ \cup set]
Guarded(h, f)    == Off(Raises(h, f), {f})
Held(h)          == [h EXCEPT !.held = TRUE]
Follow(h, name)  == [h EXCEPT !.next = name]
Then(h, effects) == [h EXCEPT !.done = @ \cup effects]
Else(h, effects) == [h EXCEPT !.fail = @ \cup effects]
Arms(h)          == Else(Then(h, {"arm"}), {"arm"})
Always(h)        == Else(Then(h, {"reload"}), {"reload"})

List(v, name)       == Handler(v, name, "list")
Load(v, name)       == Unasked(List(v, name))
Change(v, name)     == Then(Handler(v, name, "change"), {"reload"})
Create(v, name)     == [Change(v, name) EXCEPT !.sends = "create"]
Patch(v, name)      == Then(Handler(v, name, "change"), {"patch"})
Aside(v, name)      == Handler(v, name, "aside")
Save(v, name, form) == In(Then(Create(v, name), {"close"}), form)

Shows(mount, list) == [mount |-> mount, list |-> list, turns |-> FALSE, forms |-> << >>,
                       opens |-> {}, tick |-> None, drops |-> FALSE]
Form(v, kind, shut) ==
    [v EXCEPT !.forms = [k \in DOMAIN @ \cup {kind} |-> IF k = kind THEN shut ELSE @[k]],
              !.opens = @ \cup {kind}]
Turns(v)    == [v EXCEPT !.turns = TRUE]
Ticks(v, h) == [v EXCEPT !.tick = h]
Drops(v)    == [v EXCEPT !.drops = TRUE]

-----------------------------------------------------------------------------
(* views/admin/GroupsView.vue *)
GroupsLoad   == Load("groups", "load")
GroupsSaveAnyTime == Held(Raises(Save("groups", "save", "form"), "saving"))
GroupsSave   == Held(Guarded(Save("groups", "save", "form"), "saving"))
GroupsRemove == Held(Follow(Then(Guarded(About(Aside("groups", "remove"), "dialog"), "deleting"), {"open"}), "delete"))
GroupsDelete == Held(Unasked(Change("groups", "delete")))
GroupsUnbind == Guarded(In(Then(Change("groups", "unbind"), {"close"}), "dialog"), "deleting")
GroupsToggle == Change("groups", "toggle")
GroupsView   == [Form(Form(Shows("load", "load"), "form", {"saving"}), "dialog", {"deleting"})
                     EXCEPT !.opens = {"form"}]

(* views/admin/UsersView.vue *)
UsersLoad  == List("users", "load")
UsersEdit  == Opening(Else(Then(Aside("users", "edit"), {"fill"}), {"close"}), "form")
UsersSave  == Follow(In(Handler("users", "save", "change"), "form"), "rates")
UsersRates == About(Unasked(Then(Change("users", "rates"), {"close"})), "form")
UsersView  == [Turns(Form(Shows("load", "load"), "form", {})) EXCEPT !.opens = {}]

(* views/admin/PricesView.vue, ModelsView.vue: a save overwrites an entry  *)
(* of the same name; ProxiesView.vue; RedeemView.vue                       *)
PricesLoad     == Load("prices", "load")
PricesSave     == In(Then(Change("prices", "save"), {"close"}), "form")
PricesRemove   == Always(Change("prices", "remove"))
PricesView     == Form(Shows("load", "load"), "form", {})
ModelsLoad     == Load("models", "load")
ModelsSave     == In(Then(Change("models", "save"), {"close"}), "form")
ModelsRemove   == Always(Change("models", "remove"))
ModelsView     == Form(Shows("load", "load"), "form", {})
ProxiesLoad    == Load("proxies", "load")
ProxiesSave    == Save("proxies", "save", "form")
ProxiesTest    == Raises(Aside("proxies", "test"), "testing")
ProxiesRemove  == Change("proxies", "remove")
ProxiesView    == Form(Shows("load", "load"), "form", {})
RedeemLoad     == Load("redeem", "load")
RedeemGenerate == In(Then(Create("redeem", "generate"), {"fill"}), "form")
RedeemRemove   == Always(Change("redeem", "remove"))
RedeemView     == Form(Shows("load", "load"), "form", {})

(* views/admin/AlertsView.vue; the tabs for silences and system logs each  *)
(* read their own list when they are shown                                 *)
AlertsLoad        == Guarded(List("alerts", "load"), "loading")
AlertsRules       == Load("alerts", "rules")
AlertsSave        == Held(Guarded(Save("alerts", "save", "form"), "saving"))
AlertsRemove      == Change("alerts", "remove")
AlertsToggle      == Change("alerts", "toggle")
AlertsAcknowledge == Change("alerts", "acknowledge")
AlertsView        == Turns(Form(Shows("load", "rules"), "form", {}))
SilencesLoad      == Load("silences", "load")
SilencesCreate    == Always(Create("silences", "create"))
SilencesRemove    == Always(Change("silences", "remove"))
SilencesView      == Shows("load", "load")
LogsLoad          == Load("logs", "load")
LogsClear         == Always(Change("logs", "clear"))
LogsView          == Shows("load", "load")

(* views/admin/BackupsView.vue *)
BackupsLoad    == Guarded(List("backups", "load"), "loading")
BackupsPolicy  == Guarded(Patch("backups", "policy"), "saving")
BackupsCleanup == Held(Guarded(Change("backups", "cleanup"), "cleaning"))
BackupsCreate  == Held(Guarded(Create("backups", "create"), "creating"))
BackupsRemove  == Change("backups", "remove")
BackupsView    == Shows("load", "load")

(* views/admin/UpdatesView.vue: the page waits while an update is under    *)
(* way; its timer is set again by each answer                              *)
UpdatesLoad    == Off(Guarded(Then(List("updates", "load"), {"arm", "look"}), "loading"), {"requesting", "waiting"})
UpdatesPoll    == Then(Load("updates", "poll"), {"arm", "look"})
UpdatesRequest == Off(Guarded(Arms(Then([Patch("updates", "request") EXCEPT !.sends = "create"], {"wait"})), "requesting"),
                      {"waiting"})
UpdatesView    == Ticks(Shows("load", "load"), "poll")

(* views/admin/ReferralsView.vue *)
ReferralsLoad       == Load("referrals", "load")
ReferralsConfig     == Guarded(Change("referrals", "config"), "payoutBusy")
ReferralsAccount    == Change("referrals", "account")
ReferralsAddAccount == Change("referrals", "addAccount")
ReferralsPayout     == Change("referrals", "payout")
ReferralsCreate     == Guarded(Create("referrals", "create"), "busy")
ReferralsSave       == Change("referrals", "save")
ReferralsToggle     == [Change("referrals", "toggle") EXCEPT !.early = TRUE]
ReferralsRemove     == Change("referrals", "remove")
ReferralsView       == Shows("load", "load")

(* views/admin/PaymentView.vue; the ledger tab has a list of its own, which *)
(* refunds read again as well                                              *)
PaymentLoad      == Else(Follow(Off(List("payment", "load"), {"ledgerBusy"}), "ledger"), {"next"})
PaymentLedger    == Unasked(Raises(Aside("payment", "ledger"), "ledgerBusy"))
PaymentConfig    == Guarded(Patch("payment", "config"), "configBusy")
PaymentProvider  == Guarded(Save("payment", "provider", "form"), "providerBusy")
PaymentRemove    == Change("payment", "remove")
PaymentRefund    == Follow(Patch("payment", "refund"), "ledger")
PaymentReconcile == Follow(Patch("payment", "reconcile"), "ledger")
PaymentView      == Form(Shows("load", "load"), "form", {})
LedgerLoad       == Raises(Load("ledger", "load"), "ledgerBusy")
LedgerView       == Turns(Shows("load", "load"))

(* views/admin/SettingsView.vue: what save sends depends on the section    *)
SettingsLoad   == Held(Follow(Raises(Load("settings", "load"), "loading"), "audit"))
SettingsAudit  == Unasked(Aside("settings", "audit"))
SettingsSave   == Held(Off(Guarded(Then(Change("settings", "save"), {"patch"}), "saving"), {"loading"}))
SettingsImage  == Off(Guarded(Patch("settings", "image"), "saving"), {"loading"})
SettingsPolicy == Held(Follow(Off(Guarded(Patch("settings", "policy"), "saving"), {"loading"}), "audit"))
SettingsEmail  == Guarded(Aside("settings", "email"), "emailTesting")
SettingsProbe  == Aside("settings", "probe")
SettingsView   == Shows("load", "load")
AuditLoad      == Guarded(List("audit", "load"), "auditLoading")
AuditView      == Shows("load", "load")

(* views/admin/MonitoringView.vue: the interval is set after the first list *)
MonitoringMount   == Follow(Unasked(Aside("monitoring", "mount")), "first")
MonitoringFirst   == Arms(Raises(Load("monitoring", "first"), "loading"))
MonitoringLoad    == Raises(List("monitoring", "load"), "loading")
MonitoringTick    == Guarded(Load("monitoring", "tick"), "loading")
MonitoringResolve == Always(Change("monitoring", "resolve"))
MonitoringProbes  == Always(Guarded(Aside("monitoring", "probes"), "probingAll"))
MonitoringProbe   == Held(Always(Raises(Aside("monitoring", "probe"), "probing")))
MonitoringView    == Ticks(Turns(Shows("mount", "load")), "tick")

(* views/admin/ErrorCenterView.vue *)
ErrorsLoad    == Guarded(List("errors", "load"), "loading")
ErrorsResolve == In(Then(Change("errors", "resolve"), {"close"}), "detail")
ErrorsBatch   == Held(Guarded(Change("errors", "batch"), "resolving"))
ErrorsView    == Turns(Form(Shows("load", "load"), "detail", {}))

(* views/admin/CreationLibraryView.vue, views/CreationLibraryView.vue: a    *)
(* toggle sends the whole selection                                        *)
LibraryLoad  == Raises(Load("library", "load"), "loading")
LibrarySave  == Off(Guarded(Patch("library", "save"), "saving"), {"loading"})
LibraryView  == Shows("load", "load")
SkillsLoad   == Raises(Load("skills", "load"), "loading")
SkillsToggle == [Patch("skills", "toggle") EXCEPT !.sends = "replace"]
SkillsView   == Shows("load", "load")

(* views/admin/UsageView.vue, views/UsageView.vue *)
UsageMount == Follow(Unasked(Aside("usage", "mount")), "first")
UsageFirst == Raises(Load("usage", "first"), "loading")
UsageLoad  == Guarded(List("usage", "load"), "loading")
UsageView  == Turns(Shows("mount", "load"))
RecordsLoad == Load("records", "load")
RecordsView == Turns(Shows("load", "load"))

(* views/ReferralView.vue *)
ReferralLoad    == Raises(List("referral", "load"), "loading")
ReferralAccount == Guarded(Change("referral", "account"), "payoutBusy")
ReferralPayout  == Guarded(Create("referral", "payout"), "payoutBusy")
ReferralCode    == Change("referral", "code")
ReferralBind    == Change("referral", "bind")
ReferralView    == Shows("load", "load")

(* views/WalletView.vue: the page waits while an order is to be paid, one   *)
(* that was created or one that a list shows to be pending; the interval is *)
(* set after the first list and the first poll, whatever they bring         *)
WalletMount  == Else(Follow(Arms(Raises(Then(Load("wallet", "mount"), {"adopt"}), "loadingPayment")), "first"), {"next"})
WalletFirst  == [Unasked(Arms(Guarded(Then(Aside("wallet", "first"), {"look"}), "polling"))) EXCEPT !.when = {"waiting"}]
WalletLoad   == Raises(Then(List("wallet", "load"), {"adopt"}), "loadingPayment")
WalletRedeem == Raises(Aside("wallet", "redeem"), "redeeming")
WalletCreate == Guarded(Then([Patch("wallet", "create") EXCEPT !.sends = "create"], {"wait"}), "paymentBusy")
WalletVerify == Then(Patch("wallet", "verify"), {"glance"})
WalletPollBlind == [Unasked(Guarded(Aside("wallet", "poll"), "polling")) EXCEPT !.when = {"waiting"}]
WalletPoll   == [Unasked(Guarded(Then(Aside("wallet", "poll"), {"look"}), "polling")) EXCEPT !.when = {"waiting"}]
WalletView   == Drops(Ticks(Shows("mount", "load"), "poll"))

(* views/KeysView.vue: a form shows the key it was opened for              *)
KeysLoad     == Load("keys", "load")
KeysCreate   == Held(Guarded(In(Then(Create("keys", "create"), {"fill"}), "create"), "creating"))
KeysToggle   == Always(Change("keys", "toggle"))
KeysRemove   == Always(Change("keys", "remove"))
KeysSettings == Held(Guarded(In(Then(Change("keys", "settings"), {"close"}), "settings"), "saving"))
KeysSetup    == Opening(Then(Aside("keys", "setup"), {"fill"}), "setup")
KeysRotate   == In(Then(Create("keys", "rotate"), {"open"}), "setup")
KeysView     == Form(Form(Form(Shows("load", "load"), "create", {"creating"}), "settings", {"saving"}), "setup", {})

(* views/admin/AccountsView.vue: the window of an OAuth login tells the     *)
(* page when the account has been added                                    *)
AccountsLoad     == Load("accounts", "load")
AccountsSave     == Held(Guarded(Save("accounts", "save", "form"), "saving"))
AccountsGroups   == Held(Guarded(In(Then(Change("accounts", "groups"), {"close"}), "form"), "saving"))
AccountsRemove   == Always(Change("accounts", "remove"))
AccountsOAuth    == Off(Follow(Guarded(In(Then(Aside("accounts", "oauth"), {"fill"}), "form"), "oauthStarting"), "message"),
                        {"oauthCompleting"})
AccountsMessage  == About(Unasked(Then(Create("accounts", "message"), {"close"})), "form")
AccountsComplete == Held(Guarded(Save("accounts", "complete", "form"), "oauthCompleting"))
AccountsOptions  == Guarded(In(Aside("accounts", "options"), "form"), "optionsLoading")
AccountsInline   == Guarded(In(Then(Aside("accounts", "inline"), {"fill"}), "form"), "groupSaving")
AccountsImport   == In(Then(Create("accounts", "import"), {"fill"}), "import")
AccountsOrder    == Always(Change("accounts", "order"))
AccountsQuota    == Guarded(Aside("accounts", "quota"), "refreshing")
AccountsView     == Turns(Form(Form(Shows("load", "load"), "form", {"saving", "oauthStarting", "oauthCompleting"}), "import", {}))

-----------------------------------------------------------------------------
HandlerOf ==
    [groups |-> [load |-> GroupsLoad, save |-> GroupsSave, remove |-> GroupsRemove,
                 delete |-> GroupsDelete, unbind |-> GroupsUnbind, toggle |-> GroupsToggle],
     users |-> [load |-> UsersLoad, edit |-> UsersEdit, save |-> UsersSave, rates |-> UsersRates],
     prices |-> [load |-> PricesLoad, save |-> PricesSave, remove |-> PricesRemove],
     models |-> [load |-> ModelsLoad, save |-> ModelsSave, remove |-> ModelsRemove],
     proxies |-> [load |-> ProxiesLoad, save |-> ProxiesSave, test |-> ProxiesTest,
                  remove |-> ProxiesRemove],
     redeem |-> [load |-> RedeemLoad, generate |-> RedeemGenerate, remove |-> RedeemRemove],
     alerts |-> [load |-> AlertsLoad, rules |-> AlertsRules, save |-> AlertsSave,
                 remove |-> AlertsRemove, toggle |-> AlertsToggle,
                 acknowledge |-> AlertsAcknowledge],
     silences |-> [load |-> SilencesLoad, create |-> SilencesCreate, remove |-> SilencesRemove],
     logs |-> [load |-> LogsLoad, clear |-> LogsClear],
     backups |-> [load |-> BackupsLoad, policy |-> BackupsPolicy, cleanup |-> BackupsCleanup,
                  create |-> BackupsCreate, remove |-> BackupsRemove],
     updates |-> [load |-> UpdatesLoad, poll |-> UpdatesPoll, request |-> UpdatesRequest],
     referrals |-> [load |-> ReferralsLoad, config |-> ReferralsConfig,
                    account |-> ReferralsAccount, addAccount |-> ReferralsAddAccount,
                    payout |-> ReferralsPayout, create |-> ReferralsCreate,
                    save |-> ReferralsSave, toggle |-> ReferralsToggle,
                    remove |-> ReferralsRemove],
     payment |-> [load |-> PaymentLoad, ledger |-> PaymentLedger, config |-> PaymentConfig,
                  provider |-> PaymentProvider, remove |-> PaymentRemove,
                  refund |-> PaymentRefund, reconcile |-> PaymentReconcile],
     ledger |-> [load |-> LedgerLoad],
     settings |-> [load |-> SettingsLoad, audit |-> SettingsAudit, save |-> SettingsSave,
                   image |-> SettingsImage, policy |-> SettingsPolicy,
                   email |-> SettingsEmail, probe |-> SettingsProbe],
     audit |-> [load |-> AuditLoad],
     monitoring |-> [mount |-> MonitoringMount, first |-> MonitoringFirst, load |-> MonitoringLoad,
                     tick |-> MonitoringTick, resolve |-> MonitoringResolve,
                     probes |-> MonitoringProbes, probe |-> MonitoringProbe],
     errors |-> [load |-> ErrorsLoad, resolve |-> ErrorsResolve, batch |-> ErrorsBatch],
     library |-> [load |-> LibraryLoad, save |-> LibrarySave],
     skills |-> [load |-> SkillsLoad, toggle |-> SkillsToggle],
     usage |-> [mount |-> UsageMount, first |-> UsageFirst, load |-> UsageLoad],
     records |-> [load |-> RecordsLoad],
     referral |-> [load |-> ReferralLoad, account |-> ReferralAccount, payout |-> ReferralPayout,
                   code |-> ReferralCode, bind |-> ReferralBind],
     wallet |-> [mount |-> WalletMount, first |-> WalletFirst, load |-> WalletLoad,
                 redeem |-> WalletRedeem, create |-> WalletCreate, verify |-> WalletVerify,
                 poll |-> WalletPoll],
     keys |-> [load |-> KeysLoad, create |-> KeysCreate, toggle |-> KeysToggle,
               remove |-> KeysRemove, settings |-> KeysSettings, setup |-> KeysSetup,
               rotate |-> KeysRotate],
     accounts |-> [load |-> AccountsLoad, save |-> AccountsSave, groups |-> AccountsGroups,
                   remove |-> AccountsRemove, oauth |-> AccountsOAuth,
                   message |-> AccountsMessage, complete |-> AccountsComplete,
                   options |-> AccountsOptions, inline |-> AccountsInline,
                   import |-> AccountsImport, order |-> AccountsOrder, quota |-> AccountsQuota]]

ViewOf ==
    [groups |-> GroupsView,
     users |-> UsersView,
     prices |-> PricesView,
     models |-> ModelsView,
     proxies |-> ProxiesView,
     redeem |-> RedeemView,
     alerts |-> AlertsView,
     silences |-> SilencesView,
     logs |-> LogsView,
     backups |-> BackupsView,
     updates |-> UpdatesView,
     referrals |-> ReferralsView,
     payment |-> PaymentView,
     ledger |-> LedgerView,
     settings |-> SettingsView,
     audit |-> AuditView,
     monitoring |-> MonitoringView,
     errors |-> ErrorsView,
     library |-> LibraryView,
     skills |-> SkillsView,
     usage |-> UsageView,
     records |-> RecordsView,
     referral |-> ReferralView,
     wallet |-> WalletView,
     keys |-> KeysView,
     accounts |-> AccountsView]
=============================================================================
