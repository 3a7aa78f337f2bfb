------------------------------ MODULE KeySession ------------------------------
(***************************************************************************)
(* The workbench's session with the console (workbench/src/dengdeng):      *)
(* who is signed in, which API key pays, and the configuration of models   *)
(* every generation reads (stores/use-config-store.ts).  refresh,          *)
(* refreshUsage and selectKey are asynchronous and nothing numbers or      *)
(* cancels them: each await below is a stage of a call, and the calls in   *)
(* flight are answered in any order.  The token and the chosen key live in *)
(* the browser's storage, which other tabs and the console share.          *)
(***************************************************************************)
EXTENDS Naturals, Sequences, FiniteSets

CONSTANTS
    Accounts, Nobody,       \* accounts of the site
    ApiKeys, NoKey,         \* API keys, numbered as the site numbers them
    Owner,                  \* the account of each key
    Offers,                 \* the models /v1/models lists for each key, in order
    ImageModels,            \* the models that make images
    FallbackModel,          \* the image model of defaultConfig
    Slots,                  \* bound: calls in flight
    MaxActs                 \* bound: acts of the user, the site and other tabs


VARIABLES
    token, stored,          \* shared storage: the signed-in account, the key chosen
    active,                 \* the site: keys that work and whose secret can be read
    session,                \* useDengDengSession
    config,                 \* useConfigStore: the key whose secret it holds, its channel, the image model
    calls,                  \* what is in flight
    acts,                   \* acts left
    crossed,                \* the credential was connected while another connection was in flight
    switched                \* another account signed in since the page was loaded

sessionVars == <<token, stored, active, session, config, calls, acts, crossed, switched>>

OfferedBy(k) == {Offers[k][i] : i \in DOMAIN Offers[k]}
ImagesOf(k)  == OfferedBy(k) \cap ImageModels
Models       == {FallbackModel} \cup UNION {OfferedBy(k) : k \in ApiKeys}
KeysOf(a)    == {k \in active : Owner[k] = a}
First(ks)    == CHOOSE k \in ks : \A j \in ks : k <= j

(* A key without models is refused by connectKey, and a model has a name.   *)
ASSUME KeysAssumption ==
    /\ ApiKeys \subseteq Nat /\ NoKey \notin ApiKeys /\ Nobody \notin Accounts
    /\ Owner \in [ApiKeys -> Accounts] /\ MaxActs \in Nat
    /\ DOMAIN Offers = ApiKeys /\ FallbackModel # ""
    /\ \A k \in ApiKeys : Offers[k] \in Seq(OfferedBy(k)) /\ Offers[k] # <<>>

\* An encoded model, "channel::name"; the channel of defaultConfig is NoKey.
NoModel       == [of |-> NoKey, name |-> ""]
Encoded(k, m) == [of |-> k, name |-> m]

Idle == [kind |-> "idle", stage |-> "none", key |-> NoKey, asked |-> Nobody, answer |-> "none", user |-> Nobody, keys |-> {},
          alone |-> TRUE]
Call(kind, stage, k) == [Idle EXCEPT !.kind = kind, !.stage = stage, !.key = k, !.asked = token]
InFlight == {s \in Slots : calls[s].kind # "idle"}
Connections == {s \in InFlight : calls[s].kind \in {"refresh", "select"}}
\* A connection begins; it and those in flight are no longer alone.
Connecting(s, c) ==
    IF Connections = {} THEN [calls EXCEPT ![s] = c]
    ELSE [t \in Slots |-> IF t = s THEN [c EXCEPT !.alone = FALSE]
                          ELSE [calls[t] EXCEPT !.alone = @ /\ t \notin Connections]]

SessionTypeOK ==
    /\ token \in Accounts \cup {Nobody} /\ stored \in ApiKeys \cup {NoKey} /\ active \subseteq ApiKeys
    /\ session.status \in {"loading", "authenticated", "missing", "error"}
    /\ session.user \in Accounts \cup {Nobody} /\ session.keys \subseteq ApiKeys
    /\ {session.selected, session.models, config.cred, config.channel} \subseteq ApiKeys \cup {NoKey}
    /\ {session.busy, session.error} \subseteq BOOLEAN
    /\ config.image \in [of : ApiKeys \cup {NoKey}, name : Models \cup {""}]
    /\ \A s \in Slots : /\ calls[s].kind \in {"idle", "refresh", "select", "usage"}
                        /\ calls[s].answer \in {"none", "ok", "unauthorized", "failed"}
    /\ acts \in 0..MaxActs /\ crossed \in BOOLEAN /\ switched \in BOOLEAN

-----------------------------------------------------------------------------
(* The configuration *)

\* preferredModel: the model in use if the key offers it, or its first.
Preferred(k, current) ==
    IF current.name \in ImagesOf(k) THEN Encoded(k, current.name)
    ELSE IF ImagesOf(k) = {} THEN NoModel
    ELSE Encoded(k, Offers[k][First({i \in DOMAIN Offers[k] : Offers[k][i] \in ImageModels})])

\* (A slip: the credential stays until the next connection.)
KeptInstead(c) == c
\* clearActiveCredential
Cleared(c) == [c EXCEPT !.cred = NoKey]

\* The last lines of connectKey: one channel, that of the key.
Connected(c, k) == [cred |-> k, channel |-> k, image |-> Preferred(k, c.image)]

\* partialize and merge: the secret is not stored; no image model becomes
\* "model", the first of the channel, and one the channel does not list none.
Restored(c) ==
    LET image == IF c.image = NoModel THEN Encoded(c.channel, Offers[c.channel][1]) ELSE c.image
    IN  [cred |-> NoKey, channel |-> c.channel,
         image |-> IF image.of = c.channel /\ (c.channel = NoKey \/ image.name \in OfferedBy(c.channel))
                   THEN image ELSE NoModel]

\* resolveModelForCapability for images: the node's model, the drawer's, or
\* that of defaultConfig; the request goes to the only channel there is.
Lists(c, v) == v.of = c.channel /\ (IF c.channel = NoKey THEN v.name = FallbackModel
                                    ELSE v.name \in ImagesOf(c.channel))
Resolved(c, v) ==
    IF Lists(c, v) THEN v ELSE IF Lists(c, c.image) THEN c.image ELSE Encoded(NoKey, FallbackModel)
Ready(c) == c.cred # NoKey

-----------------------------------------------------------------------------
(* The calls *)

FreshSession ==
    [status |-> "loading", user |-> Nobody, keys |-> {}, selected |-> NoKey, models |-> NoKey,
     busy |-> FALSE, error |-> FALSE]
SignedOut(s) ==
    [s EXCEPT !.status = "missing", !.user = Nobody, !.keys = {}, !.selected = NoKey,
              !.models = NoKey, !.error = FALSE]

\* refresh up to its first await.
BeginRefresh(s) ==
    IF token = Nobody
    THEN /\ session' = SignedOut(session) /\ config' = Cleared(config)
         /\ UNCHANGED calls
    ELSE /\ session' = [session EXCEPT !.busy = TRUE, !.error = FALSE]
         /\ calls' = Connecting(s, Call("refresh", "account", NoKey))
         /\ UNCHANGED config

Refreshes(s) == BeginRefresh(s) /\ UNCHANGED <<token, stored, active, crossed, switched>>

\* The page's first effect.
FirstRefresh(s) ==
    /\ s \notin InFlight /\ session.status = "loading" /\ Connections = {}
    /\ Refreshes(s) /\ UNCHANGED acts
\* The retry of the error page, the drawer's button.
Refresh(s) ==
    /\ s \notin InFlight /\ acts > 0 /\ acts' = acts - 1
    /\ session.status = "error" \/ (session.status = "authenticated" /\ ~session.busy)
    /\ Refreshes(s)

\* The timer, a focus, a generation that ended.
RefreshUsage(s) ==
    /\ s \notin InFlight /\ token # Nobody
    /\ calls' = [calls EXCEPT ![s] = Call("usage", "account", NoKey)]
    /\ UNCHANGED <<token, stored, active, session, config, crossed, switched>>
UsageTick(s) ==
    /\ session.status = "authenticated" /\ acts > 0 /\ acts' = acts - 1
    /\ RefreshUsage(s)

\* The drawer's key menu can be used while an earlier choice is connecting.
SelectKey(s, k) ==
    /\ s \notin InFlight /\ session.status = "authenticated"
    /\ k \in session.keys /\ k # session.selected /\ acts > 0 /\ acts' = acts - 1
    /\ stored' = k /\ config' = Cleared(config) /\ crossed' = (crossed /\ Connections # {})
    /\ session' = [session EXCEPT !.selected = k, !.models = NoKey, !.busy = TRUE, !.error = FALSE]
    /\ calls' = Connecting(s, Call("select", "secret", k))
    /\ UNCHANGED <<token, active, switched>>

ChooseModel(m) ==
    /\ session.status = "authenticated" /\ ~session.busy /\ session.models # NoKey
    /\ m \in ImagesOf(session.models) /\ acts > 0 /\ acts' = acts - 1
    /\ config' = [config EXCEPT !.image = Encoded(session.selected, m)]
    /\ UNCHANGED <<token, stored, active, session, calls, crossed, switched>>

\* What the site answers to the request a call waits for; a network or a
\* server may fail any of them.
Right(c) ==
    CASE c.stage = "account" -> TRUE
      [] c.stage = "secret"  -> c.key \in KeysOf(c.asked)
      [] c.stage = "models"  -> c.key \in active
Serve(s) ==
    /\ s \in InFlight /\ calls[s].answer = "none"
    /\ \E a \in (IF Right(calls[s]) THEN {"ok"} ELSE {}) \cup {"failed"} \cup
                (IF calls[s].stage # "models" THEN {"unauthorized"} ELSE {}) :
          calls' = [calls EXCEPT ![s].answer = a,
                        ![s].user = IF a = "ok" THEN calls[s].asked ELSE Nobody,
                        ![s].keys = IF a = "ok" THEN KeysOf(calls[s].asked) ELSE {}]
    /\ UNCHANGED <<token, stored, active, session, config, acts, crossed, switched>>

Done(s)      == calls' = [calls EXCEPT ![s] = Idle]
GoesOn(s, stage, k) ==
    calls' = [calls EXCEPT ![s] = [Call(calls[s].kind, stage, k) EXCEPT !.alone = calls[s].alone]]

SettleUsage(s) ==
    /\ s \in InFlight /\ calls[s].kind = "usage" /\ calls[s].answer # "none" /\ Done(s)
    /\ session' = IF calls[s].answer = "ok" THEN [session EXCEPT !.user = calls[s].user] ELSE session
    /\ UNCHANGED <<token, stored, active, config, acts, crossed, switched>>

\* refresh has the account: the stored key if it is still there, or the
\* first; a credential in use stays until the connection is made.
SettleAccount(s) ==
    /\ s \in InFlight /\ calls[s].kind = "refresh" /\ calls[s].stage = "account" /\ calls[s].answer = "ok"
    /\ LET c    == calls[s]
           pick == IF c.keys = {} THEN NoKey ELSE IF stored \in c.keys THEN stored ELSE First(c.keys)
       IN  /\ session' = [status |-> "authenticated", user |-> c.user, keys |-> c.keys, selected |-> pick,
                          models |-> NoKey, busy |-> pick # NoKey, error |-> pick = NoKey]
           /\ config' = IF pick = NoKey THEN Cleared(config) ELSE config
           /\ IF pick = NoKey THEN Done(s) ELSE GoesOn(s, "secret", pick)
    /\ UNCHANGED <<token, stored, active, acts, crossed, switched>>

SettleSecret(s) ==
    /\ s \in InFlight /\ calls[s].stage = "secret" /\ calls[s].answer = "ok"
    /\ GoesOn(s, "models", calls[s].key)
    /\ UNCHANGED <<token, stored, active, session, config, acts, crossed, switched>>

SettleModels(s) ==
    /\ s \in InFlight /\ calls[s].stage = "models" /\ calls[s].answer = "ok" /\ Done(s)
    /\ LET k == calls[s].key
       IN  /\ config' = Connected(config, k)
           /\ session' = [session EXCEPT !.models = k, !.busy = FALSE]
           /\ crossed' = ~calls[s].alone
    /\ UNCHANGED <<token, stored, active, acts, switched>>

\* (A slip: the drawer goes on spinning after an error.)
SettleErrorOnly(s) ==
    /\ s \in Connections /\ calls[s].answer \in {"unauthorized", "failed"} /\ Done(s)
    /\ session' = [session EXCEPT !.error = TRUE]
    /\ UNCHANGED <<token, stored, active, config, acts, crossed, switched>>
\* The catch clauses; only refresh looks for a session that has ended.
SettleError(s) ==
    /\ s \in Connections /\ calls[s].answer \in {"unauthorized", "failed"} /\ Done(s)
    /\ session' =
          IF calls[s].kind = "refresh" /\ calls[s].answer = "unauthorized"
          THEN [SignedOut(session) EXCEPT !.busy = FALSE]
          ELSE [session EXCEPT !.busy = FALSE, !.error = TRUE,
                    !.status = IF calls[s].kind = "select" THEN @
                               ELSE IF session.user # Nobody THEN "authenticated" ELSE "error"]
    /\ UNCHANGED <<token, stored, active, config, acts, crossed, switched>>

-----------------------------------------------------------------------------
(* The page, the site and the other tabs *)

\* A reload, or the way back from the login page.
Reload ==
    /\ acts > 0 /\ acts' = acts - 1
    /\ session' = FreshSession /\ config' = Restored(config)
    /\ calls' = [s \in Slots |-> Idle]
    /\ crossed' = FALSE /\ switched' = FALSE
    /\ UNCHANGED <<token, stored, active>>

SignIn(a) ==
    /\ token # a /\ acts > 0 /\ acts' = acts - 1 /\ token' = a /\ switched' = TRUE
    /\ UNCHANGED <<stored, active, session, config, calls, crossed>>
Toggle(k) ==
    /\ acts > 0 /\ acts' = acts - 1
    /\ active' = IF k \in active THEN active \ {k} ELSE active \cup {k}
    /\ UNCHANGED <<token, stored, session, config, calls, crossed, switched>>
ChooseElsewhere(k) ==
    /\ acts > 0 /\ acts' = acts - 1 /\ stored # k /\ stored' = k
    /\ UNCHANGED <<token, active, session, config, calls, crossed, switched>>

SessionInit ==
    /\ token \in Accounts \cup {Nobody} /\ stored = NoKey /\ active = ApiKeys
    /\ session = FreshSession /\ calls = [s \in Slots |-> Idle]
    /\ crossed = FALSE /\ switched = FALSE
    /\ config = [cred |-> NoKey, channel |-> NoKey, image |-> Encoded(NoKey, FallbackModel)]

Settle(s) == SettleUsage(s) \/ SettleAccount(s) \/ SettleSecret(s) \/ SettleModels(s) \/ SettleError(s)

SessionNext ==
    \/ \E s \in Slots : FirstRefresh(s) \/ Refresh(s) \/ UsageTick(s) \/ Serve(s) \/ Settle(s)
    \/ \E s \in Slots, k \in ApiKeys : SelectKey(s, k)
    \/ \E m \in Models : ChooseModel(m)
    \/ \E a \in Accounts \cup {Nobody} : SignIn(a)
    \/ \E k \in ApiKeys : Toggle(k) \/ ChooseElsewhere(k)

-----------------------------------------------------------------------------
(* Properties *)

(* Once nothing is connecting and nothing failed, the key the drawer shows  *)
(* is the one whose secret pays and whose models are listed; from a choice  *)
(* to its connection nothing pays; while the same account is signed in, no  *)
(* other account's key pays and no other account's balance is shown; and    *)
(* whatever model a node names, an image is asked of a model the paying key *)
(* offers.  Connections that overlap are excluded: the last to answer wins, *)
(* not the last chosen.                                                     *)
SessionSound ==
    /\ SessionTypeOK
    /\ ~crossed /\ session.status = "authenticated" /\ ~session.busy /\ ~session.error =>
           session.selected # NoKey /\ {config.cred, config.channel, session.models} = {session.selected}
    /\ \A s \in Connections : calls[s].kind = "select" /\ calls[s].alone => config.cred = NoKey
    /\ ~switched => /\ session.user \in {Nobody, token}
                    /\ config.cred # NoKey => Owner[config.cred] = token
    /\ Ready(config) /\ ~crossed /\ ImagesOf(config.cred) # {} =>
           \A v \in {NoModel} \cup [of : ApiKeys, name : Models] :
               Resolved(config, v).of = config.cred /\ Resolved(config, v).name \in ImagesOf(config.cred)
===============================================================================
