------------------------------ MODULE Shopify -------------------------------
(***************************************************************************)
(* The Shopify app for one shop: the install row with its offline token,   *)
(* the Support Agent's settings, and the storefront's chat.                *)
(*                                                                         *)
(* Shopify may uninstall and install the app at any time; its              *)
(* app/uninstalled webhook comes late, repeatedly or never, and deletes    *)
(* the row whatever it has become, with everything that hangs on it        *)
(* (onDelete: Cascade).  No request runs in a transaction: those of Procs  *)
(* overlap at every await and may stop there.                              *)
(***************************************************************************)
EXTENDS Integers, FiniteSets

CONSTANTS Procs,       \* requests that run at the same time
          Topics,      \* webhook topics to register; app/uninstalled is one
          Uninstalled, \* app/uninstalled
          Texts,       \* chat messages, as sets of the Words they hold
          MaxTokens,   \* bound on the installations at Shopify, a token each
          MaxRows,     \* bound on the install rows created
          MaxChats     \* bound on the chat messages

ASSUME BoundsAssumption == MaxTokens \in Nat /\ MaxRows \in Nat /\ MaxChats \in Nat
ASSUME TopicsAssumption == Uninstalled \in Topics

VARIABLES installed, \* at Shopify: whether the app is installed,
          token,     \* the installation's token; earlier ones are revoked,
          hooks,     \* the topics registered for it,
          notices,   \* and the tokens whose uninstall was announced
          row,       \* the install row, NoRow if there is none
          rows,      \* install rows created so far
          config,    \* its Support Agent's settings
          conv,      \* its conversation (one session), with the last message shown
          thread,    \* the messages stored in that conversation
          chats,     \* chat messages so far; conversation ids are of them too
          pc, loc,   \* where each request stands and what it read
          handled,   \* ghost: the tokens whose uninstall was handled,
          overtaken, \* ghost: the tokens and rows held by a request at that time,
          stopped    \* ghost: the chats that stopped between their two writes

shopVars == <<installed, token, hooks, notices>>
dataVars == <<row, rows, config, conv, thread>>
ghosts == <<handled, overtaken, stopped>>
vars == <<shopVars, dataVars, chats, pc, loc, ghosts>>

-----------------------------------------------------------------------------

Words == {"provider", "gateway", "support", "method", "problem", "payment",
          "order", "lookup"}
ASSUME TextsAssumption == Texts \subseteq SUBSET Words

Kinds == {"exchange", "read", "save", "register"}
Steps == {"idle", "exchange", "store", "refind", "save", "register", "create",
          "reply", "append", "activate"}

\* What the AI gave: no key, an error, no text, no or a low confidence, or a reply.
Answers == {"noKey", "error", "empty", "unrated", "doubtful", "good"}

NoRow == [id |-> 0, token |-> 0]
\* enabled, email: the settings readiness goes by; activated: the row the widget was
\* first seen for, 0 if it was not (a time in the code).
NoConfig == [saved |-> FALSE, enabled |-> FALSE, email |-> FALSE, activated |-> 0]
NoConv == [id |-> 0, last |-> 0]

\* kind: what a request goes on to once it has its install; row, token: as read or
\* received; topics: as listed; chat, text, human, conv: of a chat.
Idle == [kind |-> "none", row |-> 0, token |-> 0, topics |-> {}, chat |-> 0,
         text |-> {}, human |-> FALSE, conv |-> 0]

At(p, step) == pc[p] = step

Goto(p, step, local) ==
    /\ pc' = [pc EXCEPT ![p] = step]
    /\ loc' = [loc EXCEPT ![p] = local]

Leave(p) == Goto(p, "idle", Idle)

-----------------------------------------------------------------------------
(* Shopify *)

Install ==
    /\ ~installed
    /\ token < MaxTokens
    /\ installed' = TRUE
    /\ token' = token + 1
    /\ UNCHANGED <<hooks, notices, dataVars, chats, pc, loc, ghosts>>

\* Uninstalling revokes the token and the webhooks; who subscribed is told.
Uninstall ==
    /\ installed
    /\ installed' = FALSE
    /\ hooks' = {}
    /\ notices' = IF Uninstalled \in hooks THEN notices \cup {token} ELSE notices
    /\ UNCHANGED <<token, dataVars, chats, pc, loc, ghosts>>

\* What a request holds that the deletion of the row overtakes.
Held(p) == CASE At(p, "store") -> {[type |-> "token", of |-> loc[p].token]}
             [] At(p, "activate") -> {[type |-> "row", of |-> loc[p].row]}
             [] OTHER -> {}

\* Mutant: the shop is only marked, and its row stays.
DeactivatesInstall == UNCHANGED <<row, config, conv, thread>>

\* deleteMany by the shop's domain, and what cascades.
DeleteInstall ==
    /\ row' = NoRow
    /\ config' = NoConfig
    /\ conv' = NoConv
    /\ thread' = {}

\* app/uninstalled names the shop and nothing else: it deletes the row as it is now.
HandleWebhook(t) ==
    /\ t \in notices
    /\ DeleteInstall
    /\ handled' = handled \cup {t}
    /\ overtaken' = overtaken \cup UNION {Held(p) : p \in Procs}
    /\ UNCHANGED <<shopVars, rows, chats, pc, loc, stopped>>

-----------------------------------------------------------------------------
(* Requests from the embedded app, with a session token *)

\* What a request with an install goes on to do; reads (the snapshot, the settings, the
\* deployment, the conversations) write nothing and end here.
Proceed(p, kind) ==
    CASE kind = "save" -> Goto(p, "save", Idle)
      [] kind = "register" -> Goto(p, "register", [Idle EXCEPT !.token = row.token])
      [] OTHER -> Leave(p)

\* verifySessionToken: the token was signed for an installation, which may be gone.
SessionTokenSigned == token > 0

\* ensureInstallForSession: a row that is there is used, whatever its token is worth.
Begin(p, kind) ==
    /\ At(p, "idle")
    /\ SessionTokenSigned
    /\ IF kind # "exchange" /\ row # NoRow
       THEN Proceed(p, kind)
       ELSE Goto(p, "exchange", [Idle EXCEPT !.kind = kind])
    /\ UNCHANGED <<shopVars, dataVars, chats, ghosts>>

\* Shopify gives the installation's token, or refuses.
ExchangeOfflineAccessToken(p) ==
    /\ At(p, "exchange")
    /\ IF installed THEN Goto(p, "store", [loc[p] EXCEPT !.token = token]) ELSE Leave(p)
    /\ UNCHANGED <<shopVars, dataVars, chats, ghosts>>

\* The upsert of the row.
ExchangeSessionToken(p) ==
    /\ At(p, "store")
    /\ row = NoRow => rows < MaxRows
    /\ row' = [id |-> IF row = NoRow THEN rows + 1 ELSE row.id, token |-> loc[p].token]
    /\ rows' = IF row = NoRow THEN rows + 1 ELSE rows
    /\ IF loc[p].kind = "exchange"
       THEN Leave(p)
       ELSE Goto(p, "refind", [Idle EXCEPT !.kind = loc[p].kind])
    /\ UNCHANGED <<shopVars, config, conv, thread, chats, ghosts>>

\* The row is read again: it may be gone already, or have another token.
Refind(p) ==
    /\ At(p, "refind")
    /\ IF row = NoRow THEN Leave(p) ELSE Proceed(p, loc[p].kind)
    /\ UNCHANGED <<shopVars, dataVars, chats, ghosts>>

\* The settings as given; the widget's activation is not among them.  Without the row
\* the update fails.
SaveSupportAgentSettings(p, enabled, email) ==
    /\ At(p, "save")
    /\ config' = IF row = NoRow
                 THEN config
                 ELSE [saved |-> TRUE, enabled |-> enabled, email |-> email,
                       activated |-> config.activated]
    /\ Leave(p)
    /\ UNCHANGED <<shopVars, row, rows, conv, thread, chats, ghosts>>

\* Shopify answers to the token of the installation only.
Accepted(p) == installed /\ loc[p].token = token

\* registerWebhooks lists what is registered ...
ListWebhooks(p) ==
    /\ At(p, "register")
    /\ IF Accepted(p) THEN Goto(p, "create", [loc[p] EXCEPT !.topics = hooks]) ELSE Leave(p)
    /\ UNCHANGED <<shopVars, dataVars, chats, ghosts>>

\* ... and creates what it did not see, a topic at a time; Shopify refuses a topic that
\* another request has registered since, and the rest is left.
CreateWebhook(p) ==
    /\ At(p, "create")
    /\ IF Accepted(p) /\ Topics \ loc[p].topics # {}
       THEN \E t \in Topics \ loc[p].topics :
                /\ hooks' = hooks \cup {t}
                /\ IF t \in hooks
                   THEN Leave(p)
                   ELSE Goto(p, "create", [loc[p] EXCEPT !.topics = @ \cup {t}])
       ELSE Leave(p) /\ hooks' = hooks
    /\ UNCHANGED <<installed, token, notices, dataVars, chats, ghosts>>

-----------------------------------------------------------------------------
(* The Support Agent's status, as its two views derive it *)

\* serializeSupportAgentConfig: widgetStatus.
SettingsStatus ==
    CASE ~config.saved -> "not_deployed"
      [] config.saved /\ config.enabled /\ config.email /\ config.activated > 0
            -> "live_on_storefront"
      [] config.saved /\ config.enabled /\ config.email /\ config.activated = 0 -> "ready"
      [] OTHER -> "configured"

\* Mutant: readiness does not ask for the support email.
ReadyWithoutEmail == config.saved /\ config.enabled

\* deriveSupportAgentDeployment: no requirement is missing.  The greeting and the
\* escalation label have defaults and never are.
Ready == config.saved /\ config.enabled /\ config.email

DeploymentStatus ==
    CASE ~config.saved -> "not_configured"
      [] Ready /\ config.activated > 0 -> "live_on_storefront"
      [] Ready /\ config.activated = 0 -> "ready_for_deployment"
      [] OTHER -> "configured"

\* deriveSupportAgentWidgetRuntime: currentDeploymentPhase.
WidgetPhase ==
    CASE DeploymentStatus = "live_on_storefront" -> "live_on_storefront"
      [] DeploymentStatus # "live_on_storefront" /\ Ready -> "theme_activation_required"
      [] OTHER -> "configuration_incomplete"

-----------------------------------------------------------------------------
(* The storefront: the widget's ping and the chat *)

\* recordSupportAgentActivation: the widget must be ready when the settings are read.
ReadActivation(p) ==
    /\ At(p, "idle")
    /\ row # NoRow
    /\ Ready
    /\ Goto(p, "activate",
            [Idle EXCEPT !.row = IF config.activated > 0 THEN config.activated ELSE row.id])
    /\ UNCHANGED <<shopVars, dataVars, chats, ghosts>>

\* The first activation is kept, as read.  It is written to whatever settings the shop
\* has by then; without any it fails.
RecordActivation(p) ==
    /\ At(p, "activate")
    /\ config' = IF config.saved THEN [config EXCEPT !.activated = loc[p].row] ELSE config
    /\ Leave(p)
    /\ UNCHANGED <<shopVars, row, rows, conv, thread, chats, ghosts>>

\* classifyStorefrontSupportIntent: the first intent whose words the message holds; those
\* after the third only differ in the reply's wording.
Intent(text) ==
    IF "provider" \in text \/ {"gateway", "support"} \subseteq text THEN "payment_gateway"
    ELSE IF "method" \in text THEN "payment_method"
    ELSE IF "problem" \in text /\ text \cap {"payment", "order"} # {} THEN "transaction_issue"
    ELSE "other"

\* shouldSuggestStorefrontEscalation
SuggestsEscalation(text) == Intent(text) = "transaction_issue" \/ "lookup" \in text

\* chatWithSupportAgent: only if the agent is enabled when the settings are read.
ReadChat(p, text) ==
    /\ At(p, "idle")
    /\ row # NoRow
    /\ config.enabled
    /\ chats < MaxChats
    /\ chats' = chats + 1
    /\ Goto(p, "reply", [Idle EXCEPT !.chat = chats + 1, !.text = text])
    /\ UNCHANGED <<shopVars, dataVars, ghosts>>

\* Mutant: an AI's reply suggests a human only if the AI does.
AIKnowsBest(text, ai, suggested) ==
    IF ai = "good" THEN suggested ELSE SuggestsEscalation(text)

\* generateStorefrontSupportReply, as far as it suggests a human: a reply of the AI may
\* add the suggestion; any other outcome has a composed reply in its place.
HumanSuggested(text, ai, suggested) ==
    SuggestsEscalation(text) \/ (ai = "good" /\ suggested)

\* Mutant: the conversation is written without its install.
ConversationAlways == TRUE

\* The foreign key to the install's shopDomain.
InstallExists == row # NoRow

\* persistStorefrontSupportConversation, when the reply is there: the conversation is
\* created, or shows the new messages as its last ...
UpsertConversation(p, ai, suggested) ==
    /\ At(p, "reply")
    /\ IF InstallExists
       THEN /\ conv' = [id |-> IF conv = NoConv THEN loc[p].chat ELSE conv.id,
                        last |-> loc[p].chat]
            /\ Goto(p, "append",
                    [loc[p] EXCEPT !.conv = conv'.id,
                                   !.human = HumanSuggested(loc[p].text, ai, suggested)])
       ELSE Leave(p) /\ conv' = conv
    /\ UNCHANGED <<shopVars, row, rows, config, thread, chats, ghosts>>

Message(p) == [chat |-> loc[p].chat, text |-> loc[p].text, human |-> loc[p].human]

\* Mutant: the thread keeps the latest question and answer only.
AppendReplaces(p) ==
    /\ At(p, "append")
    /\ thread' = IF conv.id = loc[p].conv THEN {Message(p)} ELSE thread
    /\ Leave(p)
    /\ UNCHANGED <<shopVars, row, rows, config, conv, chats, ghosts>>

\* ... and then the question and the answer are stored, if that conversation still exists.
AppendMessages(p) ==
    /\ At(p, "append")
    /\ thread' = IF conv.id = loc[p].conv THEN thread \cup {Message(p)} ELSE thread
    /\ Leave(p)
    /\ UNCHANGED <<shopVars, row, rows, config, conv, chats, ghosts>>

\* A crash, or a database that fails: the request ends where it stands.
Stop(p) ==
    /\ ~At(p, "idle")
    /\ stopped' = IF At(p, "append") THEN stopped \cup {loc[p].chat} ELSE stopped
    /\ Leave(p)
    /\ UNCHANGED <<shopVars, dataVars, chats, handled, overtaken>>

-----------------------------------------------------------------------------

Init ==
    /\ installed = FALSE /\ token = 0 /\ hooks = {} /\ notices = {}
    /\ row = NoRow /\ rows = 0 /\ config = NoConfig
    /\ conv = NoConv /\ thread = {} /\ chats = 0
    /\ pc = [p \in Procs |-> "idle"] /\ loc = [p \in Procs |-> Idle]
    /\ handled = {} /\ overtaken = {} /\ stopped = {}

AppRequest(p) ==
    \/ \E kind \in Kinds : Begin(p, kind)
    \/ ExchangeOfflineAccessToken(p)
    \/ ExchangeSessionToken(p)
    \/ Refind(p)
    \/ \E enabled, email \in BOOLEAN : SaveSupportAgentSettings(p, enabled, email)
    \/ ListWebhooks(p)
    \/ CreateWebhook(p)

Storefront(p) ==
    \/ ReadActivation(p)
    \/ RecordActivation(p)
    \/ \E text \in Texts : ReadChat(p, text)
    \/ \E ai \in Answers, suggested \in BOOLEAN : UpsertConversation(p, ai, suggested)
    \/ AppendMessages(p)

Next ==
    \/ Install
    \/ Uninstall
    \/ \E t \in notices : HandleWebhook(t)
    \/ \E p \in Procs : AppRequest(p) \/ Storefront(p) \/ Stop(p)

Spec == Init /\ [][Next]_vars

-----------------------------------------------------------------------------
(* Properties *)

Messages == [chat : 1..MaxChats, text : Texts, human : BOOLEAN]

Locals == [kind : Kinds \cup {"none"}, row : 0..MaxRows, token : 0..MaxTokens,
           topics : SUBSET Topics, chat : 0..MaxChats, text : Texts \cup {{}},
           human : BOOLEAN, conv : 0..MaxChats]

\* The type invariant.
TypeOK ==
    /\ installed \in BOOLEAN /\ token \in 0..MaxTokens
    /\ hooks \subseteq Topics /\ notices \subseteq 1..MaxTokens
    /\ row \in [id : 0..MaxRows, token : 0..MaxTokens] /\ rows \in 0..MaxRows
    /\ config \in [saved : BOOLEAN, enabled : BOOLEAN, email : BOOLEAN,
                   activated : 0..MaxRows]
    /\ conv \in [id : 0..MaxChats, last : 0..MaxChats]
    /\ thread \subseteq Messages /\ chats \in 0..MaxChats
    /\ pc \in [Procs -> Steps] /\ loc \in [Procs -> Locals]
    /\ handled \subseteq 1..MaxTokens /\ stopped \subseteq 1..MaxChats
    /\ overtaken \subseteq [type : {"token", "row"}, of : 0..MaxTokens \cup 0..MaxRows]

\* Settings, conversation and messages only exist under an install row: a chat whose
\* shop uninstalls while the AI is thinking leaves nothing behind (the cascade of the
\* webhook and the foreign key of the late write).
NothingOutlivesInstall ==
    row = NoRow => config = NoConfig /\ conv = NoConv /\ thread = {}

\* Nothing of an earlier installation lives on: its token is not in the row once its
\* uninstall was handled, and the widget counts as seen only for the row it was seen
\* under; unless a request held the token, or a ping the row, when a row was deleted.
StaleOnlyIfOvertaken ==
    /\ row.token \in handled => [type |-> "token", of |-> row.token] \in overtaken
    /\ config.activated > 0 =>
          \/ config.activated = row.id
          \/ [type |-> "row", of |-> config.activated] \in overtaken

\* The two derivations of the widget's status, the admin page's settings and the
\* deployment that gates the ping, call the widget live and ready at the same times.
StatusesAgree ==
    /\ SettingsStatus = "live_on_storefront" <=> WidgetPhase = "live_on_storefront"
    /\ SettingsStatus = "ready" <=> WidgetPhase = "theme_activation_required"

\* What the list of conversations shows as the last message is in the thread, or its
\* chat is between its two writes, or stopped there.
SummaryInThread ==
    conv.last > 0 =>
        \/ \E m \in thread : m.chat = conv.last
        \/ \E p \in Procs : At(p, "append") /\ loc[p].chat = conv.last
        \/ conv.last \in stopped

\* A shopper who reports a problem with a payment, and names no provider or method, is
\* offered a human whatever the AI says or how it fails.
TroubleReachesHuman ==
    \A m \in thread :
        (/\ {"problem", "payment"} \subseteq m.text
         /\ m.text \cap {"provider", "gateway", "method"} = {})
        => m.human
=============================================================================
