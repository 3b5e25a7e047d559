---------------------------- MODULE ShopifyProofs ----------------------------
(***************************************************************************)
(* For every set of requests, topics and texts, and every bound: nothing   *)
(* outlives the install row, what is stale was overtaken, the summary of a *)
(* conversation is in its thread, and trouble reaches a human.             *)
(***************************************************************************)
EXTENDS Shopify, TLAPS

-----------------------------------------------------------------------------
(* The inductive invariant *)

\* A notice is of an installation that is over; only what was announced is handled.
ShopTrue ==
    /\ handled \subseteq notices /\ notices \subseteq 1..token
    /\ installed => token > 0 /\ token \notin notices

\* Rows and conversations are numbered from one.
Numbered == /\ row = NoRow \/ row.id \in 1..rows
            /\ conv = NoConv \/ conv.id > 0

\* Of the token and the row a request holds it is known when they are overtaken.
HeldKnown ==
    /\ \A p \in Procs : pc[p] = "store" /\ loc[p].token \in handled =>
          [type |-> "token", of |-> loc[p].token] \in overtaken
    /\ \A p \in Procs : pc[p] = "activate" =>
          /\ loc[p].row > 0
          /\ loc[p].row = row.id \/ [type |-> "row", of |-> loc[p].row] \in overtaken

Chatting(p) == pc[p] \in {"reply", "append"}

\* A chat that is under way is numbered, apart from the others, and not in the thread's
\* conversation unless it is the one that its first write went to.
ChatsApart ==
    /\ \A p \in Procs : Chatting(p) => loc[p].chat \in 1..chats /\ loc[p].text \in Texts
    /\ \A p, q \in Procs :
          Chatting(p) /\ Chatting(q) /\ p # q => loc[p].chat # loc[q].chat
    /\ \A p \in Procs : pc[p] = "append" =>
          /\ loc[p].conv > 0
          /\ loc[p].chat = conv.last => loc[p].conv = conv.id

InTrouble(text) == /\ {"problem", "payment"} \subseteq text
                   /\ text \cap {"provider", "gateway", "method"} = {}

OffersHuman ==
    /\ \A m \in thread : InTrouble(m.text) => m.human
    /\ \A p \in Procs : pc[p] = "append" /\ InTrouble(loc[p].text) => loc[p].human

IInv == /\ TypeOK /\ ShopTrue /\ Numbered /\ NothingOutlivesInstall
        /\ StaleOnlyIfOvertaken /\ HeldKnown /\ ChatsApart /\ SummaryInThread /\ OffersHuman

\* What an action that changes neither the shop nor the data leaves true of them.
Quiet == UNCHANGED <<installed, token, notices, dataVars, chats, ghosts>>

Apart == {"idle", "exchange", "refind", "save", "register", "create"}

-----------------------------------------------------------------------------
(* Lemmas *)

LEMMA Bounds == MaxTokens \in Nat /\ MaxRows \in Nat /\ MaxChats \in Nat
  BY BoundsAssumption

LEMMA IdleType == Idle \in Locals
  BY Bounds DEF Idle, Locals

\* Initially.
LEMMA IInvInit == Init => IInv
<1> SUFFICES ASSUME Init PROVE IInv
  OBVIOUS
<1>1. TypeOK
  <2>1. /\ row \in [id : 0..MaxRows, token : 0..MaxTokens] /\ rows \in 0..MaxRows
        /\ conv \in [id : 0..MaxChats, last : 0..MaxChats]
        /\ token \in 0..MaxTokens /\ chats \in 0..MaxChats
    BY Bounds DEF Init, NoRow, NoConv
  <2>2. config \in [saved : BOOLEAN, enabled : BOOLEAN, email : BOOLEAN,
                    activated : 0..MaxRows]
    BY Bounds DEF Init, NoConfig
  <2>3. pc \in [Procs -> Steps] /\ loc \in [Procs -> Locals]
    BY IdleType DEF Init, Steps
  <2> QED
    BY <2>1, <2>2, <2>3 DEF Init, TypeOK
<1>2. ShopTrue /\ Numbered /\ NothingOutlivesInstall /\ StaleOnlyIfOvertaken
  BY DEF Init, ShopTrue, Numbered, NothingOutlivesInstall, StaleOnlyIfOvertaken,
         NoRow, NoConfig, NoConv
<1>3. HeldKnown /\ ChatsApart /\ SummaryInThread /\ OffersHuman
  BY DEF Init, HeldKnown, ChatsApart, Chatting, SummaryInThread, OffersHuman, NoConv
<1> QED
  BY <1>1, <1>2, <1>3 DEF IInv

\* One request moves.
LEMMA Moved ==
    ASSUME TypeOK, NEW p \in Procs, NEW step \in Steps, NEW local \in Locals,
           Goto(p, step, local)
    PROVE  /\ pc' \in [Procs -> Steps] /\ loc' \in [Procs -> Locals]
           /\ pc'[p] = step /\ loc'[p] = local
           /\ \A q \in Procs \ {p} : pc'[q] = pc[q] /\ loc'[q] = loc[q]
  BY DEF TypeOK, Goto

\* A request that moves on to where it holds nothing disturbs nothing.
LEMMA QuietStep ==
    ASSUME IInv, NEW p \in Procs, NEW step \in Apart, NEW local \in Locals,
           Goto(p, step, local), pc[p] # "append", hooks' \subseteq Topics, Quiet
    PROVE  IInv'
<1>1. step \in Steps
  BY DEF Apart, Steps
<1>2. /\ pc' \in [Procs -> Steps] /\ loc' \in [Procs -> Locals]
      /\ pc'[p] = step /\ loc'[p] = local
      /\ \A q \in Procs \ {p} : pc'[q] = pc[q] /\ loc'[q] = loc[q]
  BY <1>1, Moved DEF IInv
<1>3. TypeOK'
  BY <1>2 DEF IInv, TypeOK, Quiet, dataVars, ghosts
<1>4. (ShopTrue /\ Numbered /\ NothingOutlivesInstall /\ StaleOnlyIfOvertaken)'
  BY DEF IInv, ShopTrue, Numbered, NothingOutlivesInstall, StaleOnlyIfOvertaken,
         Quiet, dataVars, ghosts
<1>5. HeldKnown'
  BY <1>2 DEF IInv, HeldKnown, Quiet, dataVars, ghosts, Apart
<1>6. ChatsApart'
  BY <1>2 DEF IInv, ChatsApart, Chatting, Quiet, dataVars, ghosts, Apart
<1>7. SummaryInThread'
  BY <1>2 DEF IInv, SummaryInThread, At, Quiet, dataVars, ghosts, Apart
<1>8. OffersHuman'
  BY <1>2 DEF IInv, OffersHuman, InTrouble, Quiet, dataVars, ghosts, Apart
<1> QED
  BY <1>3, <1>4, <1>5, <1>6, <1>7, <1>8 DEF IInv

-----------------------------------------------------------------------------
(* Shopify *)

LEMMA InstallInv == IInv /\ Install => IInv'
<1> SUFFICES ASSUME IInv, Install PROVE IInv'
  OBVIOUS
<1>1. TypeOK'
  BY Bounds DEF IInv, TypeOK, Install, dataVars, ghosts
<1>2. ShopTrue'
  BY DEF IInv, TypeOK, ShopTrue, Install, ghosts
<1>3. (Numbered /\ NothingOutlivesInstall /\ StaleOnlyIfOvertaken /\ HeldKnown)'
  BY DEF IInv, Numbered, NothingOutlivesInstall, StaleOnlyIfOvertaken, HeldKnown,
         Install, dataVars, ghosts
<1>4. (ChatsApart /\ SummaryInThread /\ OffersHuman)'
  BY DEF IInv, ChatsApart, Chatting, SummaryInThread, At, OffersHuman, InTrouble,
         Install, dataVars, ghosts
<1> QED
  BY <1>1, <1>2, <1>3, <1>4 DEF IInv

LEMMA UninstallInv == IInv /\ Uninstall => IInv'
<1> SUFFICES ASSUME IInv, Uninstall PROVE IInv'
  OBVIOUS
<1>1. TypeOK'
  <2>1. token \in 1..MaxTokens
    BY Bounds DEF IInv, TypeOK, ShopTrue, Uninstall
  <2>2. notices' \subseteq 1..MaxTokens
    BY <2>1 DEF IInv, TypeOK, Uninstall
  <2> QED
    BY <2>2 DEF IInv, TypeOK, Uninstall, dataVars, ghosts
<1>2. ShopTrue'
  BY DEF IInv, TypeOK, ShopTrue, Uninstall, ghosts
<1>3. (Numbered /\ NothingOutlivesInstall /\ StaleOnlyIfOvertaken /\ HeldKnown)'
  BY DEF IInv, Numbered, NothingOutlivesInstall, StaleOnlyIfOvertaken, HeldKnown,
         Uninstall, dataVars, ghosts
<1>4. (ChatsApart /\ SummaryInThread /\ OffersHuman)'
  BY DEF IInv, ChatsApart, Chatting, SummaryInThread, At, OffersHuman, InTrouble,
         Uninstall, dataVars, ghosts
<1> QED
  BY <1>1, <1>2, <1>3, <1>4 DEF IInv

\* The cascade takes everything, and what the requests hold of the row is overtaken.
LEMMA WebhookInv ==
    ASSUME IInv, NEW t \in notices, HandleWebhook(t)
    PROVE  IInv'
<1> USE DEF HandleWebhook, DeleteInstall, shopVars
<1>1. \A p \in Procs :
        /\ pc[p] = "store" => [type |-> "token", of |-> loc[p].token] \in overtaken'
        /\ pc[p] = "activate" => [type |-> "row", of |-> loc[p].row] \in overtaken'
  <2> SUFFICES ASSUME NEW p \in Procs
               PROVE  /\ pc[p] = "store" => [type |-> "token", of |-> loc[p].token] \in Held(p)
                      /\ pc[p] = "activate" => [type |-> "row", of |-> loc[p].row] \in Held(p)
    OBVIOUS
  <2> QED
    BY DEF Held, At
<1>2. overtaken \subseteq overtaken'
  OBVIOUS
<1>3. TypeOK'
  <2>1. \A p \in Procs :
          Held(p) \subseteq [type : {"token", "row"}, of : 0..MaxTokens \cup 0..MaxRows]
    BY DEF IInv, TypeOK, Held, At, Locals
  <2>2. overtaken' \subseteq [type : {"token", "row"}, of : 0..MaxTokens \cup 0..MaxRows]
    BY <2>1 DEF IInv, TypeOK
  <2> QED
    BY <2>2, Bounds DEF IInv, TypeOK, NoRow, NoConfig, NoConv
<1>4. ShopTrue'
  BY DEF IInv, ShopTrue
<1>5. (Numbered /\ NothingOutlivesInstall)'
  BY DEF Numbered, NothingOutlivesInstall
<1>6. StaleOnlyIfOvertaken'
  BY <1>4 DEF ShopTrue, StaleOnlyIfOvertaken, NoRow, NoConfig
<1>7. HeldKnown'
  BY <1>1 DEF IInv, HeldKnown
<1>8. ChatsApart'
  BY DEF IInv, ChatsApart, Chatting, NoConv
<1>9. (SummaryInThread /\ OffersHuman)'
  BY DEF IInv, SummaryInThread, OffersHuman, NoConv
<1> QED
  BY <1>3, <1>4, <1>5, <1>6, <1>7, <1>8, <1>9 DEF IInv

-----------------------------------------------------------------------------
(* Requests from the embedded app *)

\* What a request with an install goes on to is quiet.
LEMMA ProceedQuiet ==
    ASSUME IInv, NEW p \in Procs, NEW kind, pc[p] # "append", Proceed(p, kind),
           hooks' = hooks, Quiet
    PROVE  IInv'
<1>1. [Idle EXCEPT !.token = row.token] \in Locals
  BY IdleType DEF IInv, TypeOK, Locals, Idle
<1>2. hooks' \subseteq Topics
  BY DEF IInv, TypeOK
<1>3. \E step \in Apart, local \in Locals : Goto(p, step, local)
  BY <1>1, IdleType DEF Proceed, Leave, Apart
<1> QED
  BY <1>2, <1>3, QuietStep

LEMMA BeginInv ==
    ASSUME IInv, NEW p \in Procs, NEW kind \in Kinds, Begin(p, kind)
    PROVE  IInv'
<1>1. Quiet /\ hooks' = hooks /\ pc[p] # "append"
  BY DEF Begin, Quiet, shopVars, At
<1>2. CASE Proceed(p, kind)
  BY <1>1, <1>2, ProceedQuiet
<1>3. CASE Goto(p, "exchange", [Idle EXCEPT !.kind = kind])
  <2>1. [Idle EXCEPT !.kind = kind] \in Locals /\ "exchange" \in Apart
    BY IdleType DEF Locals, Idle, Apart
  <2>2. hooks' \subseteq Topics
    BY <1>1 DEF IInv, TypeOK
  <2> QED
    BY <1>1, <1>3, <2>1, <2>2, QuietStep
<1> QED
  BY <1>2, <1>3 DEF Begin

LEMMA RefindInv ==
    ASSUME IInv, NEW p \in Procs, Refind(p)
    PROVE  IInv'
<1>1. Quiet /\ hooks' = hooks /\ pc[p] # "append" /\ hooks' \subseteq Topics
  BY DEF Refind, Quiet, shopVars, At, IInv, TypeOK
<1>2. CASE Leave(p)
  BY <1>1, <1>2, QuietStep, IdleType DEF Leave, Apart
<1>3. CASE Proceed(p, loc[p].kind)
  BY <1>1, <1>3, ProceedQuiet
<1> QED
  BY <1>2, <1>3 DEF Refind

\* A token that Shopify gives is of an installation whose uninstall was not handled.
LEMMA OfflineTokenInv ==
    ASSUME IInv, NEW p \in Procs, ExchangeOfflineAccessToken(p)
    PROVE  IInv'
<1> USE DEF ExchangeOfflineAccessToken
<1>1. Quiet /\ hooks' = hooks /\ pc[p] # "append" /\ hooks' \subseteq Topics
  BY DEF Quiet, shopVars, At, IInv, TypeOK
<1>2. CASE Leave(p)
  BY <1>1, <1>2, QuietStep, IdleType DEF Leave, Apart
<1>3. CASE installed /\ Goto(p, "store", [loc[p] EXCEPT !.token = token])
  <2> DEFINE local == [loc[p] EXCEPT !.token = token]
  <2>1. local \in Locals /\ local.token = token /\ "store" \in Steps
    BY DEF IInv, TypeOK, Locals, Steps
  <2> HIDE DEF local
  <2>2. /\ pc' \in [Procs -> Steps] /\ loc' \in [Procs -> Locals]
        /\ pc'[p] = "store" /\ loc'[p] = local
        /\ \A q \in Procs \ {p} : pc'[q] = pc[q] /\ loc'[q] = loc[q]
    BY <1>3, <2>1, Moved DEF IInv, local
  <2>3. token \notin handled
    BY <1>3 DEF IInv, ShopTrue
  <2>4. TypeOK'
    BY <1>1, <2>2 DEF IInv, TypeOK, Quiet, dataVars, ghosts
  <2>5. (ShopTrue /\ Numbered /\ NothingOutlivesInstall /\ StaleOnlyIfOvertaken)'
    BY <1>1 DEF IInv, ShopTrue, Numbered, NothingOutlivesInstall, StaleOnlyIfOvertaken,
                Quiet, dataVars, ghosts
  <2>6. HeldKnown'
    BY <1>1, <2>1, <2>2, <2>3 DEF IInv, HeldKnown, Quiet, dataVars, ghosts
  <2>7. ChatsApart'
    BY <1>1, <2>2 DEF IInv, ChatsApart, Chatting, Quiet, dataVars, ghosts
  <2>8. SummaryInThread'
    BY <1>1, <2>2 DEF IInv, SummaryInThread, At, Quiet, dataVars, ghosts
  <2>9. OffersHuman'
    BY <1>1, <2>2 DEF IInv, OffersHuman, InTrouble, Quiet, dataVars, ghosts
  <2> QED
    BY <2>4, <2>5, <2>6, <2>7, <2>8, <2>9 DEF IInv
<1> QED
  BY <1>2, <1>3

\* The upsert stores a token that was not handled, or was overtaken.
LEMMA StoreTokenInv ==
    ASSUME IInv, NEW p \in Procs, ExchangeSessionToken(p)
    PROVE  IInv'
<1> DEFINE step == IF loc[p].kind = "exchange" THEN "idle" ELSE "refind"
           local == IF loc[p].kind = "exchange" THEN Idle ELSE [Idle EXCEPT !.kind = loc[p].kind]
<1>1. step \in Steps \cap Apart /\ local \in Locals
  BY IdleType DEF IInv, TypeOK, Locals, Idle, Steps, Apart
<1>2. Goto(p, step, local)
  BY DEF ExchangeSessionToken, Leave
<1> HIDE DEF step, local
<1>3. /\ pc' \in [Procs -> Steps] /\ loc' \in [Procs -> Locals]
      /\ pc'[p] = step /\ loc'[p] = local
      /\ \A q \in Procs \ {p} : pc'[q] = pc[q] /\ loc'[q] = loc[q]
  BY <1>1, <1>2, Moved DEF IInv
<1>4. /\ pc[p] = "store" /\ loc[p].token \in 0..MaxTokens
      /\ row'.id = IF row = NoRow THEN rows + 1 ELSE row.id
      /\ row'.token = loc[p].token /\ row' # NoRow
      /\ rows' = IF row = NoRow THEN rows + 1 ELSE rows
      /\ row' \in [id : 0..MaxRows, token : 0..MaxTokens] /\ rows' \in 0..MaxRows
      /\ row'.id \in 1..rows'
  BY Bounds DEF IInv, TypeOK, Locals, ExchangeSessionToken, At, Numbered, NoRow
<1>5. UNCHANGED <<shopVars, config, conv, thread, chats, ghosts>>
  BY DEF ExchangeSessionToken
<1>6. TypeOK'
  BY <1>3, <1>4, <1>5 DEF IInv, TypeOK, shopVars, ghosts
<1>7. (ShopTrue /\ Numbered /\ NothingOutlivesInstall)'
  BY <1>4, <1>5 DEF IInv, ShopTrue, Numbered, NothingOutlivesInstall, shopVars, ghosts
<1>8. StaleOnlyIfOvertaken'
  <2>1. row'.token \in handled' => [type |-> "token", of |-> row'.token] \in overtaken'
    BY <1>4, <1>5 DEF IInv, HeldKnown, ghosts
  <2>2. CASE row = NoRow
    BY <1>5, <2>1, <2>2 DEF IInv, NothingOutlivesInstall, NoConfig, StaleOnlyIfOvertaken
  <2>3. CASE row # NoRow
    BY <1>4, <1>5, <2>1, <2>3 DEF IInv, StaleOnlyIfOvertaken, ghosts
  <2> QED
    BY <2>2, <2>3
<1>9. HeldKnown'
  <2>1. ASSUME NEW q \in Procs, pc'[q] = "store"
        PROVE  loc'[q].token \in handled'
                 => [type |-> "token", of |-> loc'[q].token] \in overtaken'
    BY <1>1, <1>3, <1>5, <2>1 DEF IInv, HeldKnown, ghosts, Apart
  <2>2. ASSUME NEW q \in Procs, pc'[q] = "activate"
        PROVE  /\ loc'[q].row > 0
               /\ \/ loc'[q].row = row'.id
                  \/ [type |-> "row", of |-> loc'[q].row] \in overtaken'
    <3>1. loc'[q] = loc[q] /\ pc[q] = "activate"
      BY <1>1, <1>3, <2>2 DEF Apart
    <3>2. /\ loc[q].row > 0
          /\ loc[q].row = row.id \/ [type |-> "row", of |-> loc[q].row] \in overtaken
      BY <3>1 DEF IInv, HeldKnown
    <3>3. row.id # 0 => row'.id = row.id
      BY <1>4 DEF NoRow
    <3> QED
      BY <1>5, <3>1, <3>2, <3>3 DEF ghosts
  <2> QED
    BY <2>1, <2>2 DEF HeldKnown
<1>10. ChatsApart'
  BY <1>1, <1>3, <1>5 DEF IInv, ChatsApart, Chatting, Apart
<1>11. SummaryInThread'
  BY <1>1, <1>3, <1>4, <1>5 DEF IInv, SummaryInThread, At, ghosts, Apart
<1>12. OffersHuman'
  BY <1>1, <1>3, <1>5 DEF IInv, OffersHuman, InTrouble, Apart
<1> QED
  BY <1>6, <1>7, <1>8, <1>9, <1>10, <1>11, <1>12 DEF IInv

\* Where only the settings change, and nothing was and is to be activated, the rest stays.
LEMMA SettingsStep ==
    ASSUME IInv, NEW p \in Procs, pc[p] # "append", Leave(p),
           UNCHANGED <<shopVars, row, rows, conv, thread, chats, ghosts>>,
           config' \in [saved : BOOLEAN, enabled : BOOLEAN, email : BOOLEAN,
                        activated : 0..MaxRows],
           config' # config => row # NoRow,
           \/ config'.activated = config.activated
           \/ config'.activated = row.id
           \/ [type |-> "row", of |-> config'.activated] \in overtaken
    PROVE  IInv'
<1>1. /\ pc' \in [Procs -> Steps] /\ loc' \in [Procs -> Locals]
      /\ pc'[p] = "idle"
      /\ \A q \in Procs \ {p} : pc'[q] = pc[q] /\ loc'[q] = loc[q]
  BY Moved, IdleType DEF IInv, Leave, Steps
<1>2. TypeOK'
  BY <1>1 DEF IInv, TypeOK, shopVars, ghosts
<1>3. (ShopTrue /\ Numbered /\ NothingOutlivesInstall)'
  BY DEF IInv, ShopTrue, Numbered, NothingOutlivesInstall, shopVars, ghosts
<1>4. StaleOnlyIfOvertaken'
  BY DEF IInv, StaleOnlyIfOvertaken, ghosts
<1>5. HeldKnown'
  BY <1>1 DEF IInv, HeldKnown, ghosts
<1>6. (ChatsApart /\ OffersHuman)'
  BY <1>1 DEF IInv, ChatsApart, Chatting, OffersHuman, InTrouble
<1>7. SummaryInThread'
  BY <1>1 DEF IInv, SummaryInThread, At, ghosts
<1> QED
  BY <1>2, <1>3, <1>4, <1>5, <1>6, <1>7 DEF IInv

LEMMA SaveInv ==
    ASSUME IInv, NEW p \in Procs, NEW enabled \in BOOLEAN, NEW email \in BOOLEAN,
           SaveSupportAgentSettings(p, enabled, email)
    PROVE  IInv'
  BY SettingsStep DEF SaveSupportAgentSettings, At, IInv, TypeOK

LEMMA ListInv ==
    ASSUME IInv, NEW p \in Procs, ListWebhooks(p)
    PROVE  IInv'
<1>1. Quiet /\ hooks' = hooks /\ pc[p] # "append" /\ hooks' \subseteq Topics
  BY DEF ListWebhooks, Quiet, shopVars, At, IInv, TypeOK
<1>2. [loc[p] EXCEPT !.topics = hooks] \in Locals
  BY DEF IInv, TypeOK, Locals
<1>3. \E step \in Apart, local \in Locals : Goto(p, step, local)
  BY <1>2, IdleType DEF ListWebhooks, Leave, Apart
<1> QED
  BY <1>1, <1>3, QuietStep

LEMMA CreateInv ==
    ASSUME IInv, NEW p \in Procs, CreateWebhook(p)
    PROVE  IInv'
<1>1. Quiet /\ pc[p] # "append" /\ hooks' \subseteq Topics
  BY DEF CreateWebhook, Quiet, At, IInv, TypeOK
<1>2. \A t \in Topics : [loc[p] EXCEPT !.topics = @ \cup {t}] \in Locals
  BY DEF IInv, TypeOK, Locals
<1>3. \E step \in Apart, local \in Locals : Goto(p, step, local)
  BY <1>2, IdleType DEF CreateWebhook, Leave, Apart
<1> QED
  BY <1>1, <1>3, QuietStep

-----------------------------------------------------------------------------
(* The storefront *)

LEMMA ReadActivationInv ==
    ASSUME IInv, NEW p \in Procs, ReadActivation(p)
    PROVE  IInv'
<1> DEFINE seen == IF config.activated > 0 THEN config.activated ELSE row.id
           local == [Idle EXCEPT !.row = seen]
<1>1. seen \in 0..MaxRows /\ seen > 0
  BY DEF IInv, TypeOK, Numbered, ReadActivation
<1>2. seen = row.id \/ [type |-> "row", of |-> seen] \in overtaken
  BY DEF IInv, StaleOnlyIfOvertaken
<1>3. local \in Locals /\ local.row = seen /\ "activate" \in Steps
  BY <1>1, IdleType DEF Locals, Idle, Steps
<1>4. Goto(p, "activate", local) /\ pc[p] = "idle"
  BY DEF ReadActivation, At
<1> HIDE DEF seen, local
<1>5. /\ pc' \in [Procs -> Steps] /\ loc' \in [Procs -> Locals]
      /\ pc'[p] = "activate" /\ loc'[p] = local
      /\ \A q \in Procs \ {p} : pc'[q] = pc[q] /\ loc'[q] = loc[q]
  BY <1>3, <1>4, Moved DEF IInv
<1>6. UNCHANGED <<shopVars, dataVars, chats, ghosts>>
  BY DEF ReadActivation
<1>7. TypeOK'
  BY <1>5, <1>6 DEF IInv, TypeOK, shopVars, dataVars, ghosts
<1>8. (ShopTrue /\ Numbered /\ NothingOutlivesInstall /\ StaleOnlyIfOvertaken)'
  BY <1>6 DEF IInv, ShopTrue, Numbered, NothingOutlivesInstall, StaleOnlyIfOvertaken,
              shopVars, dataVars, ghosts
<1>9. HeldKnown'
  BY <1>1, <1>2, <1>3, <1>5, <1>6 DEF IInv, HeldKnown, dataVars, ghosts
<1>10. (ChatsApart /\ OffersHuman)'
  BY <1>5, <1>6 DEF IInv, ChatsApart, Chatting, OffersHuman, InTrouble, dataVars
<1>11. SummaryInThread'
  BY <1>4, <1>5, <1>6 DEF IInv, SummaryInThread, At, dataVars, ghosts
<1> QED
  BY <1>7, <1>8, <1>9, <1>10, <1>11 DEF IInv

LEMMA ActivateInv ==
    ASSUME IInv, NEW p \in Procs, RecordActivation(p)
    PROVE  IInv'
<1>1. loc[p].row \in 0..MaxRows /\ pc[p] = "activate"
  BY DEF IInv, TypeOK, Locals, RecordActivation, At
<1>2. loc[p].row = row.id \/ [type |-> "row", of |-> loc[p].row] \in overtaken
  BY <1>1 DEF IInv, HeldKnown
<1>3. config.saved => row # NoRow
  BY DEF IInv, NothingOutlivesInstall, NoConfig
<1>4. config' \in [saved : BOOLEAN, enabled : BOOLEAN, email : BOOLEAN,
                   activated : 0..MaxRows]
  BY <1>1 DEF IInv, TypeOK, RecordActivation
<1>5. config'.activated = config.activated \/ config'.activated = loc[p].row
  BY DEF IInv, TypeOK, RecordActivation
<1> QED
  BY <1>1, <1>2, <1>3, <1>4, <1>5, SettingsStep DEF RecordActivation

\* A chat begins with a number of its own.
LEMMA ReadChatInv ==
    ASSUME IInv, NEW p \in Procs, NEW text \in Texts, ReadChat(p, text)
    PROVE  IInv'
<1> DEFINE local == [Idle EXCEPT !.chat = chats + 1, !.text = text]
<1>1. chats' = chats + 1 /\ chats' \in 1..MaxChats /\ chats \in Nat
  BY Bounds DEF IInv, TypeOK, ReadChat
<1>2. local \in Locals /\ local.chat = chats + 1 /\ local.text = text /\ "reply" \in Steps
  <2>1. chats + 1 \in 0..MaxChats /\ Idle \in Locals
    BY <1>1, IdleType
  <2>2. DOMAIN Idle = {"kind", "row", "token", "topics", "chat", "text", "human", "conv"}
    BY DEF Idle
  <2> QED
    BY <2>1, <2>2 DEF Locals, Steps
<1>3. Goto(p, "reply", local) /\ pc[p] = "idle"
  BY DEF ReadChat, At
<1> HIDE DEF local
<1>4. /\ pc' \in [Procs -> Steps] /\ loc' \in [Procs -> Locals]
      /\ pc'[p] = "reply" /\ loc'[p] = local
      /\ \A q \in Procs \ {p} : pc'[q] = pc[q] /\ loc'[q] = loc[q]
  BY <1>2, <1>3, Moved DEF IInv
<1>5. UNCHANGED <<shopVars, dataVars, ghosts>>
  BY DEF ReadChat
<1>6. TypeOK'
  BY <1>1, <1>4, <1>5 DEF IInv, TypeOK, shopVars, dataVars, ghosts
<1>7. (ShopTrue /\ Numbered /\ NothingOutlivesInstall /\ StaleOnlyIfOvertaken)'
  BY <1>5 DEF IInv, ShopTrue, Numbered, NothingOutlivesInstall, StaleOnlyIfOvertaken,
              shopVars, dataVars, ghosts
<1>8. HeldKnown'
  BY <1>4, <1>5 DEF IInv, HeldKnown, dataVars, ghosts
<1>9. ChatsApart'
  <2>1. \A q \in Procs \ {p} : Chatting(q)' => Chatting(q) /\ loc[q].chat # chats + 1
    BY <1>1, <1>4 DEF IInv, ChatsApart, Chatting
  <2>2. \A q \in Procs : Chatting(q)' => loc'[q].chat \in 1..chats' /\ loc'[q].text \in Texts
    BY <1>1, <1>2, <1>4 DEF IInv, ChatsApart, Chatting
  <2>3. \A q, r \in Procs :
          Chatting(q)' /\ Chatting(r)' /\ q # r => loc'[q].chat # loc'[r].chat
    BY <1>2, <1>4, <2>1 DEF IInv, ChatsApart
  <2>4. \A q \in Procs : pc'[q] = "append" =>
          loc'[q].conv > 0 /\ (loc'[q].chat = conv'.last => loc'[q].conv = conv'.id)
    BY <1>4, <1>5 DEF IInv, ChatsApart, dataVars
  <2> QED
    BY <2>2, <2>3, <2>4 DEF ChatsApart
<1>10. SummaryInThread'
  BY <1>3, <1>4, <1>5 DEF IInv, SummaryInThread, At, dataVars, ghosts
<1>11. OffersHuman'
  BY <1>4, <1>5 DEF IInv, OffersHuman, InTrouble, dataVars
<1> QED
  BY <1>6, <1>7, <1>8, <1>9, <1>10, <1>11 DEF IInv

\* Trouble is classified as such, and a human suggested whatever the AI gave.
LEMMA Suggested ==
    ASSUME NEW text, InTrouble(text), NEW ai, NEW suggested \in BOOLEAN
    PROVE  HumanSuggested(text, ai, suggested)
<1>1. /\ "problem" \in text /\ "payment" \in text
      /\ "provider" \notin text /\ "gateway" \notin text /\ "method" \notin text
  BY DEF InTrouble
<1>2. Intent(text) = "transaction_issue"
  BY <1>1 DEF Intent
<1> QED
  BY <1>2 DEF HumanSuggested, SuggestsEscalation

LEMMA UpsertInv ==
    ASSUME IInv, NEW p \in Procs, NEW ai \in Answers, NEW suggested \in BOOLEAN,
           UpsertConversation(p, ai, suggested)
    PROVE  IInv'
<1>1. UNCHANGED <<shopVars, row, rows, config, thread, chats, ghosts>> /\ pc[p] = "reply"
  BY DEF UpsertConversation, At
<1>2. CASE Leave(p) /\ conv' = conv
  <2>1. Quiet /\ hooks' \subseteq Topics
    BY <1>1, <1>2 DEF Quiet, shopVars, dataVars, IInv, TypeOK
  <2> QED
    BY <1>1, <1>2, <2>1, QuietStep, IdleType DEF Leave, Apart
<1>3. CASE row # NoRow
  <2> DEFINE human == HumanSuggested(loc[p].text, ai, suggested)
             local == [loc[p] EXCEPT !.conv = conv'.id, !.human = human]
  <2>1. loc[p] \in Locals /\ loc[p].chat \in 1..MaxChats /\ loc[p].text \in Texts
    BY <1>1, Bounds DEF IInv, TypeOK, ChatsApart, Chatting
  <2>2. /\ conv' \in [id : 0..MaxChats, last : 0..MaxChats]
        /\ conv'.last = loc[p].chat /\ conv'.id \in 0..MaxChats
    BY <1>3, <2>1 DEF UpsertConversation, InstallExists, IInv, TypeOK
  <2>3. human \in BOOLEAN
    BY DEF HumanSuggested, SuggestsEscalation
  <2>4. /\ local \in Locals /\ local.chat = loc[p].chat /\ local.text = loc[p].text
        /\ local.conv = conv'.id /\ local.human = human
    BY <2>1, <2>2, <2>3 DEF Locals
  <2>5. InTrouble(loc[p].text) => human
    BY Suggested
  <2>6. Goto(p, "append", local) /\ "append" \in Steps
    BY <1>3 DEF UpsertConversation, InstallExists, Steps
  <2> HIDE DEF local, human
  <2>7. /\ pc' \in [Procs -> Steps] /\ loc' \in [Procs -> Locals]
        /\ pc'[p] = "append" /\ loc'[p] = local
        /\ \A q \in Procs \ {p} : pc'[q] = pc[q] /\ loc'[q] = loc[q]
    BY <2>4, <2>6, Moved DEF IInv
  <2>8. TypeOK'
    BY <1>1, <2>2, <2>7 DEF IInv, TypeOK, shopVars, ghosts
  <2>15. conv'.id > 0
    BY <1>3, <2>1 DEF UpsertConversation, InstallExists, IInv, TypeOK, Numbered
  <2>9. (ShopTrue /\ Numbered /\ StaleOnlyIfOvertaken)'
    BY <1>1, <2>15 DEF IInv, ShopTrue, Numbered, StaleOnlyIfOvertaken, shopVars, ghosts
  <2>10. NothingOutlivesInstall'
    BY <1>1, <1>3 DEF NothingOutlivesInstall
  <2>11. HeldKnown'
    BY <1>1, <2>7 DEF IInv, HeldKnown, ghosts
  <2>12. ChatsApart'
    <3>2. \A q \in Procs : Chatting(q)' => Chatting(q) /\ loc'[q].chat = loc[q].chat
                                                      /\ loc'[q].text = loc[q].text
      BY <1>1, <2>4, <2>7 DEF Chatting
    <3>3. \A q \in Procs \ {p} : Chatting(q)' => loc'[q].chat # conv'.last
      BY <1>1, <2>2, <3>2 DEF IInv, ChatsApart, Chatting
    <3>4. \A q \in Procs : pc'[q] = "append" =>
            loc'[q].conv > 0 /\ (loc'[q].chat = conv'.last => loc'[q].conv = conv'.id)
      BY <2>4, <2>7, <2>15, <3>3 DEF IInv, ChatsApart, Chatting
    <3>5. \A q \in Procs : Chatting(q)' => loc'[q].chat \in 1..chats' /\ loc'[q].text \in Texts
      BY <1>1, <3>2 DEF IInv, ChatsApart
    <3>6. \A q, r \in Procs :
            Chatting(q)' /\ Chatting(r)' /\ q # r => loc'[q].chat # loc'[r].chat
      BY <3>2 DEF IInv, ChatsApart
    <3> QED
      BY <3>4, <3>5, <3>6 DEF ChatsApart
  <2>13. SummaryInThread'
    BY <2>2, <2>4, <2>7 DEF SummaryInThread, At
  <2>14. OffersHuman'
    BY <1>1, <2>4, <2>5, <2>7 DEF IInv, OffersHuman, InTrouble
  <2> QED
    BY <2>8, <2>9, <2>10, <2>11, <2>12, <2>13, <2>14 DEF IInv
<1> QED
  BY <1>2, <1>3 DEF UpsertConversation, InstallExists

LEMMA AppendInv ==
    ASSUME IInv, NEW p \in Procs, AppendMessages(p)
    PROVE  IInv'
<1>1. UNCHANGED <<shopVars, row, rows, config, conv, chats, ghosts>> /\ pc[p] = "append"
  BY DEF AppendMessages, At
<1>2. /\ pc' \in [Procs -> Steps] /\ loc' \in [Procs -> Locals]
      /\ pc'[p] = "idle"
      /\ \A q \in Procs \ {p} : pc'[q] = pc[q] /\ loc'[q] = loc[q]
  BY Moved, IdleType DEF IInv, AppendMessages, Leave, Steps
<1>3. /\ Message(p) \in Messages
      /\ Message(p).chat = loc[p].chat /\ Message(p).text = loc[p].text
      /\ Message(p).human = loc[p].human
  BY <1>1, Bounds DEF IInv, TypeOK, Locals, ChatsApart, Chatting, Message, Messages
<1>4. TypeOK'
  BY <1>1, <1>2, <1>3 DEF AppendMessages, IInv, TypeOK, shopVars, ghosts
<1>5. (ShopTrue /\ Numbered /\ StaleOnlyIfOvertaken)'
  BY <1>1 DEF IInv, ShopTrue, Numbered, StaleOnlyIfOvertaken, shopVars, ghosts
<1>6. NothingOutlivesInstall'
  <2>1. loc[p].conv > 0
    BY <1>1 DEF IInv, ChatsApart
  <2>2. row = NoRow => conv.id # loc[p].conv
    BY <2>1 DEF IInv, NothingOutlivesInstall, NoConv
  <2> QED
    BY <1>1, <2>2 DEF AppendMessages, IInv, NothingOutlivesInstall
<1>7. HeldKnown'
  BY <1>1, <1>2 DEF IInv, HeldKnown, ghosts
<1>8. ChatsApart'
  BY <1>1, <1>2 DEF IInv, ChatsApart, Chatting
<1>9. SummaryInThread'
  <2>1. thread \subseteq thread'
    BY DEF AppendMessages
  <2>2. CASE conv.last = loc[p].chat
    BY <1>1, <1>3, <2>2 DEF IInv, ChatsApart, AppendMessages, SummaryInThread
  <2>3. CASE conv.last # loc[p].chat
    BY <1>1, <1>2, <2>1, <2>3 DEF IInv, SummaryInThread, At, ghosts
  <2> QED
    BY <2>2, <2>3
<1>10. OffersHuman'
  BY <1>1, <1>2, <1>3 DEF IInv, OffersHuman, InTrouble, AppendMessages
<1> QED
  BY <1>4, <1>5, <1>6, <1>7, <1>8, <1>9, <1>10 DEF IInv

LEMMA StopInv ==
    ASSUME IInv, NEW p \in Procs, Stop(p)
    PROVE  IInv'
<1>1. UNCHANGED <<shopVars, dataVars, chats, handled, overtaken>>
  BY DEF Stop
<1>2. /\ pc' \in [Procs -> Steps] /\ loc' \in [Procs -> Locals]
      /\ pc'[p] = "idle"
      /\ \A q \in Procs \ {p} : pc'[q] = pc[q] /\ loc'[q] = loc[q]
  BY Moved, IdleType DEF IInv, Stop, Leave, Steps
<1>3. stopped' = IF pc[p] = "append" THEN stopped \cup {loc[p].chat} ELSE stopped
  BY DEF Stop, At
<1>4. pc[p] = "append" => loc[p].chat \in 1..MaxChats
  BY Bounds DEF IInv, TypeOK, ChatsApart, Chatting
<1>5. TypeOK'
  BY <1>1, <1>2, <1>3, <1>4 DEF IInv, TypeOK, shopVars, dataVars
<1>6. (ShopTrue /\ Numbered /\ NothingOutlivesInstall /\ StaleOnlyIfOvertaken)'
  BY <1>1 DEF IInv, ShopTrue, Numbered, NothingOutlivesInstall, StaleOnlyIfOvertaken,
              shopVars, dataVars
<1>7. (HeldKnown /\ ChatsApart)'
  BY <1>1, <1>2 DEF IInv, HeldKnown, ChatsApart, Chatting, dataVars
<1>8. SummaryInThread'
  BY <1>1, <1>2, <1>3 DEF IInv, SummaryInThread, At, dataVars
<1>9. OffersHuman'
  BY <1>1, <1>2 DEF IInv, OffersHuman, InTrouble, dataVars
<1> QED
  BY <1>5, <1>6, <1>7, <1>8, <1>9 DEF IInv

-----------------------------------------------------------------------------

\* Every step keeps the invariant.
LEMMA IInvNext == IInv /\ [Next]_vars => IInv'
<1> SUFFICES ASSUME IInv, [Next]_vars PROVE IInv'
  OBVIOUS
<1>1. CASE Install
  BY <1>1, InstallInv
<1>2. CASE Uninstall
  BY <1>2, UninstallInv
<1>3. ASSUME NEW t \in notices, HandleWebhook(t) PROVE IInv'
  BY <1>3, WebhookInv
<1>4. ASSUME NEW p \in Procs, AppRequest(p) PROVE IInv'
  BY <1>4, BeginInv, OfflineTokenInv, StoreTokenInv, RefindInv, SaveInv, ListInv, CreateInv
     DEF AppRequest
<1>5. ASSUME NEW p \in Procs, Storefront(p) PROVE IInv'
  BY <1>5, ReadActivationInv, ActivateInv, ReadChatInv, UpsertInv, AppendInv DEF Storefront
<1>6. ASSUME NEW p \in Procs, Stop(p) PROVE IInv'
  BY <1>6, StopInv
<1>7. CASE UNCHANGED vars
  BY <1>7 DEF vars, shopVars, dataVars, ghosts, IInv, TypeOK, ShopTrue, Numbered,
              NothingOutlivesInstall, StaleOnlyIfOvertaken, HeldKnown, ChatsApart, Chatting,
              SummaryInThread, At, OffersHuman, InTrouble
<1> QED
  BY <1>1, <1>2, <1>3, <1>4, <1>5, <1>6, <1>7 DEF Next

\* The invariant holds of the specification.
THEOREM Invariant == Spec => []IInv
<1> QED
  BY IInvInit, IInvNext, PTL DEF Spec

\* Type correctness.
THEOREM TypeCorrect == Spec => []TypeOK
<1>1. IInv => TypeOK
  BY DEF IInv
<1> QED
  BY Invariant, <1>1, PTL

\* Settings, conversation and messages exist only under an install row: the late writes of
\* chats, pings and saves fail or find nothing once the webhook has deleted it.
THEOREM NothingOutlives == Spec => []NothingOutlivesInstall
<1>1. IInv => NothingOutlivesInstall
  BY DEF IInv
<1> QED
  BY Invariant, <1>1, PTL

\* A revoked token in the row, or an activation of an earlier row, is there only because a
\* request held it when the row was deleted.
THEOREM StaleWasOvertaken == Spec => []StaleOnlyIfOvertaken
<1>1. IInv => StaleOnlyIfOvertaken
  BY DEF IInv
<1> QED
  BY Invariant, <1>1, PTL

\* The last message a conversation shows is in its thread, or its chat has not got, or will
\* never get, to the second of its two writes.
THEOREM SummaryStands == Spec => []SummaryInThread
<1>1. IInv => SummaryInThread
  BY DEF IInv
<1> QED
  BY Invariant, <1>1, PTL

\* Whatever the AI replies, a payment problem is stored with the offer of a human.
THEOREM HumanOffered == Spec => []TroubleReachesHuman
<1>1. IInv => TroubleReachesHuman
  BY DEF IInv, OffersHuman, InTrouble, TroubleReachesHuman
<1> QED
  BY Invariant, <1>1, PTL

\* The settings page and the deployment that gates the widget's ping agree.
THEOREM StatusAgreed == Spec => []StatusesAgree
<1>1. TypeOK => StatusesAgree
  BY DEF TypeOK, StatusesAgree, SettingsStatus, WidgetPhase, DeploymentStatus, Ready
<1> QED
  BY TypeCorrect, <1>1, PTL
=============================================================================
