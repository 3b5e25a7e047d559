------------------------------ MODULE Support -------------------------------
(***************************************************************************)
(* Support conversations of merchants: the dashboard's chat and its        *)
(* escalation to a human by email, and the WhatsApp assistant, which files *)
(* what it answered in the same conversations.                             *)
(*                                                                         *)
(* The assistant remembers in its server's memory which messages it has    *)
(* seen and which conversation a customer has; the webhook is acknowledged *)
(* before the message is looked at.  Tasks overlap at every await and may  *)
(* stop there.                                                             *)
(***************************************************************************)
EXTENDS Integers, FiniteSets, Sequences, SequencesExt

CONSTANTS Servers,        \* instances of the API
          Procs,          \* tasks that run at the same time
          Incoming,       \* WhatsApp messages
          Customers,      \* WhatsApp ids
          Names,          \* profile names
          From,           \* From[m]: the id of the customer who sent m
          Contacts,       \* Contacts[m]: the contacts in the payload that brought m
          Merchants,
          Desks,          \* the merchants whose users use the dashboard
          MerchantOf,     \* MerchantOf[m]: the merchant to whose number m was sent
          DeskTitle,      \* the title of a conversation begun in the dashboard
          MemorySize,     \* message ids a server remembers (1000 in the code)
          MaxConvs, MaxEscalations, MaxRestarts,
          MaxDeliveries   \* bounds

NoOne == "none"

\* A contact may come without an id or without a name.
ASSUME PayloadsAssumption ==
    /\ From \in [Incoming -> Customers] /\ MerchantOf \in [Incoming -> Merchants]
    /\ Desks \subseteq Merchants
    /\ Contacts \in [Incoming -> Seq([waId : Customers \cup {NoOne}, name : Names \cup {NoOne}])]
ASSUME LimitsAssumption ==
    /\ {MemorySize, MaxConvs, MaxEscalations, MaxRestarts, MaxDeliveries} \subseteq Nat
    /\ MemorySize > 0

VARIABLES convs,     \* the conversations: heading (merchant and title) and status, in the
                     \* order of creation
          thread,    \* thread[c]: the WhatsApp messages stored in conversation c
          escs,      \* the escalations: conversation and status, in the order of creation
          memory,    \* memory[s]: processedMessageIds, the oldest first
          convOf,    \* convOf[s][w]: conversationIdsByWaId, 0 if there is none
          restarts,  \* restarts so far
          deliveries, \* messages looked at so far
          replies,   \* replies[m]: how often m was answered
          pc, loc,   \* where each task stands and what it holds
          seen,      \* ghost: seen[s]: the messages s has looked at since its start
          emailed,   \* ghost: the escalations whose email went out
          excused,   \* ghost: the conversations that may be emailed about again
          evicted,   \* ghost: the messages pushed out of a server's memory
          abandoned  \* ghost: the pending escalations whose task stopped

deskVars == <<escs, emailed, excused, abandoned>>
chatVars == <<memory, convOf, restarts, deliveries, replies, evicted, seen>>
vars == <<convs, thread, deskVars, chatVars, pc, loc>>

-----------------------------------------------------------------------------

Steps == {"idle", "create", "email", "sent", "conversation", "failed",
          "reply", "recall", "find", "open", "question"}

ConvIds == 1..Len(convs)
EscIds == 1..Len(escs)

ASSUME ServersAssumption == NoOne \notin Servers /\ IsFiniteSet(Servers) /\ IsFiniteSet(Procs)

\* conv, esc: of an escalation; server, message, conv: of a WhatsApp message.
Idle == [server |-> NoOne, message |-> NoOne, conv |-> 0, esc |-> 0]

At(p, step) == pc[p] = step

Goto(p, step, local) ==
    /\ pc' = [pc EXCEPT ![p] = step]
    /\ loc' = [loc EXCEPT ![p] = local]

Step(p, from, to) == At(p, from) /\ Goto(p, to, loc[p])

Leave(p) == Goto(p, "idle", Idle)

OpenConversation(heading) ==
    /\ Len(convs) < MaxConvs
    /\ convs' = Append(convs, [heading |-> heading, status |-> "OPEN"])
    /\ thread' = Append(thread, {})

-----------------------------------------------------------------------------
(* The dashboard: chat and escalation *)

\* chat without a conversation id; what it writes to one that exists is not told apart.
StartChat ==
    /\ \E merchant \in Desks : OpenConversation([merchant |-> merchant, title |-> DeskTitle])
    /\ UNCHANGED <<deskVars, chatVars, pc, loc>>

Open(e) == escs[e].status \in {"PENDING", "SENT"}

\* Mutant: only an escalation that was sent is in the way of another.
EscalatedIfSent(c) == \E e \in EscIds : escs[e].conv = c /\ escs[e].status = "SENT"

Escalated(c) == \E e \in EscIds : escs[e].conv = c /\ Open(e)

\* escalateConversation, the first read, of a conversation of the dashboard's user: an
\* escalation that is under way or sent is answered with; else the merchant's context is read.
ReadConversation(p, c) ==
    /\ At(p, "idle")
    /\ convs[c].heading.merchant \in Desks
    /\ ~Escalated(c)
    /\ Goto(p, "create", [Idle EXCEPT !.conv = c])
    /\ UNCHANGED <<convs, thread, deskVars, chatVars>>

\* Nothing looks again for an escalation that was created since.
CreateEscalation(p) ==
    LET c == loc[p].conv IN
    /\ At(p, "create")
    /\ Len(escs) < MaxEscalations
    /\ escs' = Append(escs, [conv |-> c, status |-> "PENDING"])
    /\ excused' = IF Escalated(c) THEN excused \cup {c} ELSE excused
    /\ Goto(p, "email", [loc[p] EXCEPT !.esc = Len(escs) + 1])
    /\ UNCHANGED <<convs, thread, emailed, abandoned, chatVars>>

\* Mutant: an email that fails is taken for sent.
IgnoresFailure(p, goesOut, ok) ==
    /\ Step(p, "email", "sent")
    /\ emailed' = IF goesOut THEN emailed \cup {loc[p].esc} ELSE emailed
    /\ UNCHANGED <<convs, thread, escs, excused, abandoned, chatVars>>

\* The email provider is asked, with a time limit: it may send and not answer in time.
DeliverEscalationEmail(p, goesOut, ok) ==
    /\ Step(p, "email", IF ok THEN "sent" ELSE "failed")
    /\ ok => goesOut
    /\ emailed' = IF goesOut THEN emailed \cup {loc[p].esc} ELSE emailed
    /\ UNCHANGED <<convs, thread, escs, excused, abandoned, chatVars>>

Marked(e, status) == [escs EXCEPT ![e].status = status]

MarkSent(p) ==
    /\ Step(p, "sent", "conversation")
    /\ escs' = Marked(loc[p].esc, "SENT")
    /\ UNCHANGED <<convs, thread, emailed, excused, abandoned, chatVars>>

MarkConversation(p) ==
    /\ At(p, "conversation")
    /\ convs' = [convs EXCEPT ![loc[p].conv].status = "ESCALATED"]
    /\ Leave(p)
    /\ UNCHANGED <<thread, deskVars, chatVars>>

\* Either write may fail; the handler of the email's failures handles theirs too.
WriteFails(p) ==
    /\ pc[p] \in {"sent", "conversation"}
    /\ Goto(p, "failed", loc[p])
    /\ UNCHANGED <<convs, thread, deskVars, chatVars>>

\* FAILED, also if the email went out: the next request writes another.
MarkFailed(p) ==
    LET e == loc[p].esc IN
    /\ At(p, "failed")
    /\ escs' = Marked(e, "FAILED")
    /\ excused' = IF e \in emailed THEN excused \cup {loc[p].conv} ELSE excused
    /\ Leave(p)
    /\ UNCHANGED <<convs, thread, emailed, abandoned, chatVars>>

-----------------------------------------------------------------------------
(* The WhatsApp assistant *)

\* findContactForMessage: the sender's contact, or else the first there is.
FindContactForMessage(m) ==
    LET own == {i \in DOMAIN Contacts[m] : Contacts[m][i].waId = From[m]} IN
    IF Contacts[m] = << >> THEN [waId |-> NoOne, name |-> NoOne]
    ELSE Contacts[m][IF own = {} THEN 1 ELSE Min(own)]

\* The customer whom the message is taken to be from.
WaId(m) ==
    LET contact == FindContactForMessage(m) IN
    IF contact.waId = NoOne THEN From[m] ELSE contact.waId

\* "WhatsApp - " and this message's name of the customer, or the id.
ConversationTitle(m) ==
    LET contact == FindContactForMessage(m) IN
    IF contact.name = NoOne THEN WaId(m) ELSE contact.name

\* What a conversation for the message is found by.
Heading(m) == [merchant |-> MerchantOf[m], title |-> ConversationTitle(m)]

\* Mutant: the message is remembered once it has been answered.
NotRemembered(s, m) == memory[s]

\* hasProcessed: the oldest goes when there are too many.
Remembered(s, m) ==
    LET ids == Append(memory[s], m) IN
    IF Len(ids) > MemorySize THEN Tail(ids) ELSE ids

\* Meta may deliver a message more than once, to any server; a message that the server
\* remembers is ignored.
HandleIncomingWebhook(p, s, m) ==
    /\ At(p, "idle")
    /\ ~Contains(memory[s], m)
    /\ deliveries < MaxDeliveries
    /\ deliveries' = deliveries + 1
    /\ memory' = [memory EXCEPT ![s] = Remembered(s, m)]
    /\ evicted' = evicted \cup (ToSet(memory[s]) \ ToSet(memory'[s]))
    /\ seen' = [seen EXCEPT ![s] = @ \cup {m}]
    /\ Goto(p, "reply", [Idle EXCEPT !.server = s, !.message = m])
    /\ UNCHANGED <<convs, thread, deskVars, convOf, restarts, replies>>

\* The reply, the AI's or in its place a canned one, goes out or is refused, and both go on
\* to the filing; if the call throws, be it that it went out and Meta answered too late,
\* the message is dropped, and is still remembered.
SendTextMessage(p, goesOut, throws) ==
    /\ At(p, "reply")
    /\ replies' = IF goesOut THEN [replies EXCEPT ![loc[p].message] = @ + 1] ELSE replies
    /\ IF throws THEN Leave(p) ELSE Goto(p, "recall", loc[p])
    /\ UNCHANGED <<convs, thread, deskVars, memory, convOf, restarts, deliveries, evicted, seen>>

Customer(p) == WaId(loc[p].message)

\* Mutant: the open conversation of the merchant, whatever its title.
AnyOpen(m) ==
    {c \in ConvIds : convs[c].heading.merchant = MerchantOf[m] /\ convs[c].status = "OPEN"}

\* findExistingConversationId
OpenWithHeading(m) == {c \in ConvIds : convs[c].heading = Heading(m) /\ convs[c].status = "OPEN"}

File(p, c) ==
    /\ convOf' = [convOf EXCEPT ![loc[p].server][Customer(p)] = c]
    /\ Goto(p, "question", [loc[p] EXCEPT !.conv = c])

\* persistWhatsAppExchange: the conversation this server knows for the customer, also if
\* it was escalated, the name has changed or it is another merchant's.  (Usage rows, which
\* are written before, are read nowhere; if no merchant is found, the task stops here.)
RecallConversation(p) ==
    LET known == convOf[loc[p].server][Customer(p)] IN
    /\ At(p, "recall")
    /\ \/ known > 0 /\ File(p, known)
       \/ known = 0 /\ Goto(p, "find", loc[p]) /\ UNCHANGED convOf
    /\ UNCHANGED <<convs, thread, deskVars, memory, restarts, deliveries, replies, evicted, seen>>

\* Else one that is open and has the heading, or a new one.
FindConversation(p) ==
    LET open == OpenWithHeading(loc[p].message) IN
    /\ At(p, "find")
    /\ \/ \E c \in open : File(p, c)
       \/ open = {} /\ Goto(p, "open", loc[p]) /\ UNCHANGED convOf
    /\ UNCHANGED <<convs, thread, deskVars, memory, restarts, deliveries, replies, evicted, seen>>

CreateConversation(p) ==
    /\ At(p, "open")
    /\ OpenConversation(Heading(loc[p].message))
    /\ File(p, Len(convs) + 1)
    /\ UNCHANGED <<deskVars, memory, restarts, deliveries, replies, evicted, seen>>

\* The question, and after it the answer, go to the conversation that was found.
StoreQuestion(p) ==
    /\ At(p, "question")
    /\ thread' = [thread EXCEPT ![loc[p].conv] = @ \cup {loc[p].message}]
    /\ Leave(p)
    /\ UNCHANGED <<convs, deskVars, chatVars>>

-----------------------------------------------------------------------------

\* A task ends where it stands: a crash, or an error that nothing handles.
Stop(p) ==
    /\ ~At(p, "idle")
    /\ abandoned' = abandoned \cup {e \in {loc[p].esc} \cap EscIds : escs[e].status = "PENDING"}
    /\ Leave(p)
    /\ UNCHANGED <<convs, thread, escs, emailed, excused, chatVars>>

\* A server forgets what is in its memory and drops the messages it was answering; the
\* dashboard's tasks stop of their own.
Restart(s) ==
    /\ restarts < MaxRestarts
    /\ restarts' = restarts + 1
    /\ memory' = [memory EXCEPT ![s] = << >>]
    /\ convOf' = [convOf EXCEPT ![s] = [w \in Customers |-> 0]]
    /\ seen' = [seen EXCEPT ![s] = {}]
    /\ pc' = [p \in Procs |-> IF loc[p].server = s THEN "idle" ELSE pc[p]]
    /\ loc' = [p \in Procs |-> IF loc[p].server = s THEN Idle ELSE loc[p]]
    /\ UNCHANGED <<convs, thread, deskVars, deliveries, replies, evicted>>

Init ==
    /\ convs = << >> /\ thread = << >> /\ escs = << >>
    /\ memory = [s \in Servers |-> << >>]
    /\ convOf = [s \in Servers |-> [w \in Customers |-> 0]]
    /\ seen = [s \in Servers |-> {}]
    /\ restarts = 0 /\ deliveries = 0 /\ replies = [m \in Incoming |-> 0]
    /\ pc = [p \in Procs |-> "idle"] /\ loc = [p \in Procs |-> Idle]
    /\ emailed = {} /\ excused = {} /\ evicted = {} /\ abandoned = {}

Escalation(p) ==
    \/ \E c \in ConvIds : ReadConversation(p, c)
    \/ CreateEscalation(p)
    \/ \E goesOut, ok \in BOOLEAN : DeliverEscalationEmail(p, goesOut, ok)
    \/ MarkSent(p)
    \/ MarkConversation(p)
    \/ WriteFails(p)
    \/ MarkFailed(p)

WhatsApp(p) ==
    \/ \E s \in Servers, m \in Incoming : HandleIncomingWebhook(p, s, m)
    \/ \E goesOut, throws \in BOOLEAN : SendTextMessage(p, goesOut, throws)
    \/ RecallConversation(p)
    \/ FindConversation(p)
    \/ CreateConversation(p)
    \/ StoreQuestion(p)

Next ==
    \/ StartChat
    \/ \E p \in Procs : Escalation(p) \/ WhatsApp(p) \/ Stop(p)
    \/ \E s \in Servers : Restart(s)

Spec == Init /\ [][Next]_vars

-----------------------------------------------------------------------------
(* Properties *)

Headings == [merchant : Merchants, title : Customers \cup Names \cup {DeskTitle}]

Locals == [server : Servers \cup {NoOne}, message : Incoming \cup {NoOne},
           conv : 0..MaxConvs, esc : 0..MaxEscalations]

\* The type invariant; a server's memory of messages is bounded, whatever is delivered.
TypeOK ==
    /\ convs \in Seq([heading : Headings, status : {"OPEN", "ESCALATED"}])
    /\ Len(convs) <= MaxConvs
    /\ thread \in Seq(SUBSET Incoming) /\ Len(thread) = Len(convs)
    /\ escs \in Seq([conv : ConvIds, status : {"PENDING", "SENT", "FAILED"}])
    /\ Len(escs) <= MaxEscalations
    /\ memory \in [Servers -> Seq(Incoming)]
    /\ \A s \in Servers : Len(memory[s]) <= MemorySize
    /\ convOf \in [Servers -> [Customers -> 0..Len(convs)]]
    /\ restarts \in 0..MaxRestarts /\ deliveries \in 0..MaxDeliveries
    /\ replies \in [Incoming -> Nat] /\ seen \in [Servers -> SUBSET Incoming]
    /\ pc \in [Procs -> Steps] /\ loc \in [Procs -> Locals]
    /\ emailed \subseteq EscIds /\ abandoned \subseteq EscIds
    /\ excused \subseteq ConvIds /\ evicted \subseteq Incoming

\* What an escalation says is true, whatever overlapped, failed or crashed: "sent", and a
\* conversation that counts as escalated, stand for an email that went out; one that is
\* under way, and in the way of the next request, has a task that will settle it, or the
\* task stopped.
StatusIsTruth ==
    /\ \A e \in EscIds :
          /\ escs[e].status = "SENT" => e \in emailed
          /\ escs[e].status = "PENDING" =>
                \/ \E p \in Procs : loc[p].esc = e /\ pc[p] \in {"email", "sent", "failed"}
                \/ e \in abandoned
    /\ \A c \in ConvIds :
          convs[c].status = "ESCALATED" => \E e \in emailed : escs[e].conv = c

\* Support is emailed twice about a conversation only if two requests overlapped, both
\* before either had created its escalation, or if after an email a write failed or the
\* provider's answer came too late.
OneEmailUnlessExcused ==
    \A e, f \in emailed : e # f /\ escs[e].conv = escs[f].conv => escs[e].conv \in excused

\* However often Meta delivers a message, a server answers it once in its lifetime, as
\* long as other messages do not push it out of the server's memory.
RepliesPerLife ==
    \A m \in Incoming : m \notin evicted => replies[m] <= Cardinality(Servers) + restarts

\* A message goes to a conversation of another merchant or title than its own only where
\* its server, since it started, had to do with the customer under the conversation's
\* merchant and title: two customers share one only if both went, or were taken to go, by
\* the name in its title, and a restart ends what an older name or another merchant has
\* led to.  (The customer is the one the assistant takes the message to be from, WaId.)
FiledUnderOwnHeading ==
    [][\A c \in ConvIds : \A m \in thread'[c] \ thread[c] :
        \E p \in Procs :
            /\ pc[p] = "question" /\ pc'[p] = "idle" /\ loc[p].message = m
            /\ \E n \in seen[loc[p].server] :
                  WaId(n) = WaId(m) /\ Heading(n) = convs[c].heading]_vars
=============================================================================
