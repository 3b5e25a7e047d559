---------------------------- MODULE SupportProofs ----------------------------
(***************************************************************************)
(* For every set of servers, tasks, messages and customers, and every      *)
(* bound: an escalation's status is true, support is emailed once unless   *)
(* excused, a server answers a message once in its lifetime, and files it  *)
(* under what it knew the customer by in that lifetime.                    *)
(***************************************************************************)
EXTENDS Support, FiniteSetTheorems, SequenceTheorems, WellFoundedInduction, TLAPS

-----------------------------------------------------------------------------
(* The inductive invariant *)

DeskSteps == {"email", "sent", "conversation", "failed"}
ChatSteps == {"reply", "recall", "find", "open", "question"}

\* A task of the dashboard holds an escalation of its own, which is pending until it is
\* settled and was emailed when it is to be marked so.
DeskHeld ==
    /\ \A p \in Procs :
          /\ pc[p] \in DeskSteps \cup {"create"} => loc[p].conv \in ConvIds /\ loc[p].server = NoOne
          /\ pc[p] \in DeskSteps => loc[p].esc \in EscIds /\ escs[loc[p].esc].conv = loc[p].conv
          /\ pc[p] \notin DeskSteps => loc[p].esc = 0
          /\ pc[p] \in {"email", "sent"} => escs[loc[p].esc].status = "PENDING"
          /\ pc[p] \in {"sent", "conversation"} => loc[p].esc \in emailed
    /\ \A p, q \in Procs :
          pc[p] \in DeskSteps /\ pc[q] \in DeskSteps /\ p # q => loc[p].esc # loc[q].esc

\* Support was, or may be, emailed about it.
Counts(e) == e \in emailed \/ Open(e)

\* Of two escalations of a conversation one does not count, unless it is excused.
OneCounts ==
    /\ \A e, f \in EscIds : e # f /\ escs[e].conv = escs[f].conv /\ Counts(e) /\ Counts(f)
          => escs[e].conv \in excused
    /\ \A e \in EscIds : escs[e].status = "FAILED" /\ e \in emailed => escs[e].conv \in excused

\* Since it started the server had to do with the customer under the conversation's
\* merchant and title.
Tied(s, w, c) ==
    \E n \in seen[s] : WaId(n) = w /\ Heading(n) = convs[c].heading

\* A task of the assistant holds a message its server has looked at, and a conversation
\* that is the customer's.
Answers(p) ==
    /\ pc[p] \in ChatSteps => /\ loc[p].message \in Incoming /\ loc[p].server \in Servers
                             /\ loc[p].message \in seen[loc[p].server]
    /\ pc[p] = "question" => /\ loc[p].conv \in ConvIds
                             /\ Tied(loc[p].server, WaId(loc[p].message), loc[p].conv)

\* So are those that the server remembers.
Remembers(s) == \A w \in Customers : convOf[s][w] > 0 => Tied(s, w, convOf[s][w])

ChatHeld == (\A p \in Procs : Answers(p)) /\ (\A s \in Servers : Remembers(s))

Answering(m) == {p \in Procs : pc[p] = "reply" /\ loc[p].message = m}
Knowing(m) == {s \in Servers : Contains(memory[s], m)}

\* Every answer, given or under way, is of a message its server knows or knew before a
\* restart.
Numbered ==
    \A m \in Incoming : m \notin evicted =>
        replies[m] + Cardinality(Answering(m)) <= Cardinality(Knowing(m)) + restarts

IInv == /\ TypeOK /\ DeskHeld /\ StatusIsTruth /\ OneCounts
        /\ ChatHeld /\ Numbered

\* TypeOK in parts: the conversations, the desk's, the assistant's and the tasks'.
ConvTypes ==
    /\ convs \in Seq([heading : Headings, status : {"OPEN", "ESCALATED"}])
    /\ Len(convs) <= MaxConvs
    /\ thread \in Seq(SUBSET Incoming) /\ Len(thread) = Len(convs)

DeskTypes ==
    /\ escs \in Seq([conv : ConvIds, status : {"PENDING", "SENT", "FAILED"}])
    /\ Len(escs) <= MaxEscalations
    /\ emailed \subseteq EscIds /\ abandoned \subseteq EscIds /\ excused \subseteq ConvIds

ChatTypes ==
    /\ memory \in [Servers -> Seq(Incoming)]
    /\ \A s \in Servers : Len(memory[s]) <= MemorySize
    /\ convOf \in [Servers -> [Customers -> 0..Len(convs)]]
    /\ restarts \in 0..MaxRestarts /\ deliveries \in 0..MaxDeliveries
    /\ replies \in [Incoming -> Nat] /\ evicted \subseteq Incoming
    /\ seen \in [Servers -> SUBSET Incoming]

TaskTypes == pc \in [Procs -> Steps] /\ loc \in [Procs -> Locals]

LEMMA TypesParts == TypeOK <=> ConvTypes /\ DeskTypes /\ ChatTypes /\ TaskTypes
  BY DEF TypeOK, ConvTypes, DeskTypes, ChatTypes, TaskTypes

LEMMA TypesNext == TypeOK' <=> (ConvTypes /\ DeskTypes /\ ChatTypes /\ TaskTypes)'
  BY DEF TypeOK, ConvTypes, DeskTypes, ChatTypes, TaskTypes

LEMMA Limits == /\ MemorySize \in Nat \ {0} /\ MaxConvs \in Nat /\ MaxEscalations \in Nat
                /\ MaxRestarts \in Nat /\ MaxDeliveries \in Nat
  BY LimitsAssumption

LEMMA IdleType == Idle \in Locals
  BY Limits DEF Idle, Locals

\* A set of natural numbers has a least element.
LEMMA LeastOf ==
    ASSUME NEW S \in SUBSET Nat, S # {}
    PROVE  Min(S) \in S
<1> DEFINE Below == OpToRel(<, Nat)
<1>1. IsWellFoundedOn(Below, Nat)
  BY NatLessThanWellFounded
<1>2. \A y, x \in Nat : y < x => <<y, x>> \in Below
  BY DEF OpToRel
<1> HIDE DEF Below
<1>3. PICK x \in S : \A y \in S : <<y, x>> \notin Below
  BY <1>1, WFMin
<1>4. ASSUME NEW y \in S PROVE x <= y
  <2>1. x \in Nat /\ y \in Nat /\ ~(y < x)
    BY <1>2, <1>3
  <2> QED
    BY <2>1
<1> QED
  BY <1>4 DEF Min

\* Whatever contacts a message came with, it is of a customer and has a title.
LEMMA Payload ==
    ASSUME NEW m \in Incoming
    PROVE  WaId(m) \in Customers /\ Heading(m) \in Headings
<1> DEFINE Contact == [waId : Customers \cup {NoOne}, name : Names \cup {NoOne}]
           own == {i \in DOMAIN Contacts[m] : Contacts[m][i].waId = From[m]}
<1>1. From[m] \in Customers /\ Contacts[m] \in Seq(Contact)
  BY PayloadsAssumption
<1>2. FindContactForMessage(m) \in Contact
  <2>1. CASE Contacts[m] = << >>
    BY <2>1 DEF FindContactForMessage
  <2>2. CASE Contacts[m] # << >>
    <3>1. DOMAIN Contacts[m] = 1..Len(Contacts[m]) /\ 1 \in DOMAIN Contacts[m]
      BY <1>1, <2>2
    <3>2. own # {} => Min(own) \in DOMAIN Contacts[m]
      <4>1. own \in SUBSET Nat /\ own \subseteq DOMAIN Contacts[m]
        BY <3>1
      <4> HIDE DEF own
      <4> QED
        BY <4>1, LeastOf
    <3>3. \A i \in DOMAIN Contacts[m] : Contacts[m][i] \in Contact
      BY <1>1, <3>1, ElementOfSeq
    <3> QED
      BY <2>2, <3>1, <3>2, <3>3 DEF FindContactForMessage
  <2> QED
    BY <2>1, <2>2
<1> QED
  BY <1>1, <1>2, PayloadsAssumption DEF WaId, ConversationTitle, Heading, Headings

\* What the assistant's side holds stays true: no heading changes, and servers that stay up
\* forget nothing of what they had to do with.
HeadingsKept ==
    ConvIds \subseteq ConvIds' /\ \A c \in ConvIds : convs'[c].heading = convs[c].heading

LEMMA AnswersKept ==
    ASSUME HeadingsKept, NEW p \in Procs, Answers(p), pc'[p] = pc[p], loc'[p] = loc[p],
           pc[p] \in ChatSteps => seen[loc[p].server] \subseteq seen'[loc[p].server]
    PROVE  Answers(p)'
  BY DEF HeadingsKept, Answers, Tied, ChatSteps

LEMMA AnswersNone ==
    ASSUME NEW p \in Procs, pc'[p] \notin ChatSteps
    PROVE  Answers(p)'
  BY DEF Answers, ChatSteps

LEMMA RemembersKept ==
    ASSUME IInv, HeadingsKept, NEW s \in Servers, convOf'[s] = convOf[s], seen[s] \subseteq seen'[s]
    PROVE  Remembers(s)'
<1> SUFFICES ASSUME NEW w \in Customers, convOf[s][w] > 0
             PROVE  Tied(s, w, convOf[s][w])'
  BY DEF Remembers
<1>1. convOf[s][w] \in ConvIds /\ Tied(s, w, convOf[s][w])
  BY TypesParts DEF IInv, ChatTypes, ChatHeld, Remembers, ConvIds
<1> QED
  BY <1>1 DEF HeadingsKept, Tied

\* One task moves.
LEMMA Moved ==
    ASSUME TaskTypes, NEW p \in Procs, NEW step \in Steps, NEW local \in Locals,
           Goto(p, step, local)
    PROVE  /\ TaskTypes'
           /\ pc'[p] = step /\ loc'[p] = local
           /\ \A q \in Procs \ {p} : pc'[q] = pc[q] /\ loc'[q] = loc[q]
  BY DEF TaskTypes, Goto

-----------------------------------------------------------------------------
(* Frames *)

\* The conversations only grow, and those there are stay as they are.
Grows == /\ ConvIds \subseteq ConvIds' /\ \A c \in ConvIds : convs'[c] = convs[c]
         /\ \A c \in ConvIds' \ ConvIds : convs'[c].status = "OPEN"

\* What the assistant's tasks do leaves the desk's side of the invariant true.
LEMMA DeskKept ==
    ASSUME IInv, UNCHANGED deskVars, Grows,
           \A p \in Procs :
              \/ pc'[p] = pc[p] /\ loc'[p] = loc[p]
              \/ pc[p] \notin DeskSteps \cup {"create"} /\ pc'[p] \notin DeskSteps \cup {"create"}
                    /\ loc'[p].esc = 0
    PROVE  (DeskTypes /\ DeskHeld /\ StatusIsTruth /\ OneCounts)'
<1>1. escs' = escs /\ emailed' = emailed /\ excused' = excused /\ abandoned' = abandoned
  BY DEF deskVars
<1>2. DeskTypes'
  <2>1. escs \in Seq([conv : ConvIds, status : {"PENDING", "SENT", "FAILED"}])
    BY TypesParts DEF IInv, DeskTypes
  <2>2. [conv : ConvIds, status : {"PENDING", "SENT", "FAILED"}]
          \subseteq [conv : ConvIds', status : {"PENDING", "SENT", "FAILED"}]
    BY DEF Grows
  <2>3. escs \in Seq([conv : ConvIds', status : {"PENDING", "SENT", "FAILED"}])
    BY <2>1, <2>2, SeqMonotonic
  <2> QED
    BY <1>1, <2>3, TypesParts DEF IInv, DeskTypes, Grows, EscIds
<1>3. DeskHeld'
  BY <1>1 DEF IInv, DeskHeld, Grows, EscIds, DeskSteps
<1>4. StatusIsTruth'
  BY <1>1 DEF IInv, StatusIsTruth, Grows, EscIds, DeskSteps
<1>5. OneCounts'
  BY <1>1 DEF IInv, OneCounts, Counts, Open, EscIds
<1> QED
  BY <1>2, <1>3, <1>4, <1>5

\* What the desk's tasks do leaves the assistant's side of the invariant true.
LEMMA ChatKept ==
    ASSUME IInv, UNCHANGED <<thread, chatVars>>, TaskTypes',
           ConvIds' = ConvIds, Len(convs') = Len(convs),
           \A c \in ConvIds : convs'[c].heading = convs[c].heading,
           \A p \in Procs :
              \/ pc'[p] = pc[p] /\ loc'[p] = loc[p]
              \/ pc[p] \notin ChatSteps /\ pc'[p] \notin ChatSteps
    PROVE  (ChatTypes /\ ChatHeld /\ Numbered)'
<1>1. /\ thread' = thread /\ memory' = memory /\ convOf' = convOf /\ restarts' = restarts
      /\ deliveries' = deliveries /\ replies' = replies /\ evicted' = evicted /\ seen' = seen
  BY DEF chatVars
<1>2. ChatTypes'
  BY <1>1, TypesParts DEF IInv, ChatTypes
<1>3. ChatHeld'
  <2>1. HeadingsKept
    BY DEF HeadingsKept
  <2>2. \A p \in Procs : Answers(p)'
    BY <1>1, <2>1, AnswersKept, AnswersNone DEF IInv, ChatHeld
  <2>3. \A s \in Servers : Remembers(s)'
    BY <1>1, <2>1, RemembersKept
  <2> QED
    BY <2>2, <2>3 DEF ChatHeld
<1>5. Numbered'
  <2>1. \A m : Answering(m)' = Answering(m) /\ Knowing(m)' = Knowing(m)
    BY <1>1 DEF Answering, Knowing, ChatSteps
  <2> QED
    BY <1>1, <2>1 DEF IInv, Numbered
<1> QED
  BY <1>2, <1>3, <1>5

-----------------------------------------------------------------------------
(* The dashboard *)

\* An escalation as it is stored.
Escs == [conv : ConvIds, status : {"PENDING", "SENT", "FAILED"}]

\* One escalation is marked.
LEMMA MarkedType ==
    ASSUME escs \in Seq(Escs), NEW e \in EscIds, NEW status \in {"PENDING", "SENT", "FAILED"}
    PROVE  /\ Marked(e, status) \in Seq(Escs) /\ Len(Marked(e, status)) = Len(escs)
           /\ Marked(e, status)[e].conv = escs[e].conv /\ Marked(e, status)[e].status = status
           /\ \A f \in EscIds \ {e} : Marked(e, status)[f] = escs[f]
<1> DEFINE new == [escs[e] EXCEPT !.status = status]
<1>1. escs[e] \in Escs
  BY ElementOfSeq DEF EscIds
<1>2. new \in Escs /\ new.conv = escs[e].conv /\ new.status = status
  BY <1>1 DEF Escs
<1>3. Marked(e, status) = [escs EXCEPT ![e] = new]
  BY DEF Marked
<1> HIDE DEF new
<1> QED
  BY <1>2, <1>3, ExceptSeq DEF EscIds

\* A step of a task of the desk that leaves the conversations alone.
LEMMA Aside ==
    ASSUME IInv, UNCHANGED <<convs, thread, chatVars>>, TaskTypes', NEW p \in Procs,
           \A q \in Procs \ {p} : pc'[q] = pc[q] /\ loc'[q] = loc[q],
           pc[p] \notin ChatSteps, pc'[p] \notin ChatSteps
    PROVE  /\ ConvIds' = ConvIds
           /\ (ConvTypes /\ ChatTypes /\ ChatHeld /\ Numbered)'
<1>1. ConvIds' = ConvIds
  BY DEF ConvIds
<1>2. (ChatTypes /\ ChatHeld /\ Numbered)'
  BY <1>1, ChatKept
<1>3. ConvTypes'
  BY TypesParts DEF IInv, ConvTypes
<1> QED
  BY <1>1, <1>2, <1>3

\* A new conversation is open, and the others stay as they are.
LEMMA Opened ==
    ASSUME IInv, NEW heading \in Headings, OpenConversation(heading)
    PROVE  /\ ConvTypes' /\ Grows
           /\ Len(convs') = Len(convs) + 1 /\ ConvIds' = ConvIds \cup {Len(convs) + 1}
           /\ convs'[Len(convs) + 1].heading = heading
           /\ \A c \in ConvIds : thread'[c] = thread[c]
           /\ thread'[Len(convs) + 1] = {}
<1> DEFINE n == Len(convs) + 1
           C == [heading : Headings, status : {"OPEN", "ESCALATED"}]
           new == [heading |-> heading, status |-> "OPEN"]
<1>1. /\ convs \in Seq(C) /\ Len(convs) \in Nat /\ Len(convs) < MaxConvs
      /\ thread \in Seq(SUBSET Incoming) /\ Len(thread) = Len(convs)
      /\ convs' = Append(convs, new) /\ thread' = Append(thread, {})
  BY TypesParts DEF IInv, ConvTypes, OpenConversation
<1>2. new \in C /\ new.heading = heading /\ new.status = "OPEN"
  OBVIOUS
<1> HIDE DEF C, new
<1>3. /\ convs' \in Seq(C) /\ Len(convs') = n /\ convs'[n] = new
      /\ \A c \in 1..Len(convs) : convs'[c] = convs[c]
  BY <1>1, <1>2
<1>4. /\ thread' \in Seq(SUBSET Incoming) /\ Len(thread') = n /\ thread'[n] = {}
      /\ \A c \in 1..Len(convs) : thread'[c] = thread[c]
  BY <1>1
<1>5. ConvIds' = ConvIds \cup {n} /\ n \notin ConvIds
  BY <1>1, <1>3 DEF ConvIds
<1>6. Grows
  BY <1>2, <1>3, <1>5 DEF Grows, ConvIds
<1>7. ConvTypes'
  BY <1>1, <1>3, <1>4, Limits DEF ConvTypes, C
<1> QED
  BY <1>2, <1>3, <1>4, <1>5, <1>6, <1>7 DEF ConvIds

LEMMA StartChatInv == IInv /\ StartChat => IInv'
<1> SUFFICES ASSUME IInv, StartChat PROVE IInv'
  OBVIOUS
<1>1. /\ UNCHANGED <<deskVars, chatVars, pc, loc>>
      /\ \E heading \in Headings : OpenConversation(heading)
  BY PayloadsAssumption DEF StartChat, Headings
<1>2. /\ ConvTypes' /\ Grows
      /\ Len(convs') = Len(convs) + 1 /\ ConvIds' = ConvIds \cup {Len(convs) + 1}
      /\ \A c \in ConvIds : thread'[c] = thread[c]
      /\ thread'[Len(convs) + 1] = {}
  BY <1>1, Opened
<1>3. (DeskTypes /\ DeskHeld /\ StatusIsTruth /\ OneCounts)'
  BY <1>1, <1>2, DeskKept
<1>4. TaskTypes'
  BY <1>1, TypesParts DEF IInv, TaskTypes
<1>5. /\ \A s \in Servers, w \in Customers : convOf[s][w] \in 0..Len(convs)
      /\ Len(convs) \in Nat
  BY TypesParts DEF IInv, ChatTypes, ConvTypes
<1>6. ChatTypes'
  <2>1. convOf \in [Servers -> [Customers -> 0..Len(convs')]]
    BY <1>2, <1>5, TypesParts DEF IInv, ChatTypes
  <2> QED
    BY <1>1, <2>1, TypesParts DEF IInv, ChatTypes, chatVars
<1>7. ChatHeld'
  <2>1. HeadingsKept /\ convOf' = convOf /\ seen' = seen /\ pc' = pc /\ loc' = loc
    BY <1>1, <1>2 DEF HeadingsKept, Grows, chatVars
  <2> QED
    BY <2>1, AnswersKept, RemembersKept DEF IInv, ChatHeld
<1>9. Numbered'
  BY <1>1 DEF IInv, Numbered, Answering, Knowing, chatVars
<1> QED
  BY <1>2, <1>3, <1>4, <1>6, <1>7, <1>9, TypesNext DEF IInv

LEMMA ReadConversationInv ==
    ASSUME IInv, NEW p \in Procs, NEW c \in ConvIds, ReadConversation(p, c)
    PROVE  IInv'
<1> DEFINE local == [Idle EXCEPT !.conv = c]
<1>1. /\ UNCHANGED <<convs, thread, deskVars, chatVars>> /\ pc[p] = "idle"
      /\ Goto(p, "create", local) /\ "create" \in Steps
  BY DEF ReadConversation, At, Steps
<1>2. c \in 0..MaxConvs
  BY Limits, TypesParts DEF IInv, ConvTypes, ConvIds
<1>3. local \in Locals /\ local.conv = c /\ local.server = NoOne /\ local.esc = 0
  BY <1>2, IdleType DEF Locals, Idle
<1> HIDE DEF local
<1>4. /\ TaskTypes' /\ pc'[p] = "create" /\ loc'[p] = local
      /\ \A q \in Procs \ {p} : pc'[q] = pc[q] /\ loc'[q] = loc[q]
  BY <1>1, <1>3, Moved, TypesParts DEF IInv
<1>5. ConvIds' = ConvIds /\ EscIds' = EscIds
  BY <1>1 DEF ConvIds, EscIds, deskVars
<1>6. (ChatTypes /\ ChatHeld /\ Numbered)'
  BY <1>1, <1>4, <1>5, ChatKept DEF ChatSteps
<1>7. (ConvTypes /\ DeskTypes)'
  BY <1>1, <1>5, TypesParts DEF IInv, ConvTypes, DeskTypes, deskVars
<1>8. DeskHeld'
  BY <1>1, <1>3, <1>4, <1>5 DEF IInv, DeskHeld, DeskSteps, deskVars
<1>9. StatusIsTruth'
  BY <1>1, <1>4, <1>5 DEF IInv, StatusIsTruth, deskVars
<1>10. OneCounts'
  BY <1>1, <1>5 DEF IInv, OneCounts, Counts, Open, deskVars
<1> QED
  BY <1>4, <1>6, <1>7, <1>8, <1>9, <1>10, TypesNext DEF IInv

\* A second escalation is excused if there is one that is pending or was sent; the failed
\* ones were not emailed, or are excused already.
LEMMA CreateEscalationInv ==
    ASSUME IInv, NEW p \in Procs, CreateEscalation(p)
    PROVE  IInv'
<1> DEFINE c == loc[p].conv
           new == [conv |-> c, status |-> "PENDING"]
           n == Len(escs) + 1
           local == [loc[p] EXCEPT !.esc = n]
<1>1. /\ UNCHANGED <<convs, thread, emailed, abandoned, chatVars>> /\ pc[p] = "create"
      /\ Goto(p, "email", local) /\ "email" \in Steps
      /\ escs' = Append(escs, new) /\ Len(escs) < MaxEscalations
      /\ excused' = IF Escalated(c) THEN excused \cup {c} ELSE excused
  BY DEF CreateEscalation, At, Steps
<1>2. c \in ConvIds /\ loc[p].server = NoOne
  BY <1>1 DEF IInv, DeskHeld
<1>3. /\ escs \in Seq(Escs) /\ Len(escs) \in Nat
      /\ emailed \subseteq EscIds /\ abandoned \subseteq EscIds /\ excused \subseteq ConvIds
  BY TypesParts DEF IInv, DeskTypes, Escs
<1>4. /\ escs' \in Seq(Escs) /\ Len(escs') = n /\ escs'[n] = new
      /\ \A e \in EscIds : escs'[e] = escs[e]
  BY <1>1, <1>2, <1>3 DEF Escs, EscIds
<1>5. n \in 1..MaxEscalations /\ n \notin EscIds /\ EscIds' = EscIds \cup {n}
  BY <1>1, <1>3, <1>4, Limits DEF EscIds
<1>6. local \in Locals /\ local.conv = c /\ local.server = NoOne /\ local.esc = n
  <2>1. loc[p] \in Locals /\ n \in 0..MaxEscalations
    BY <1>5, Limits, TypesParts DEF IInv, TaskTypes
  <2> HIDE DEF n
  <2> QED
    BY <1>2, <2>1 DEF Locals
<1>7. new.conv = c /\ new.status = "PENDING"
  OBVIOUS
<1> HIDE DEF local, new, n, c
<1>8. /\ TaskTypes' /\ pc'[p] = "email" /\ loc'[p] = local
      /\ \A q \in Procs \ {p} : pc'[q] = pc[q] /\ loc'[q] = loc[q]
  BY <1>1, <1>6, Moved, TypesParts DEF IInv
<1>9. ConvIds' = ConvIds
  BY <1>1 DEF ConvIds
<1>10. (ChatTypes /\ ChatHeld /\ Numbered)'
  BY <1>1, <1>8, <1>9, ChatKept DEF ChatSteps
<1>11. (ConvTypes /\ DeskTypes)'
  BY <1>1, <1>2, <1>3, <1>4, <1>5, <1>9, TypesParts DEF IInv, ConvTypes, DeskTypes, Escs
<1>12. DeskHeld'
  <2>1. \A q \in Procs \ {p} : pc[q] \in DeskSteps => loc[q].esc \in EscIds
    BY DEF IInv, DeskHeld
  <2>2. ASSUME NEW q \in Procs
        PROVE  /\ pc'[q] \in DeskSteps \cup {"create"}
                    => loc'[q].conv \in ConvIds' /\ loc'[q].server = NoOne
               /\ pc'[q] \in DeskSteps
                    => loc'[q].esc \in EscIds' /\ escs'[loc'[q].esc].conv = loc'[q].conv
               /\ pc'[q] \notin DeskSteps => loc'[q].esc = 0
               /\ pc'[q] \in {"email", "sent"} => escs'[loc'[q].esc].status = "PENDING"
               /\ pc'[q] \in {"sent", "conversation"} => loc'[q].esc \in emailed'
    <3>1. CASE q = p
      BY <1>2, <1>4, <1>5, <1>6, <1>7, <1>8, <1>9, <3>1 DEF DeskSteps
    <3>2. CASE q # p
      <4>1. pc'[q] = pc[q] /\ loc'[q] = loc[q] /\ emailed' = emailed
        BY <1>1, <1>8, <3>2
      <4>2. pc[q] \in DeskSteps => escs'[loc[q].esc] = escs[loc[q].esc] /\ loc[q].esc \in EscIds'
        BY <1>4, <1>5, <2>1, <3>2
      <4> QED
        BY <1>9, <4>1, <4>2 DEF IInv, DeskHeld, DeskSteps
    <3> QED
      BY <3>1, <3>2
  <2>3. ASSUME NEW q \in Procs, NEW r \in Procs,
               pc'[q] \in DeskSteps, pc'[r] \in DeskSteps, q # r
        PROVE  loc'[q].esc # loc'[r].esc
    BY <1>5, <1>6, <1>8, <2>1, <2>3 DEF IInv, DeskHeld
  <2> QED
    BY <2>2, <2>3 DEF DeskHeld
<1>13. StatusIsTruth'
  <2>1. ASSUME NEW e \in EscIds'
        PROVE  /\ escs'[e].status = "SENT" => e \in emailed'
               /\ escs'[e].status = "PENDING" =>
                     \/ \E q \in Procs : loc'[q].esc = e /\ pc'[q] \in {"email", "sent", "failed"}
                     \/ e \in abandoned'
    <3>1. CASE e = n
      BY <1>4, <1>6, <1>7, <1>8, <3>1
    <3>2. CASE e \in EscIds
      <4>1. escs'[e] = escs[e] /\ emailed' = emailed /\ abandoned' = abandoned
        BY <1>1, <1>4, <3>2
      <4>2. \A q \in Procs : pc[q] \in {"email", "sent", "failed"} =>
                               pc'[q] = pc[q] /\ loc'[q] = loc[q]
        BY <1>1, <1>8
      <4> QED
        BY <3>2, <4>1, <4>2 DEF IInv, StatusIsTruth
    <3> QED
      BY <1>5, <3>1, <3>2
  <2>2. \A d \in ConvIds' : convs'[d].status = "ESCALATED" =>
            \E e \in emailed' : escs'[e].conv = d
    BY <1>1, <1>3, <1>4, <1>9 DEF IInv, StatusIsTruth
  <2> QED
    BY <2>1, <2>2 DEF StatusIsTruth
<1>14. OneCounts'
  <2>1. ASSUME NEW e \in EscIds, escs[e].conv = c, Counts(e)
        PROVE  c \in excused'
    <3>1. escs[e].status \in {"PENDING", "SENT", "FAILED"}
      <4>1. escs[e] \in Escs
        BY <1>3, ElementOfSeq DEF EscIds
      <4> QED
        BY <4>1 DEF Escs
    <3>2. CASE Open(e)
      BY <1>1, <2>1, <3>2 DEF Escalated
    <3>3. CASE ~Open(e)
      BY <1>1, <2>1, <3>1, <3>3 DEF IInv, OneCounts, Counts, Open
    <3> QED
      BY <3>2, <3>3
  <2>2. \A e \in EscIds : Counts(e)' => Counts(e)
    BY <1>1, <1>4 DEF Counts, Open
  <2>3. n \notin emailed'
    BY <1>1, <1>3, <1>5
  <2>4. excused \subseteq excused' /\ emailed' = emailed
    BY <1>1
  <2>5. ASSUME NEW e \in EscIds', NEW f \in EscIds', e # f, escs'[e].conv = escs'[f].conv,
               Counts(e)', Counts(f)'
        PROVE  escs'[e].conv \in excused'
    <3>1. CASE e \in EscIds /\ f \in EscIds
      BY <1>4, <2>2, <2>4, <2>5, <3>1 DEF IInv, OneCounts
    <3>2. CASE e = n
      BY <1>4, <1>5, <1>7, <2>1, <2>2, <2>5, <3>2
    <3>3. CASE f = n
      BY <1>4, <1>5, <1>7, <2>1, <2>2, <2>5, <3>3
    <3> QED
      BY <1>5, <3>1, <3>2, <3>3
  <2>6. ASSUME NEW e \in EscIds', escs'[e].status = "FAILED", e \in emailed'
        PROVE  escs'[e].conv \in excused'
    BY <1>4, <1>5, <2>3, <2>4, <2>6 DEF IInv, OneCounts
  <2> QED
    BY <2>5, <2>6 DEF OneCounts
<1> QED
  BY <1>8, <1>10, <1>11, <1>12, <1>13, <1>14, TypesNext DEF IInv

LEMMA DeliverInv ==
    ASSUME IInv, NEW p \in Procs, NEW goesOut \in BOOLEAN, NEW ok \in BOOLEAN,
           DeliverEscalationEmail(p, goesOut, ok)
    PROVE  IInv'
<1> DEFINE e == loc[p].esc
           to == IF ok THEN "sent" ELSE "failed"
<1>1. /\ UNCHANGED <<convs, thread, escs, excused, abandoned, chatVars>> /\ pc[p] = "email"
      /\ Goto(p, to, loc[p]) /\ to \in Steps /\ to \in {"sent", "failed"}
      /\ to = "sent" => e \in emailed'
      /\ emailed' = emailed \/ emailed' = emailed \cup {e}
  BY DEF DeliverEscalationEmail, Step, At, Steps
<1>2. /\ e \in EscIds /\ escs[e].status = "PENDING" /\ escs[e].conv = loc[p].conv
      /\ loc[p].conv \in ConvIds /\ loc[p].server = NoOne
  BY <1>1 DEF IInv, DeskHeld, DeskSteps
<1> HIDE DEF to
<1>3. /\ TaskTypes' /\ pc'[p] = to /\ loc' = loc
      /\ \A q \in Procs \ {p} : pc'[q] = pc[q]
  <2>1. loc[p] \in Locals
    BY TypesParts DEF IInv, TaskTypes
  <2> QED
    BY <1>1, <2>1, Moved, TypesParts DEF IInv, TaskTypes, Goto
<1>4. /\ ConvIds' = ConvIds /\ EscIds' = EscIds
      /\ (ConvTypes /\ ChatTypes /\ ChatHeld /\ Numbered)'
  BY <1>1, <1>3, Aside DEF ChatSteps, EscIds
<1>5. DeskTypes'
  BY <1>1, <1>2, <1>4, TypesParts DEF IInv, DeskTypes
<1>6. DeskHeld'
  BY <1>1, <1>2, <1>3, <1>4 DEF IInv, DeskHeld, DeskSteps
<1>7. StatusIsTruth'
  BY <1>1, <1>3, <1>4 DEF IInv, StatusIsTruth
<1>8. OneCounts'
  <2>1. \A f \in EscIds : Counts(f)' => Counts(f)
    BY <1>1, <1>2 DEF Counts, Open
  <2> QED
    BY <1>1, <1>2, <1>4, <2>1 DEF IInv, OneCounts
<1> QED
  BY <1>3, <1>4, <1>5, <1>6, <1>7, <1>8, TypesNext DEF IInv

LEMMA MarkSentInv ==
    ASSUME IInv, NEW p \in Procs, MarkSent(p)
    PROVE  IInv'
<1> DEFINE e == loc[p].esc
<1>1. /\ UNCHANGED <<convs, thread, emailed, excused, abandoned, chatVars>> /\ pc[p] = "sent"
      /\ Goto(p, "conversation", loc[p]) /\ "conversation" \in Steps
      /\ escs' = Marked(e, "SENT")
  BY DEF MarkSent, Step, At, Steps
<1>2. /\ e \in EscIds /\ e \in emailed /\ escs[e].conv = loc[p].conv
      /\ loc[p].conv \in ConvIds /\ loc[p].server = NoOne
  BY <1>1 DEF IInv, DeskHeld, DeskSteps
<1>3. /\ TaskTypes' /\ pc'[p] = "conversation" /\ loc' = loc
      /\ \A q \in Procs \ {p} : pc'[q] = pc[q]
  <2>1. loc[p] \in Locals
    BY TypesParts DEF IInv, TaskTypes
  <2> QED
    BY <1>1, <2>1, Moved, TypesParts DEF IInv, TaskTypes, Goto
<1>4. /\ ConvIds' = ConvIds
      /\ (ConvTypes /\ ChatTypes /\ ChatHeld /\ Numbered)'
  BY <1>1, <1>3, Aside DEF ChatSteps
<1>5. escs \in Seq(Escs)
  BY TypesParts DEF IInv, DeskTypes, Escs
<1>6. /\ escs' \in Seq(Escs) /\ Len(escs') = Len(escs)
      /\ escs'[e].conv = escs[e].conv /\ escs'[e].status = "SENT"
      /\ \A f \in EscIds \ {e} : escs'[f] = escs[f]
  BY <1>1, <1>2, <1>5, MarkedType
<1>7. EscIds' = EscIds /\ \A f \in EscIds : escs'[f].conv = escs[f].conv
  BY <1>6 DEF EscIds
<1>8. DeskTypes'
  BY <1>1, <1>4, <1>6, <1>7, TypesParts DEF IInv, DeskTypes, Escs
<1> HIDE DEF e
<1>9. DeskHeld'
  <2>1. \A q \in Procs \ {p} : pc[q] \in DeskSteps => loc[q].esc \in EscIds \ {e}
    BY <1>1 DEF IInv, DeskHeld, DeskSteps, e
  <2>2. \A q \in Procs : pc'[q] \in DeskSteps <=> pc[q] \in DeskSteps
    BY <1>1, <1>3 DEF DeskSteps
  <2> QED
    BY <1>1, <1>2, <1>3, <1>4, <1>6, <1>7, <2>1, <2>2 DEF IInv, DeskHeld, DeskSteps, e
<1>10. StatusIsTruth'
  <2>1. \A f \in EscIds : escs'[f].status = "SENT" => f \in emailed'
    BY <1>1, <1>2, <1>6 DEF IInv, StatusIsTruth
  <2>2. ASSUME NEW f \in EscIds, escs'[f].status = "PENDING"
        PROVE  \/ \E q \in Procs : loc'[q].esc = f /\ pc'[q] \in {"email", "sent", "failed"}
               \/ f \in abandoned'
    <3>1. f # e /\ escs[f].status = "PENDING"
      BY <1>6, <2>2
    <3> QED
      BY <1>1, <1>3, <3>1 DEF IInv, StatusIsTruth, e
  <2>3. \A c \in ConvIds : convs'[c].status = "ESCALATED" => \E f \in emailed' : escs'[f].conv = c
    BY <1>1, <1>7, TypesParts DEF IInv, StatusIsTruth, DeskTypes
  <2> QED
    BY <1>4, <1>7, <2>1, <2>2, <2>3 DEF StatusIsTruth
<1>11. OneCounts'
  <2>1. \A f \in EscIds : Counts(f)' => Counts(f)
    BY <1>1, <1>2, <1>6 DEF Counts, Open
  <2>2. \A f \in EscIds : escs'[f].status = "FAILED" => escs[f].status = "FAILED"
    BY <1>6
  <2> QED
    BY <1>1, <1>7, <2>1, <2>2 DEF IInv, OneCounts
<1> QED
  BY <1>3, <1>4, <1>8, <1>9, <1>10, <1>11, TypesNext DEF IInv

LEMMA WriteFailsInv ==
    ASSUME IInv, NEW p \in Procs, WriteFails(p)
    PROVE  IInv'
<1>1. /\ UNCHANGED <<convs, thread, escs, emailed, excused, abandoned, chatVars>>
      /\ pc[p] \in {"sent", "conversation"}
      /\ Goto(p, "failed", loc[p]) /\ "failed" \in Steps
  BY DEF WriteFails, deskVars, Steps
<1>2. /\ TaskTypes' /\ pc'[p] = "failed" /\ loc' = loc
      /\ \A q \in Procs \ {p} : pc'[q] = pc[q]
  <2>1. loc[p] \in Locals
    BY TypesParts DEF IInv, TaskTypes
  <2> QED
    BY <1>1, <2>1, Moved, TypesParts DEF IInv, TaskTypes, Goto
<1>3. /\ ConvIds' = ConvIds /\ EscIds' = EscIds
      /\ (ConvTypes /\ ChatTypes /\ ChatHeld /\ Numbered)'
  BY <1>1, <1>2, Aside DEF ChatSteps, EscIds
<1>4. DeskTypes' /\ OneCounts'
  BY <1>1, <1>3, TypesParts DEF IInv, DeskTypes, OneCounts, Counts, Open
<1>5. DeskHeld'
  BY <1>1, <1>2, <1>3 DEF IInv, DeskHeld, DeskSteps
<1>6. StatusIsTruth'
  BY <1>1, <1>2, <1>3 DEF IInv, StatusIsTruth
<1> QED
  BY <1>2, <1>3, <1>4, <1>5, <1>6, TypesNext DEF IInv

\* One whose email went out is excused when it is marked as failed.
LEMMA MarkFailedInv ==
    ASSUME IInv, NEW p \in Procs, MarkFailed(p)
    PROVE  IInv'
<1> DEFINE e == loc[p].esc
<1>1. /\ UNCHANGED <<convs, thread, emailed, abandoned, chatVars>> /\ pc[p] = "failed"
      /\ Goto(p, "idle", Idle) /\ "idle" \in Steps
      /\ escs' = Marked(e, "FAILED")
      /\ excused' = IF e \in emailed THEN excused \cup {loc[p].conv} ELSE excused
  BY DEF MarkFailed, Leave, At, Steps
<1>2. /\ e \in EscIds /\ escs[e].conv = loc[p].conv /\ loc[p].conv \in ConvIds
  BY <1>1 DEF IInv, DeskHeld, DeskSteps
<1>3. /\ TaskTypes' /\ pc'[p] = "idle" /\ loc'[p] = Idle
      /\ \A q \in Procs \ {p} : pc'[q] = pc[q] /\ loc'[q] = loc[q]
  BY <1>1, IdleType, Moved, TypesParts DEF IInv
<1>4. /\ ConvIds' = ConvIds
      /\ (ConvTypes /\ ChatTypes /\ ChatHeld /\ Numbered)'
  BY <1>1, <1>3, Aside DEF ChatSteps
<1>5. escs \in Seq(Escs)
  BY TypesParts DEF IInv, DeskTypes, Escs
<1>6. /\ escs' \in Seq(Escs) /\ Len(escs') = Len(escs)
      /\ escs'[e].conv = escs[e].conv /\ escs'[e].status = "FAILED"
      /\ \A f \in EscIds \ {e} : escs'[f] = escs[f]
  BY <1>1, <1>2, <1>5, MarkedType
<1>7. EscIds' = EscIds /\ \A f \in EscIds : escs'[f].conv = escs[f].conv
  BY <1>6 DEF EscIds
<1>8. DeskTypes'
  BY <1>1, <1>2, <1>4, <1>6, <1>7, TypesParts DEF IInv, DeskTypes, Escs
<1>9. DeskHeld'
  <2>1. \A q \in Procs \ {p} : pc[q] \in DeskSteps => loc[q].esc \in EscIds \ {e}
    BY <1>1 DEF IInv, DeskHeld, DeskSteps
  <2>2. Idle.esc = 0
    BY DEF Idle
  <2> QED
    BY <1>1, <1>3, <1>4, <1>6, <1>7, <2>1, <2>2 DEF IInv, DeskHeld, DeskSteps
<1> HIDE DEF e
<1>10. StatusIsTruth'
  <2>1. \A f \in EscIds : escs'[f].status = "SENT" => f \in emailed'
    BY <1>1, <1>6 DEF IInv, StatusIsTruth
  <2>2. ASSUME NEW f \in EscIds, escs'[f].status = "PENDING"
        PROVE  \/ \E q \in Procs : loc'[q].esc = f /\ pc'[q] \in {"email", "sent", "failed"}
               \/ f \in abandoned'
    <3>1. f # e /\ escs[f].status = "PENDING"
      BY <1>6, <2>2
    <3> QED
      BY <1>1, <1>3, <3>1 DEF IInv, StatusIsTruth, e
  <2>3. \A c \in ConvIds : convs'[c].status = "ESCALATED" => \E f \in emailed' : escs'[f].conv = c
    BY <1>1, <1>7, TypesParts DEF IInv, StatusIsTruth, DeskTypes
  <2> QED
    BY <1>4, <1>7, <2>1, <2>2, <2>3 DEF StatusIsTruth
<1>11. OneCounts'
  <2>1. \A f \in EscIds : Counts(f)' => Counts(f)
    BY <1>1, <1>2, <1>6 DEF Counts, Open
  <2>2. \A f \in EscIds : f # e /\ escs'[f].status = "FAILED" => escs[f].status = "FAILED"
    BY <1>6
  <2>3. excused \subseteq excused' /\ (e \in emailed => escs[e].conv \in excused')
    BY <1>1, <1>2
  <2> QED
    BY <1>1, <1>7, <2>1, <2>2, <2>3 DEF IInv, OneCounts
<1> QED
  BY <1>3, <1>4, <1>8, <1>9, <1>10, <1>11, TypesNext DEF IInv

LEMMA MarkConversationInv ==
    ASSUME IInv, NEW p \in Procs, MarkConversation(p)
    PROVE  IInv'
<1> DEFINE c == loc[p].conv
           C == [heading : Headings, status : {"OPEN", "ESCALATED"}]
           new == [convs[c] EXCEPT !.status = "ESCALATED"]
<1>1. /\ UNCHANGED <<thread, deskVars, chatVars>> /\ pc[p] = "conversation"
      /\ Goto(p, "idle", Idle) /\ "idle" \in Steps
      /\ convs' = [convs EXCEPT ![c] = new]
  BY DEF MarkConversation, Leave, At, Steps
<1>2. /\ c \in ConvIds /\ loc[p].esc \in EscIds /\ loc[p].esc \in emailed
      /\ escs[loc[p].esc].conv = c
  BY <1>1 DEF IInv, DeskHeld, DeskSteps
<1>3. /\ TaskTypes' /\ pc'[p] = "idle" /\ loc'[p] = Idle
      /\ \A q \in Procs \ {p} : pc'[q] = pc[q] /\ loc'[q] = loc[q]
  BY <1>1, IdleType, Moved, TypesParts DEF IInv
<1>4. convs \in Seq(C) /\ convs[c] \in C
  BY <1>2, ElementOfSeq, TypesParts DEF IInv, ConvTypes, ConvIds
<1>5. new \in C /\ new.heading = convs[c].heading
  BY <1>4
<1> HIDE DEF C, new
<1>6. /\ convs' \in Seq(C) /\ Len(convs') = Len(convs)
      /\ convs'[c] = new /\ \A d \in ConvIds \ {c} : convs'[d] = convs[d]
  BY <1>1, <1>2, <1>4, <1>5, ExceptSeq DEF ConvIds
<1>7. ConvIds' = ConvIds /\ EscIds' = EscIds /\ \A d \in ConvIds : convs'[d].heading = convs[d].heading
  BY <1>1, <1>5, <1>6 DEF ConvIds, EscIds, deskVars
<1> HIDE DEF c
<1>8. (ChatTypes /\ ChatHeld /\ Numbered)'
  BY <1>1, <1>3, <1>6, <1>7, ChatKept DEF ChatSteps
<1>9. ConvTypes' /\ DeskTypes'
  BY <1>1, <1>6, <1>7, TypesParts DEF IInv, ConvTypes, DeskTypes, deskVars, C
<1>10. DeskHeld'
  BY <1>1, <1>3, <1>7 DEF IInv, DeskHeld, DeskSteps, deskVars, Idle
<1>11. StatusIsTruth'
  <2>1. escs' = escs /\ emailed' = emailed /\ abandoned' = abandoned
    BY <1>1 DEF deskVars
  <2>2. \A d \in ConvIds : convs'[d].status = "ESCALATED" => \E e \in emailed' : escs'[e].conv = d
    BY <1>2, <1>6, <2>1 DEF IInv, StatusIsTruth, c
  <2>3. \A q \in Procs : pc[q] \in {"email", "sent", "failed"} => pc'[q] = pc[q] /\ loc'[q] = loc[q]
    BY <1>1, <1>3
  <2> QED
    BY <1>7, <2>1, <2>2, <2>3 DEF IInv, StatusIsTruth
<1>12. OneCounts'
  BY <1>1, <1>7 DEF IInv, OneCounts, Counts, Open, deskVars
<1> QED
  BY <1>3, <1>8, <1>9, <1>10, <1>11, <1>12, TypesNext DEF IInv

-----------------------------------------------------------------------------
(* The assistant *)

\* Fewer answers under way, and no other change to the count, keep it.
LEMMA AnsweringShrinks ==
    ASSUME NEW m, Answering(m)' \subseteq Answering(m)
    PROVE  Cardinality(Answering(m)') <= Cardinality(Answering(m))
<1>1. IsFiniteSet(Answering(m))
  BY ServersAssumption, FS_Subset DEF Answering
<1> QED
  BY <1>1, FS_Subset

LEMMA Counting ==
    ASSUME NEW m
    PROVE  /\ IsFiniteSet(Answering(m)) /\ Cardinality(Answering(m)) \in Nat
           /\ IsFiniteSet(Knowing(m)) /\ Cardinality(Knowing(m)) \in Nat
<1>1. IsFiniteSet(Answering(m)) /\ IsFiniteSet(Knowing(m))
  BY ServersAssumption, FS_Subset DEF Answering, Knowing
<1> QED
  BY <1>1, FS_CardinalityType

LEMMA CountingNext ==
    ASSUME NEW m
    PROVE  /\ IsFiniteSet(Answering(m)') /\ Cardinality(Answering(m)') \in Nat
           /\ IsFiniteSet(Knowing(m)') /\ Cardinality(Knowing(m)') \in Nat
<1>1. IsFiniteSet(Answering(m)') /\ IsFiniteSet(Knowing(m)')
  BY ServersAssumption, FS_Subset DEF Answering, Knowing
<1> QED
  BY <1>1, FS_CardinalityType

\* The count of a message stands if its answers do not grow and its servers do not shrink.
LEMMA NumberedKept ==
    ASSUME IInv, UNCHANGED <<memory, restarts, replies, evicted>>,
           \A m : Answering(m)' \subseteq Answering(m)
    PROVE  Numbered'
<1>1. \A m : Knowing(m)' = Knowing(m)
  BY DEF Knowing
<1>2. ASSUME NEW m \in Incoming, m \notin evicted'
      PROVE  replies'[m] + Cardinality(Answering(m)') <= Cardinality(Knowing(m)') + restarts'
  <2>1. Cardinality(Answering(m)') <= Cardinality(Answering(m))
    BY AnsweringShrinks
  <2>2. replies[m] \in Nat /\ restarts \in Nat
    BY Limits, TypesParts DEF IInv, ChatTypes
  <2>3. replies[m] + Cardinality(Answering(m)) <= Cardinality(Knowing(m)) + restarts
    BY <1>2 DEF IInv, Numbered
  <2> QED
    BY <1>1, <2>1, <2>2, <2>3, Counting, CountingNext
<1> QED
  BY <1>2 DEF Numbered

LEMMA StopInv ==
    ASSUME IInv, NEW p \in Procs, Stop(p)
    PROVE  IInv'
<1>1. /\ UNCHANGED <<convs, thread, escs, emailed, excused, chatVars>>
      /\ Goto(p, "idle", Idle) /\ "idle" \in Steps
      /\ abandoned' = abandoned \cup {e \in {loc[p].esc} \cap EscIds : escs[e].status = "PENDING"}
  BY DEF Stop, Leave, Steps
<1>2. /\ TaskTypes' /\ pc'[p] = "idle" /\ loc'[p] = Idle
      /\ \A q \in Procs \ {p} : pc'[q] = pc[q] /\ loc'[q] = loc[q]
  BY <1>1, IdleType, Moved, TypesParts DEF IInv
<1>3. ConvIds' = ConvIds /\ EscIds' = EscIds
  BY <1>1 DEF ConvIds, EscIds
<1>4. (ConvTypes /\ DeskTypes /\ ChatTypes)'
  BY <1>1, <1>3, TypesParts DEF IInv, ConvTypes, DeskTypes, ChatTypes, chatVars
<1>5. DeskHeld'
  BY <1>1, <1>2, <1>3 DEF IInv, DeskHeld, DeskSteps, Idle
<1>6. StatusIsTruth'
  <2>1. ASSUME NEW e \in EscIds, escs[e].status = "PENDING"
        PROVE  \/ \E q \in Procs : loc'[q].esc = e /\ pc'[q] \in {"email", "sent", "failed"}
               \/ e \in abandoned'
    BY <1>1, <1>2, <2>1 DEF IInv, StatusIsTruth
  <2> QED
    BY <1>1, <1>3, <2>1 DEF IInv, StatusIsTruth
<1>7. OneCounts'
  BY <1>1, <1>3 DEF IInv, OneCounts, Counts, Open
<1>8. ChatHeld'
  <2>1. HeadingsKept /\ convOf' = convOf /\ seen' = seen
    BY <1>1, <1>3 DEF HeadingsKept, chatVars
  <2>2. \A q \in Procs : Answers(q)'
    BY <1>2, <2>1, AnswersKept, AnswersNone DEF IInv, ChatHeld, ChatSteps
  <2> QED
    BY <2>1, <2>2, RemembersKept DEF ChatHeld
<1>9. Numbered'
  <2>1. \A m : Answering(m)' \subseteq Answering(m)
    BY <1>2 DEF Answering
  <2> QED
    BY <1>1, <2>1, NumberedKept DEF chatVars
<1> QED
  BY <1>2, <1>4, <1>5, <1>6, <1>7, <1>8, <1>9, TypesNext DEF IInv

\* A server remembers the message it has just seen, no more than it can hold, and what it
\* forgets counts as pushed out.
LEMMA RememberedFacts ==
    ASSUME NEW s \in Servers, NEW m \in Incoming, memory[s] \in Seq(Incoming),
           Len(memory[s]) <= MemorySize
    PROVE  /\ Remembered(s, m) \in Seq(Incoming) /\ Len(Remembered(s, m)) <= MemorySize
           /\ Contains(Remembered(s, m), m)
           /\ \A n : Contains(memory[s], n) /\ ~Contains(Remembered(s, m), n) =>
                    n \in ToSet(memory[s]) \ ToSet(Remembered(s, m))
<1> DEFINE ids == Append(memory[s], m)
           l == Len(memory[s])
           R == Remembered(s, m)
<1>1. ids \in Seq(Incoming) /\ Len(ids) = l + 1 /\ ids[l + 1] = m /\ l \in Nat
  OBVIOUS
<1>2. MemorySize \in Nat \ {0}
  BY Limits
<1> HIDE DEF ids, l
<1>3. CASE Len(ids) > MemorySize
  <2>1. R = Tail(ids) /\ ids # << >>
    BY <1>1, <1>2, <1>3 DEF Remembered, ids
  <2>2. R \in Seq(Incoming) /\ Len(R) = l /\ \A i \in 1..l : R[i] = ids[i + 1]
    BY <1>1, <2>1, HeadTailProperties
  <2>3. l \in 1..l /\ R[l] = m
    BY <1>1, <1>2, <1>3, <2>2
  <2> QED
    BY <1>1, <2>2, <2>3 DEF l, Contains, ToSet
<1>4. CASE ~(Len(ids) > MemorySize)
  <2>1. R = ids
    BY <1>4 DEF Remembered, ids
  <2>2. R \in Seq(Incoming) /\ Len(R) = l + 1 /\ R[l + 1] = m /\ l + 1 \in 1..Len(R)
    BY <1>1, <2>1
  <2> QED
    BY <1>1, <1>2, <1>4, <2>2 DEF l, Contains, ToSet
<1> QED
  BY <1>3, <1>4

\* A step of a task of the assistant that leaves the conversations alone.
LEMMA DeskAside ==
    ASSUME IInv, UNCHANGED <<convs, thread, deskVars>>, NEW p \in Procs,
           \A q \in Procs \ {p} : pc'[q] = pc[q] /\ loc'[q] = loc[q],
           pc[p] \notin DeskSteps \cup {"create"}, pc'[p] \notin DeskSteps \cup {"create"},
           loc'[p].esc = 0
    PROVE  ConvIds' = ConvIds /\ (ConvTypes /\ DeskTypes /\ DeskHeld /\ StatusIsTruth /\ OneCounts)'
<1>1. ConvIds' = ConvIds /\ Grows
  BY DEF ConvIds, Grows
<1>2. (DeskTypes /\ DeskHeld /\ StatusIsTruth /\ OneCounts)'
  BY <1>1, DeskKept
<1>3. ConvTypes'
  BY TypesParts DEF IInv, ConvTypes
<1> QED
  BY <1>1, <1>2, <1>3

LEMMA IncomingInv ==
    ASSUME IInv, NEW p \in Procs, NEW s \in Servers, NEW m \in Incoming,
           HandleIncomingWebhook(p, s, m)
    PROVE  IInv'
<1> DEFINE local == [Idle EXCEPT !.server = s, !.message = m]
<1>1. /\ UNCHANGED <<convs, thread, deskVars, convOf, restarts, replies>> /\ pc[p] = "idle"
      /\ Goto(p, "reply", local) /\ "reply" \in Steps
      /\ ~Contains(memory[s], m) /\ deliveries' \in 0..MaxDeliveries
      /\ memory' = [memory EXCEPT ![s] = Remembered(s, m)]
      /\ evicted' = evicted \cup (ToSet(memory[s]) \ ToSet(memory'[s]))
      /\ seen' = [seen EXCEPT ![s] = @ \cup {m}]
  BY Limits, TypesParts DEF IInv, ChatTypes, HandleIncomingWebhook, At, Steps
<1>2. local \in Locals /\ local.message = m /\ local.server = s /\ local.esc = 0
  BY IdleType DEF Locals, Idle
<1> HIDE DEF local
<1>3. /\ TaskTypes' /\ pc'[p] = "reply" /\ loc'[p] = local
      /\ \A q \in Procs \ {p} : pc'[q] = pc[q] /\ loc'[q] = loc[q]
  BY <1>1, <1>2, Moved, TypesParts DEF IInv
<1>4. ConvIds' = ConvIds /\ (ConvTypes /\ DeskTypes /\ DeskHeld /\ StatusIsTruth /\ OneCounts)'
  BY <1>1, <1>2, <1>3, DeskAside DEF DeskSteps
<1>5. memory \in [Servers -> Seq(Incoming)] /\ \A t \in Servers : Len(memory[t]) <= MemorySize
  BY TypesParts DEF IInv, ChatTypes
<1>6. /\ memory'[s] = Remembered(s, m) /\ \A t \in Servers \ {s} : memory'[t] = memory[t]
      /\ memory' \in [Servers -> Seq(Incoming)]
      /\ \A t \in Servers : Len(memory'[t]) <= MemorySize
  BY <1>1, <1>5, RememberedFacts
<1>7. /\ Contains(memory'[s], m)
      /\ \A n : Contains(memory[s], n) /\ ~Contains(memory'[s], n) => n \in evicted'
  BY <1>1, <1>5, <1>6, RememberedFacts
<1>8. ChatTypes'
  <2>1. ToSet(memory[s]) \subseteq Incoming
    BY <1>5 DEF ToSet
  <2>2. seen' \in [Servers -> SUBSET Incoming]
    BY <1>1, TypesParts DEF IInv, ChatTypes
  <2> QED
    BY <1>1, <1>6, <2>1, <2>2, TypesParts DEF IInv, ChatTypes
<1>9. ChatHeld'
  <2>1. seen \in [Servers -> SUBSET Incoming]
    BY TypesParts DEF IInv, ChatTypes
  <2>2. m \in seen'[s] /\ \A t \in Servers : seen[t] \subseteq seen'[t]
    BY <1>1, <2>1
  <2>3. HeadingsKept
    BY <1>1, <1>4 DEF HeadingsKept
  <2>4. Answers(p)'
    BY <1>2, <1>3, <2>2 DEF Answers
  <2>5. \A q \in Procs \ {p} : Answers(q)'
    <3>1. \A q \in Procs : pc[q] \in ChatSteps => loc[q].server \in Servers
      BY DEF IInv, ChatHeld, Answers
    <3> QED
      BY <1>3, <2>2, <2>3, <3>1, AnswersKept DEF IInv, ChatHeld
  <2>6. \A t \in Servers : Remembers(t)'
    BY <1>1, <2>2, <2>3, RemembersKept
  <2> QED
    BY <2>4, <2>5, <2>6 DEF ChatHeld
<1>10. Numbered'
  <2> SUFFICES ASSUME NEW n \in Incoming, n \notin evicted'
               PROVE  replies'[n] + Cardinality(Answering(n)')
                        <= Cardinality(Knowing(n)') + restarts'
    BY DEF Numbered
  <2>1. replies[n] \in Nat /\ restarts \in Nat
    BY Limits, TypesParts DEF IInv, ChatTypes
  <2>2. replies[n] + Cardinality(Answering(n)) <= Cardinality(Knowing(n)) + restarts
    BY <1>1 DEF IInv, Numbered
  <2>3. Knowing(n) \subseteq Knowing(n)'
    BY <1>6, <1>7 DEF Knowing
  <2>4. CASE n = m
    <3>1. Answering(n)' = Answering(n) \cup {p} /\ p \notin Answering(n)
      BY <1>1, <1>2, <1>3, <2>4 DEF Answering
    <3>2. Cardinality(Answering(n)') = Cardinality(Answering(n)) + 1
      BY <3>1, Counting, FS_AddElement
    <3>3. s \notin Knowing(n) /\ Knowing(n) \cup {s} \subseteq Knowing(n)'
      BY <1>1, <1>7, <2>3, <2>4 DEF Knowing
    <3>4. Cardinality(Knowing(n) \cup {s}) = Cardinality(Knowing(n)) + 1
      BY <3>3, Counting, FS_AddElement
    <3>5. Cardinality(Knowing(n) \cup {s}) <= Cardinality(Knowing(n)')
      BY <3>3, CountingNext, FS_Subset
    <3> QED
      BY <1>1, <2>1, <2>2, <3>2, <3>4, <3>5, Counting, CountingNext
  <2>5. CASE n # m
    <3>1. Answering(n)' = Answering(n)
      BY <1>1, <1>2, <1>3, <2>5 DEF Answering
    <3>2. Cardinality(Knowing(n)) <= Cardinality(Knowing(n)')
      BY <2>3, CountingNext, FS_Subset
    <3> QED
      BY <1>1, <2>1, <2>2, <3>1, <3>2, Counting, CountingNext
  <2> QED
    BY <2>4, <2>5
<1> QED
  BY <1>3, <1>4, <1>8, <1>9, <1>10, TypesNext DEF IInv

LEMMA SendInv ==
    ASSUME IInv, NEW p \in Procs, NEW goesOut \in BOOLEAN, NEW throws \in BOOLEAN,
           SendTextMessage(p, goesOut, throws)
    PROVE  IInv'
<1> DEFINE m == loc[p].message
           to == IF throws THEN "idle" ELSE "recall"
           local == IF throws THEN Idle ELSE loc[p]
<1>1. /\ UNCHANGED <<convs, thread, deskVars, memory, convOf, restarts, deliveries, evicted, seen>>
      /\ pc[p] = "reply" /\ Goto(p, to, local) /\ to \in Steps
      /\ replies' = IF goesOut THEN [replies EXCEPT ![m] = @ + 1] ELSE replies
  BY DEF SendTextMessage, Leave, At, Steps
<1>2. m \in Incoming /\ loc[p].server \in Servers /\ loc[p].esc = 0 /\ loc[p] \in Locals
  BY <1>1, TypesParts DEF IInv, ChatHeld, Answers, DeskHeld, ChatSteps, DeskSteps, TaskTypes
<1>3. /\ to \in {"idle", "recall"} /\ local \in Locals /\ local.esc = 0
      /\ to = "recall" => local = loc[p]
  BY <1>2, IdleType DEF Idle
<1> HIDE DEF to, local, m
<1>4. /\ TaskTypes' /\ pc'[p] = to /\ loc'[p] = local
      /\ \A q \in Procs \ {p} : pc'[q] = pc[q] /\ loc'[q] = loc[q]
  BY <1>1, <1>3, Moved, TypesParts DEF IInv
<1>5. ConvIds' = ConvIds /\ (ConvTypes /\ DeskTypes /\ DeskHeld /\ StatusIsTruth /\ OneCounts)'
  BY <1>1, <1>3, <1>4, DeskAside DEF DeskSteps
<1>6. replies \in [Incoming -> Nat] /\ restarts \in Nat
  BY Limits, TypesParts DEF IInv, ChatTypes
<1>7. ChatTypes'
  <2>1. replies' \in [Incoming -> Nat]
    BY <1>1, <1>2, <1>6
  <2> QED
    BY <1>1, <2>1, TypesParts DEF IInv, ChatTypes
<1>8. ChatHeld'
  <2>1. HeadingsKept
    BY <1>1, <1>5 DEF HeadingsKept
  <2>2. Answers(p)'
    BY <1>1, <1>3, <1>4 DEF IInv, ChatHeld, Answers, ChatSteps
  <2>3. \A q \in Procs \ {p} : Answers(q)'
    BY <1>1, <1>4, <2>1, AnswersKept DEF IInv, ChatHeld
  <2> QED
    BY <1>1, <2>1, <2>2, <2>3, RemembersKept DEF ChatHeld
<1>9. Numbered'
  <2> SUFFICES ASSUME NEW n \in Incoming, n \notin evicted'
               PROVE  replies'[n] + Cardinality(Answering(n)')
                        <= Cardinality(Knowing(n)') + restarts'
    BY DEF Numbered
  <2>1. Knowing(n)' = Knowing(n)
    BY <1>1 DEF Knowing
  <2>2. replies[n] + Cardinality(Answering(n)) <= Cardinality(Knowing(n)) + restarts
    BY <1>1 DEF IInv, Numbered
  <2>3. CASE n = m
    <3>1. Answering(n)' = Answering(n) \ {p} /\ p \in Answering(n)
      BY <1>1, <1>3, <1>4, <2>3 DEF Answering, m
    <3>2. Cardinality(Answering(n)') = Cardinality(Answering(n)) - 1
      BY <3>1, Counting, FS_RemoveElement
    <3>3. replies'[n] \in {replies[n], replies[n] + 1}
      BY <1>1, <1>6, <2>3
    <3> QED
      BY <1>1, <1>6, <2>1, <2>2, <3>2, <3>3, Counting
  <2>4. CASE n # m
    <3>1. Answering(n)' = Answering(n)
      BY <1>1, <1>3, <1>4, <2>4 DEF Answering, m
    <3>2. replies'[n] = replies[n]
      BY <1>1, <1>6, <2>4
    <3> QED
      BY <1>1, <2>1, <2>2, <3>1, <3>2
  <2> QED
    BY <2>3, <2>4
<1> QED
  BY <1>4, <1>5, <1>7, <1>8, <1>9, TypesNext DEF IInv

\* A message is filed with a conversation.
LEMMA Filed ==
    ASSUME TypeOK, NEW p \in Procs, NEW c \in Nat, c \in 1..MaxConvs,
           loc[p].server \in Servers, loc[p].message \in Incoming, loc[p].esc = 0, File(p, c)
    PROVE  /\ TaskTypes' /\ pc'[p] = "question"
           /\ \A q \in Procs \ {p} : pc'[q] = pc[q] /\ loc'[q] = loc[q]
           /\ loc'[p].conv = c /\ loc'[p].server = loc[p].server
           /\ loc'[p].message = loc[p].message /\ loc'[p].esc = 0
           /\ \A s \in Servers, w \in Customers :
                 convOf'[s][w] = IF s = loc[p].server /\ w = Customer(p) THEN c ELSE convOf[s][w]
           /\ \A N \in SUBSET Nat : convOf \in [Servers -> [Customers -> N]] /\ c \in N
                    => convOf' \in [Servers -> [Customers -> N]]
<1> DEFINE local == [loc[p] EXCEPT !.conv = c]
<1>1. loc[p] \in Locals
  BY TypesParts DEF TaskTypes
<1>2. /\ local \in Locals /\ local.conv = c /\ local.server = loc[p].server
      /\ local.message = loc[p].message /\ local.esc = 0
  BY <1>1 DEF Locals
<1>3. Goto(p, "question", local) /\ "question" \in Steps
  BY DEF File, Steps
<1> HIDE DEF local
<1>4. /\ TaskTypes' /\ pc'[p] = "question" /\ loc'[p] = local
      /\ \A q \in Procs \ {p} : pc'[q] = pc[q] /\ loc'[q] = loc[q]
  BY <1>2, <1>3, Moved, TypesParts
<1>5. convOf \in [Servers -> [Customers -> 0..Len(convs)]]
  BY TypesParts DEF ChatTypes
<1>6. convOf' = [convOf EXCEPT ![loc[p].server][Customer(p)] = c] /\ Customer(p) \in Customers
  BY Payload DEF File, Customer
<1> QED
  BY <1>2, <1>4, <1>5, <1>6

\* What is filed with a conversation that is the customer's.
LEMMA FiledHeld ==
    ASSUME IInv, NEW p \in Procs, HeadingsKept, seen' = seen, TypeOK,
           NEW c \in ConvIds', pc[p] \in ChatSteps,
           \E n \in seen[loc[p].server] :
              WaId(n) = Customer(p) /\ Heading(n) = convs'[c].heading,
           pc'[p] = "question", loc'[p].conv = c,
           loc'[p].server = loc[p].server, loc'[p].message = loc[p].message,
           \A q \in Procs \ {p} : pc'[q] = pc[q] /\ loc'[q] = loc[q],
           \A s \in Servers, w \in Customers :
              convOf'[s][w] = IF s = loc[p].server /\ w = Customer(p) THEN c ELSE convOf[s][w]
    PROVE  ChatHeld'
<1>1. Answers(p)'
  BY DEF IInv, ChatHeld, Answers, ChatSteps, Customer, Tied
<1>2. \A q \in Procs \ {p} : Answers(q)'
  BY AnswersKept DEF IInv, ChatHeld
<1>3. ASSUME NEW s \in Servers, NEW w \in Customers, NEW d, d = convOf'[s][w], d > 0
      PROVE  Tied(s, w, d)'
  <2>1. CASE s = loc[p].server /\ w = Customer(p)
    BY <1>3, <2>1 DEF Tied
  <2>2. CASE ~(s = loc[p].server /\ w = Customer(p))
    <3>1. convOf'[s][w] = convOf[s][w] /\ convOf[s][w] \in ConvIds
      BY <1>3, <2>2, TypesParts DEF ChatTypes, ConvIds
    <3>2. Tied(s, w, convOf[s][w])
      BY <1>3, <3>1 DEF IInv, ChatHeld, Remembers
    <3> QED
      BY <1>3, <3>1, <3>2 DEF HeadingsKept, Tied
  <2> QED
    BY <2>1, <2>2
<1> QED
  BY <1>1, <1>2, <1>3 DEF ChatHeld, Remembers

LEMMA FindInv ==
    ASSUME IInv, NEW p \in Procs, RecallConversation(p) \/ FindConversation(p)
    PROVE  IInv'
<1> DEFINE w == Customer(p)
           known == convOf[loc[p].server][w]
<1>1. /\ UNCHANGED <<convs, thread, deskVars, memory, restarts, deliveries, replies, evicted, seen>>
      /\ pc[p] \in {"recall", "find"}
  BY DEF RecallConversation, FindConversation, At
<1>2. /\ loc[p].message \in Incoming /\ loc[p].server \in Servers /\ loc[p].esc = 0
      /\ loc[p] \in Locals
  BY <1>1, TypesParts DEF IInv, ChatHeld, Answers, DeskHeld, ChatSteps, DeskSteps, TaskTypes
<1>3. w \in Customers /\ w = WaId(loc[p].message)
  BY <1>2, Payload DEF Customer
<1>4. /\ convOf \in [Servers -> [Customers -> 0..Len(convs)]] /\ Len(convs) \in 0..MaxConvs
      /\ known \in 0..Len(convs)
  BY <1>2, <1>3, Limits, TypesParts DEF IInv, ChatTypes, ConvTypes
<1>5. loc[p].message \in seen[loc[p].server] /\ pc[p] \in ChatSteps
  BY <1>1 DEF IInv, ChatHeld, Answers, ChatSteps
<1> HIDE DEF w, known
<1>6. ASSUME NEW step \in {"find", "open"}, Goto(p, step, loc[p]), UNCHANGED convOf
      PROVE  IInv'
  <2>1. /\ TaskTypes' /\ pc'[p] = step /\ loc'[p] = loc[p]
        /\ \A q \in Procs \ {p} : pc'[q] = pc[q] /\ loc'[q] = loc[q]
    BY <1>2, <1>6, Moved, TypesParts DEF IInv, Steps
  <2>2. ConvIds' = ConvIds /\ (ConvTypes /\ DeskTypes /\ DeskHeld /\ StatusIsTruth /\ OneCounts)'
    BY <1>1, <1>2, <2>1, DeskAside DEF DeskSteps
  <2>3. ChatTypes'
    BY <1>1, <1>6, TypesParts DEF IInv, ChatTypes
  <2>4. ChatHeld'
    <3>1. HeadingsKept
      BY <1>1, <2>2 DEF HeadingsKept
    <3>2. Answers(p)'
      BY <1>1, <1>2, <1>5, <2>1 DEF Answers
    <3> QED
      BY <1>1, <1>6, <2>1, <3>1, <3>2, AnswersKept, RemembersKept DEF IInv, ChatHeld
  <2>5. \A m : Answering(m)' \subseteq Answering(m)
    BY <2>1 DEF Answering
  <2>6. Numbered'
    BY <1>1, <2>5, NumberedKept
  <2> QED
    BY <2>1, <2>2, <2>3, <2>4, <2>6, TypesNext DEF IInv
<1>7. ASSUME NEW c \in ConvIds, File(p, c), Tied(loc[p].server, w, c)
      PROVE  IInv'
  <2>1. c \in Nat /\ c \in 1..MaxConvs /\ c \in 0..Len(convs)
    BY <1>4, Limits DEF ConvIds
  <2>2. /\ TaskTypes' /\ pc'[p] = "question"
        /\ \A q \in Procs \ {p} : pc'[q] = pc[q] /\ loc'[q] = loc[q]
        /\ loc'[p].conv = c /\ loc'[p].server = loc[p].server
        /\ loc'[p].message = loc[p].message /\ loc'[p].esc = 0
        /\ \A s \in Servers, v \in Customers :
              convOf'[s][v] = IF s = loc[p].server /\ v = Customer(p) THEN c ELSE convOf[s][v]
        /\ \A N \in SUBSET Nat : convOf \in [Servers -> [Customers -> N]] /\ c \in N
                 => convOf' \in [Servers -> [Customers -> N]]
    BY <1>2, <1>7, <2>1, Filed DEF IInv
  <2>3. ConvIds' = ConvIds /\ (ConvTypes /\ DeskTypes /\ DeskHeld /\ StatusIsTruth /\ OneCounts)'
    BY <1>1, <2>2, DeskAside DEF DeskSteps
  <2>4. 0..Len(convs) \in SUBSET Nat
    BY <1>4
  <2>5. convOf' \in [Servers -> [Customers -> 0..Len(convs)]]
    BY <1>4, <2>1, <2>2, <2>4
  <2>6. ChatTypes'
    BY <1>1, <2>5, TypesParts DEF IInv, ChatTypes
  <2>7. ChatHeld'
    <3>1. HeadingsKept /\ c \in ConvIds'
      BY <1>1, <2>3 DEF HeadingsKept
    <3>2. \E n \in seen[loc[p].server] :
             WaId(n) = Customer(p) /\ Heading(n) = convs'[c].heading
      BY <1>1, <1>7 DEF Tied, w
    <3> QED
      BY <1>1, <1>5, <2>2, <3>1, <3>2, FiledHeld DEF IInv
  <2>9. \A m : Answering(m)' \subseteq Answering(m)
    BY <2>2 DEF Answering
  <2>10. Numbered'
    BY <1>1, <2>9, NumberedKept
  <2> QED
    BY <2>2, <2>3, <2>6, <2>7, <2>10, TypesNext DEF IInv
<1>8. CASE known > 0 /\ File(p, known)
  <2>1. known \in ConvIds
    BY <1>4, <1>8 DEF ConvIds
  <2>2. Tied(loc[p].server, w, known)
    BY <1>2, <1>3, <1>8 DEF IInv, ChatHeld, Remembers, known
  <2> QED
    BY <1>7, <1>8, <2>1, <2>2
<1>9. CASE \E c \in OpenWithHeading(loc[p].message) : File(p, c)
  <2>1. PICK c \in OpenWithHeading(loc[p].message) : File(p, c)
    BY <1>9
  <2>2. c \in ConvIds /\ Tied(loc[p].server, w, c)
    BY <1>3, <1>5, <2>1 DEF OpenWithHeading, Tied
  <2> QED
    BY <1>7, <2>1, <2>2
<1> QED
  BY <1>6, <1>8, <1>9 DEF RecallConversation, FindConversation, w, known

LEMMA CreateConversationInv ==
    ASSUME IInv, NEW p \in Procs, CreateConversation(p)
    PROVE  IInv'
<1> DEFINE n == Len(convs) + 1
<1>1. /\ UNCHANGED <<deskVars, memory, restarts, deliveries, replies, evicted, seen>>
      /\ pc[p] = "open" /\ OpenConversation(Heading(loc[p].message)) /\ File(p, n)
  BY DEF CreateConversation, At
<1>2. /\ loc[p].message \in Incoming /\ loc[p].server \in Servers /\ loc[p].esc = 0
      /\ loc[p].message \in seen[loc[p].server] /\ pc[p] \in ChatSteps
  BY <1>1 DEF IInv, ChatHeld, Answers, DeskHeld, ChatSteps, DeskSteps
<1>3. Customer(p) = WaId(loc[p].message) /\ Heading(loc[p].message) \in Headings
  BY <1>2, Payload DEF Customer
<1>4. /\ ConvTypes' /\ Grows
      /\ Len(convs') = n /\ ConvIds' = ConvIds \cup {n}
      /\ convs'[n].heading = Heading(loc[p].message)
      /\ \A c \in ConvIds : thread'[c] = thread[c]
      /\ thread'[n] = {}
  BY <1>1, <1>3, Opened
<1>5. Len(convs) \in Nat /\ n \in Nat /\ n \in 1..MaxConvs
  BY <1>1, Limits, TypesParts DEF IInv, ConvTypes, OpenConversation
<1>6. /\ TaskTypes' /\ pc'[p] = "question"
      /\ \A q \in Procs \ {p} : pc'[q] = pc[q] /\ loc'[q] = loc[q]
      /\ loc'[p].conv = n /\ loc'[p].server = loc[p].server
      /\ loc'[p].message = loc[p].message /\ loc'[p].esc = 0
      /\ \A s \in Servers, v \in Customers :
            convOf'[s][v] = IF s = loc[p].server /\ v = Customer(p) THEN n ELSE convOf[s][v]
      /\ \A N \in SUBSET Nat : convOf \in [Servers -> [Customers -> N]] /\ n \in N
               => convOf' \in [Servers -> [Customers -> N]]
  BY <1>1, <1>2, <1>5, Filed DEF IInv
<1>7. (DeskTypes /\ DeskHeld /\ StatusIsTruth /\ OneCounts)'
  BY <1>1, <1>4, <1>6, DeskKept DEF DeskSteps
<1>8. convOf \in [Servers -> [Customers -> 0..Len(convs)]]
  BY TypesParts DEF IInv, ChatTypes
<1> HIDE DEF n
<1>9. ChatTypes'
  <2>1. 0..Len(convs') \in SUBSET Nat /\ n \in 0..Len(convs')
    BY <1>4, <1>5
  <2>2. convOf \in [Servers -> [Customers -> 0..Len(convs')]]
    BY <1>4, <1>5, <1>8 DEF n
  <2>3. convOf' \in [Servers -> [Customers -> 0..Len(convs')]]
    BY <1>6, <2>1, <2>2
  <2> QED
    BY <1>1, <2>3, TypesParts DEF IInv, ChatTypes
<1>10. ChatHeld'
  <2>1. HeadingsKept /\ n \in ConvIds'
    BY <1>4 DEF HeadingsKept, Grows
  <2>2. \E k \in seen[loc[p].server] :
           WaId(k) = Customer(p) /\ Heading(k) = convs'[n].heading
    BY <1>2, <1>3, <1>4
  <2> QED
    BY <1>1, <1>2, <1>6, <2>1, <2>2, FiledHeld DEF IInv
<1>12. \A m : Answering(m)' \subseteq Answering(m)
  BY <1>6 DEF Answering
<1>13. Numbered'
  BY <1>1, <1>12, NumberedKept
<1> QED
  BY <1>4, <1>6, <1>7, <1>9, <1>10, <1>13, TypesNext DEF IInv

LEMMA StoreInv ==
    ASSUME IInv, NEW p \in Procs, StoreQuestion(p)
    PROVE  IInv'
<1> DEFINE c == loc[p].conv
           m == loc[p].message
           new == thread[c] \cup {m}
<1>1. /\ UNCHANGED <<convs, deskVars, chatVars>> /\ pc[p] = "question"
      /\ Goto(p, "idle", Idle) /\ "idle" \in Steps
      /\ thread' = [thread EXCEPT ![c] = new]
  BY DEF StoreQuestion, Leave, At, Steps
<1>2. m \in Incoming /\ c \in ConvIds
  BY <1>1 DEF IInv, ChatHeld, Answers, ChatSteps
<1>3. /\ TaskTypes' /\ pc'[p] = "idle" /\ loc'[p] = Idle
      /\ \A q \in Procs \ {p} : pc'[q] = pc[q] /\ loc'[q] = loc[q]
  BY <1>1, IdleType, Moved, TypesParts DEF IInv
<1>4. ConvIds' = ConvIds /\ Grows
  BY <1>1 DEF ConvIds, Grows
<1>5. (DeskTypes /\ DeskHeld /\ StatusIsTruth /\ OneCounts)'
  BY <1>1, <1>3, <1>4, DeskKept DEF DeskSteps, Idle
<1>6. thread \in Seq(SUBSET Incoming) /\ Len(thread) = Len(convs) /\ c \in 1..Len(thread)
  BY <1>2, TypesParts DEF IInv, ConvTypes, ConvIds
<1>7. new \in SUBSET Incoming
  BY <1>2, <1>6, ElementOfSeq
<1> HIDE DEF c, new, m
<1>8. /\ thread' \in Seq(SUBSET Incoming) /\ Len(thread') = Len(thread)
      /\ \A d \in 1..Len(thread) : thread'[d] = IF d = c THEN new ELSE thread[d]
  BY <1>1, <1>6, <1>7, ExceptSeq
<1>9. ConvTypes' /\ ChatTypes'
  BY <1>1, <1>6, <1>8, TypesParts DEF IInv, ConvTypes, ChatTypes, chatVars
<1>10. ChatHeld'
  <2>1. HeadingsKept /\ convOf' = convOf /\ seen' = seen
    BY <1>1, <1>4 DEF HeadingsKept, chatVars
  <2>2. \A q \in Procs : Answers(q)'
    BY <1>3, <2>1, AnswersKept, AnswersNone DEF IInv, ChatHeld, ChatSteps
  <2> QED
    BY <2>1, <2>2, RemembersKept DEF ChatHeld
<1>12. \A n : Answering(n)' \subseteq Answering(n)
  BY <1>3 DEF Answering
<1>13. Numbered'
  BY <1>1, <1>12, NumberedKept DEF chatVars
<1> QED
  BY <1>3, <1>5, <1>9, <1>10, <1>13, TypesNext DEF IInv

\* A restart loses one server's knowledge of a message at most, and is counted.
LEMMA RestartInv ==
    ASSUME IInv, NEW s \in Servers, Restart(s)
    PROVE  IInv'
<1>1. /\ UNCHANGED <<convs, thread, deskVars, deliveries, replies, evicted>>
      /\ restarts < MaxRestarts /\ restarts' = restarts + 1
      /\ memory' = [memory EXCEPT ![s] = << >>]
      /\ convOf' = [convOf EXCEPT ![s] = [w \in Customers |-> 0]]
      /\ seen' = [seen EXCEPT ![s] = {}]
  BY DEF Restart
<1>2. /\ pc \in [Procs -> Steps] /\ loc \in [Procs -> Locals]
      /\ memory \in [Servers -> Seq(Incoming)] /\ restarts \in Nat
      /\ seen \in [Servers -> SUBSET Incoming]
      /\ convOf \in [Servers -> [Customers -> 0..Len(convs)]] /\ Len(convs) \in Nat
  BY Limits, TypesParts DEF IInv, TaskTypes, ChatTypes, ConvTypes
<1>3. /\ pc' = [p \in Procs |-> IF loc[p].server = s THEN "idle" ELSE pc[p]]
      /\ loc' = [p \in Procs |-> IF loc[p].server = s THEN Idle ELSE loc[p]]
  BY DEF Restart
<1>4. \A p \in Procs :
        /\ loc[p].server = s => pc'[p] = "idle" /\ loc'[p] = Idle
                                /\ pc[p] \notin DeskSteps \cup {"create"}
        /\ loc[p].server # s => pc'[p] = pc[p] /\ loc'[p] = loc[p]
  BY <1>3, ServersAssumption DEF IInv, DeskHeld
<1>5. TaskTypes'
  BY <1>2, <1>3, IdleType DEF TaskTypes, Steps
<1>6. ConvIds' = ConvIds /\ Grows
  BY <1>1 DEF ConvIds, Grows
<1>7. (DeskTypes /\ DeskHeld /\ StatusIsTruth /\ OneCounts)'
  BY <1>1, <1>4, <1>6, DeskKept DEF DeskSteps, Idle
<1>8. ConvTypes'
  BY <1>1, TypesParts DEF IInv, ConvTypes
<1>9. /\ memory' \in [Servers -> Seq(Incoming)] /\ memory'[s] = << >> /\ Len(memory'[s]) = 0
      /\ \A t \in Servers \ {s} : memory'[t] = memory[t]
  BY <1>1, <1>2
<1>10. /\ convOf' \in [Servers -> [Customers -> 0..Len(convs)]]
       /\ \A w \in Customers : convOf'[s][w] = 0
       /\ \A t \in Servers \ {s} : convOf'[t] = convOf[t] /\ seen'[t] = seen[t]
       /\ seen' \in [Servers -> SUBSET Incoming]
  BY <1>1, <1>2
<1>11. ChatTypes'
  <2>1. \A t \in Servers : Len(memory'[t]) <= MemorySize
    BY <1>9, Limits, TypesParts DEF IInv, ChatTypes
  <2>2. restarts' \in 0..MaxRestarts
    BY <1>1, <1>2, Limits
  <2> QED
    BY <1>1, <1>9, <1>10, <2>1, <2>2, TypesParts DEF IInv, ChatTypes
<1>12. ChatHeld'
  <2>1. HeadingsKept
    BY <1>1, <1>6 DEF HeadingsKept
  <2>2. ASSUME NEW p \in Procs
        PROVE  Answers(p)'
    <3>1. CASE loc[p].server = s
      BY <1>4, <3>1, AnswersNone DEF ChatSteps
    <3>2. CASE loc[p].server # s
      <4>1. pc'[p] = pc[p] /\ loc'[p] = loc[p] /\ Answers(p)
        BY <1>4, <3>2 DEF IInv, ChatHeld
      <4>2. pc[p] \in ChatSteps => seen[loc[p].server] \subseteq seen'[loc[p].server]
        BY <1>10, <3>2, <4>1 DEF Answers
      <4> QED
        BY <2>1, <4>1, <4>2, AnswersKept
    <3> QED
      BY <3>1, <3>2
  <2>3. Remembers(s)'
    BY <1>10 DEF Remembers
  <2>4. \A t \in Servers \ {s} : Remembers(t)'
    BY <1>10, <2>1, RemembersKept
  <2> QED
    BY <2>2, <2>3, <2>4 DEF ChatHeld
<1>14. Numbered'
  <2> SUFFICES ASSUME NEW n \in Incoming, n \notin evicted'
               PROVE  replies'[n] + Cardinality(Answering(n)')
                        <= Cardinality(Knowing(n)') + restarts'
    BY DEF Numbered
  <2>1. replies[n] \in Nat
    BY TypesParts DEF IInv, ChatTypes
  <2>2. replies[n] + Cardinality(Answering(n)) <= Cardinality(Knowing(n)) + restarts
    BY <1>1 DEF IInv, Numbered
  <2>3. Answering(n)' \subseteq Answering(n)
    BY <1>4 DEF Answering
  <2>4. Cardinality(Answering(n)') <= Cardinality(Answering(n))
    BY <2>3, AnsweringShrinks
  <2>5. Knowing(n) \ {s} = Knowing(n)'
    BY <1>9 DEF Knowing, Contains
  <2>6. Cardinality(Knowing(n)) <= Cardinality(Knowing(n)') + 1
    <3>1. CASE s \in Knowing(n)
      <4>1. Cardinality(Knowing(n) \ {s}) = Cardinality(Knowing(n)) - 1
        BY <3>1, Counting, FS_RemoveElement
      <4>2. Cardinality(Knowing(n)') = Cardinality(Knowing(n) \ {s})
        BY <2>5
      <4>3. Cardinality(Knowing(n)) \in Nat
        BY Counting
      <4> QED
        BY <4>1, <4>2, <4>3
    <3>2. CASE s \notin Knowing(n)
      BY <2>5, <3>2, Counting
    <3> QED
      BY <3>1, <3>2
  <2> QED
    BY <1>1, <1>2, <2>1, <2>2, <2>4, <2>6, Counting, CountingNext
<1> QED
  BY <1>5, <1>7, <1>8, <1>11, <1>12, <1>14, TypesNext DEF IInv

-----------------------------------------------------------------------------

\* Initially.
LEMMA IInvInit == Init => IInv
<1> SUFFICES ASSUME Init PROVE IInv
  OBVIOUS
<1>1. ConvTypes /\ DeskTypes
  BY Limits DEF Init, ConvTypes, DeskTypes
<1>2. ChatTypes
  BY Limits DEF Init, ChatTypes
<1>3. TaskTypes
  BY IdleType DEF Init, TaskTypes, Steps
<1>4. DeskHeld /\ ChatHeld
  BY DEF Init, DeskHeld, ChatHeld, Answers, Remembers, DeskSteps, ChatSteps, Idle
<1>5. StatusIsTruth /\ OneCounts
  BY DEF Init, StatusIsTruth, OneCounts, ConvIds, EscIds
<1>6. Numbered
  <2> SUFFICES ASSUME NEW m \in Incoming
               PROVE  replies[m] + Cardinality(Answering(m)) <= Cardinality(Knowing(m)) + restarts
    BY DEF Numbered
  <2>1. Answering(m) = {}
    BY DEF Init, Answering
  <2>2. replies[m] = 0 /\ restarts = 0
    BY DEF Init
  <2> QED
    BY <2>1, <2>2, Counting, FS_EmptySet
<1> QED
  BY <1>1, <1>2, <1>3, <1>4, <1>5, <1>6, TypesParts DEF IInv

\* Every step keeps the invariant.
LEMMA IInvNext == IInv /\ [Next]_vars => IInv'
<1> SUFFICES ASSUME IInv, [Next]_vars PROVE IInv'
  OBVIOUS
<1>1. CASE StartChat
  BY <1>1, StartChatInv
<1>2. ASSUME NEW p \in Procs, Escalation(p) PROVE IInv'
  BY <1>2, ReadConversationInv, CreateEscalationInv, DeliverInv, MarkSentInv,
     MarkConversationInv, WriteFailsInv, MarkFailedInv DEF Escalation
<1>3. ASSUME NEW p \in Procs, WhatsApp(p) PROVE IInv'
  BY <1>3, IncomingInv, SendInv, FindInv, CreateConversationInv, StoreInv DEF WhatsApp
<1>4. ASSUME NEW p \in Procs, Stop(p) PROVE IInv'
  BY <1>4, StopInv
<1>5. ASSUME NEW s \in Servers, Restart(s) PROVE IInv'
  BY <1>5, RestartInv
<1>6. CASE UNCHANGED vars
  <2>1. UNCHANGED <<convs, thread, escs, emailed, excused, abandoned, memory, convOf, restarts,
                    deliveries, replies, evicted, seen, pc, loc>>
    BY <1>6 DEF vars, deskVars, chatVars
  <2>2. ConvIds' = ConvIds /\ EscIds' = EscIds
    BY <2>1 DEF ConvIds, EscIds
  <2>3. TypeOK'
    BY <2>1, <2>2 DEF IInv, TypeOK
  <2>4. (DeskHeld /\ ChatHeld /\ StatusIsTruth /\ OneCounts)'
    BY <2>1, <2>2 DEF IInv, DeskHeld, ChatHeld, Answers, Remembers, Tied, StatusIsTruth, OneCounts, Counts, Open
  <2>5. Numbered'
    BY <2>1 DEF IInv, Numbered, Answering, Knowing
  <2> QED
    BY <2>3, <2>4, <2>5 DEF IInv
<1> QED
  BY <1>1, <1>2, <1>3, <1>4, <1>5, <1>6 DEF Next

\* The invariant holds of the specification.
THEOREM Invariant == Spec => []IInv
<1> QED
  BY IInvInit, IInvNext, PTL DEF Spec

\* Type correctness; with it, that a server's memory of messages never exceeds its bound.
THEOREM TypeCorrect == Spec => []TypeOK
<1>1. IInv => TypeOK
  BY DEF IInv
<1> QED
  BY Invariant, <1>1, PTL

\* "Sent" and "escalated" stand for an email that went out, "pending" for a task that will
\* settle it or has stopped.
THEOREM StatusTrue == Spec => []StatusIsTruth
<1>1. IInv => StatusIsTruth
  BY DEF IInv
<1> QED
  BY Invariant, <1>1, PTL

\* Two emails about one conversation have an overlap or a failed write behind them.
THEOREM OneEmail == Spec => []OneEmailUnlessExcused
<1>1. IInv => OneEmailUnlessExcused
  BY TypesParts DEF IInv, OneCounts, Counts, OneEmailUnlessExcused, DeskTypes
<1> QED
  BY Invariant, <1>1, PTL

\* A server answers a message once between two restarts, while it remembers it.
THEOREM RepliesBounded == Spec => []RepliesPerLife
<1>1. IInv => RepliesPerLife
  <2> SUFFICES ASSUME IInv, NEW m \in Incoming, m \notin evicted
               PROVE  replies[m] <= Cardinality(Servers) + restarts
    BY DEF RepliesPerLife
  <2>1. replies[m] + Cardinality(Answering(m)) <= Cardinality(Knowing(m)) + restarts
    BY DEF IInv, Numbered
  <2>2. Cardinality(Knowing(m)) <= Cardinality(Servers) /\ Cardinality(Servers) \in Nat
    BY ServersAssumption, FS_Subset, FS_CardinalityType DEF Knowing
  <2>3. replies[m] \in Nat /\ restarts \in Nat
    BY Limits, TypesParts DEF IInv, ChatTypes
  <2> QED
    BY <2>1, <2>2, <2>3, Counting
<1> QED
  BY Invariant, <1>1, PTL

-----------------------------------------------------------------------------
(* Filing *)

\* A question is stored by a task that holds it, with a conversation that is its customer's;
\* no other step changes what a conversation holds.
LEMMA FiledStep ==
    ASSUME IInv, [Next]_vars, NEW c \in ConvIds, NEW m \in thread'[c] \ thread[c]
    PROVE  \E p \in Procs :
              /\ pc[p] = "question" /\ pc'[p] = "idle" /\ loc[p].message = m
              /\ \E n \in seen[loc[p].server] :
                    WaId(n) = WaId(m) /\ Heading(n) = convs[c].heading
<1>1. thread'[c] # thread[c]
  OBVIOUS
<1>2. thread \in Seq(SUBSET Incoming) /\ Len(thread) = Len(convs)
  BY TypesParts DEF IInv, ConvTypes
<1>3. ~(\E heading \in Headings : OpenConversation(heading))
  BY <1>1, Opened
<1>4. ~StartChat
  BY <1>3, PayloadsAssumption DEF StartChat, Headings
<1>5. ASSUME NEW p \in Procs, CreateConversation(p)
      PROVE  FALSE
  <2>1. loc[p].message \in Incoming
    BY <1>5 DEF IInv, ChatHeld, Answers, CreateConversation, At, ChatSteps
  <2> QED
    BY <1>3, <1>5, <2>1, Payload DEF CreateConversation
<1>6. \A p \in Procs : ~Escalation(p) /\ ~Stop(p)
  BY <1>1 DEF Escalation, ReadConversation, CreateEscalation, DeliverEscalationEmail, MarkSent,
     MarkConversation, WriteFails, MarkFailed, Stop
<1>7. /\ \A s \in Servers : ~Restart(s)
      /\ ~UNCHANGED vars
  BY <1>1 DEF Restart, vars
<1>8. PICK p \in Procs : StoreQuestion(p)
  <2>1. PICK p \in Procs : WhatsApp(p)
    BY <1>4, <1>6, <1>7 DEF Next
  <2> QED
    BY <1>1, <1>5, <2>1 DEF WhatsApp, HandleIncomingWebhook, SendTextMessage,
       RecallConversation, FindConversation
<1>9. pc[p] = "question" /\ thread' = [thread EXCEPT ![loc[p].conv] = @ \cup {loc[p].message}]
  BY <1>8 DEF StoreQuestion, At
<1>10. c = loc[p].conv /\ m = loc[p].message
  BY <1>1, <1>2, <1>9 DEF ConvIds
<1>11. pc'[p] = "idle"
  BY <1>8, TypesParts DEF IInv, TaskTypes, StoreQuestion, Leave, Goto
<1>12. Tied(loc[p].server, WaId(m), c)
  BY <1>9, <1>10 DEF IInv, ChatHeld, Answers
<1> QED
  BY <1>9, <1>10, <1>11, <1>12 DEF Tied

\* Whatever names customers take, whatever contacts their messages come with and whatever
\* merchant they write to: a message goes to a conversation under whose merchant and title
\* its server, since its start, had to do with the customer.
THEOREM FiledUnderHeading == Spec => FiledUnderOwnHeading
<1>1. IInv /\ [Next]_vars =>
        [\A c \in ConvIds : \A m \in thread'[c] \ thread[c] :
            \E p \in Procs :
                /\ pc[p] = "question" /\ pc'[p] = "idle" /\ loc[p].message = m
                /\ \E n \in seen[loc[p].server] :
                      WaId(n) = WaId(m) /\ Heading(n) = convs[c].heading]_vars
  BY FiledStep
<1> QED
  BY <1>1, Invariant, PTL DEF Spec, FiledUnderOwnHeading
=============================================================================
