----------------------- MODULE SignupFulfilmentProofs ------------------------
(***************************************************************************)
(* For any number of handlers and payments: a signup marked as fulfilled   *)
(* is ready.  The mark is written by whoever has gone through all the      *)
(* steps, or by a status writer that had read it; what the steps have done *)
(* is never undone, so what a handler knows stays true while others run.   *)
(***************************************************************************)
EXTENDS SignupFulfilment, FiniteSetTheorems, TLAPS

Ready == keys > 0 /\ active /\ users

\* What a handler has behind it, and what the mark it read stands for.
Knows(p) ==
    /\ pc[p] # "idle" => loc[p].s \in Payments
    /\ pc[p] \in {"activate", "users", "complete"} => keys > 0
    /\ pc[p] \in {"findKey", "createKey", "activate"} => (loc[p].active => active)
    /\ pc[p] \in {"users", "complete"} => active
    /\ pc[p] = "complete" => users
    /\ loc[p].mark = "COMPLETED" => Ready

IInv == TypeOK /\ CompletedMeansReady /\ \A p \in Procs : Knows(p)

-----------------------------------------------------------------------------

\* A step of handler p that undoes nothing of the merchant's leaves to the others
\* what they know.
LEMMA OthersKnow ==
    ASSUME IInv, NEW p \in Procs, NEW step \in Steps, NEW local \in Locals,
           Goto(p, step, local),
           keys' >= keys, keys' \in 0..MaxKeys, active => active', users => users'
    PROVE  /\ pc' \in [Procs -> Steps] /\ loc' \in [Procs -> Locals]
           /\ pc'[p] = step /\ loc'[p] = local
           /\ \A q \in Procs \ {p} : Knows(q)'
<1>1. /\ pc' \in [Procs -> Steps] /\ loc' \in [Procs -> Locals]
      /\ pc'[p] = step /\ loc'[p] = local
      /\ \A q \in Procs \ {p} : pc'[q] = pc[q] /\ loc'[q] = loc[q]
  BY DEF IInv, TypeOK, Goto
<1>2. keys > 0 => keys' > 0
  BY MaxKeysAssumption DEF IInv, TypeOK
<1>3. ASSUME NEW q \in Procs \ {p}
      PROVE  Knows(q)'
  BY <1>1, <1>2, <1>3 DEF IInv, Knows, Ready
<1> QED
  BY <1>1, <1>3

LEMMA IdleType == Idle \in Locals
  BY DEF Idle, Locals, Flows

\* A handler that leaves has nothing to know.
LEMMA LeaveKnows ==
    ASSUME IInv, NEW p \in Procs, Leave(p),
           keys' >= keys, keys' \in 0..MaxKeys, active => active', users => users'
    PROVE  /\ pc' \in [Procs -> Steps] /\ loc' \in [Procs -> Locals]
           /\ \A q \in Procs : Knows(q)'
<1>1. "idle" \in Steps /\ Goto(p, "idle", Idle)
  BY DEF Leave, Steps
<1>2. /\ pc' \in [Procs -> Steps] /\ loc' \in [Procs -> Locals]
      /\ pc'[p] = "idle" /\ loc'[p] = Idle
      /\ \A q \in Procs \ {p} : Knows(q)'
  BY <1>1, IdleType, OthersKnow
<1>3. Knows(p)'
  BY <1>2 DEF Knows, Idle
<1> QED
  BY <1>2, <1>3

LEMMA ReadType ==
    ASSUME IInv, NEW s \in Payments
    PROVE  /\ Read(s) \in Locals
           /\ Read(s).s = s /\ Read(s).active = FALSE
           /\ Read(s).mark = "COMPLETED" => Ready
  BY DEF IInv, TypeOK, Read, Locals, CompletedMeansReady, Ready

-----------------------------------------------------------------------------
(* The payment's side *)

LEMMA InitiateInv ==
    ASSUME IInv, NEW p \in Procs, NEW s \in Payments, InitiatePublicOzowSignup(p, s)
    PROVE  IInv'
<1>1. flow' \in [Payments -> Flows]
  BY DEF IInv, TypeOK, InitiatePublicOzowSignup, Flows
<1>2. CompletedMeansReady'
  BY DEF IInv, TypeOK, InitiatePublicOzowSignup, CompletedMeansReady
<1>3. \A q \in Procs : Knows(q)'
  BY DEF IInv, InitiatePublicOzowSignup, Knows, Ready
<1> QED
  BY <1>1, <1>2, <1>3 DEF IInv, TypeOK, InitiatePublicOzowSignup

LEMMA StatusReadInv ==
    ASSUME IInv, NEW p \in Procs, NEW s \in Payments, StatusRead(p, s)
    PROVE  IInv'
<1>1. Goto(p, "status", Read(s)) /\ "status" \in Steps
      /\ UNCHANGED <<paid, flow, active, users, keys>>
  BY DEF StatusRead, Steps
<1>2. keys' >= keys /\ keys' \in 0..MaxKeys
  BY <1>1, MaxKeysAssumption DEF IInv, TypeOK
<1>3. /\ pc' \in [Procs -> Steps] /\ loc' \in [Procs -> Locals]
      /\ pc'[p] = "status" /\ loc'[p] = Read(s)
      /\ \A q \in Procs \ {p} : Knows(q)'
  BY <1>1, <1>2, ReadType, OthersKnow
<1>4. Knows(p)'
  BY <1>1, <1>3, ReadType DEF Knows, Ready
<1> QED
  BY <1>1, <1>3, <1>4 DEF IInv, TypeOK, CompletedMeansReady

LEMMA StatusWriteInv ==
    ASSUME IInv, NEW p \in Procs, NEW toPaid \in BOOLEAN, StatusWrite(p, toPaid)
    PROVE  IInv'
<1> DEFINE s == loc[p].s
<1>1. /\ s \in Payments /\ loc[p] \in Locals /\ loc[p].mark \in Flows
      /\ loc[p].mark = "COMPLETED" => Ready
  BY DEF IInv, TypeOK, Knows, Locals, StatusWrite, At
<1>2. /\ paid' = [paid EXCEPT ![s] = toPaid]
      /\ flow' = [flow EXCEPT ![s] = loc[p].mark]
      /\ UNCHANGED <<active, users, keys>>
  BY DEF StatusWrite, MergedFlow
<1>3. keys' >= keys /\ keys' \in 0..MaxKeys
  BY <1>2, MaxKeysAssumption DEF IInv, TypeOK
<1>4. paid' \in [Payments -> BOOLEAN] /\ flow' \in [Payments -> Flows]
  BY <1>1, <1>2 DEF IInv, TypeOK
<1>5. CompletedMeansReady'
  BY <1>1, <1>2 DEF IInv, TypeOK, CompletedMeansReady, Ready
<1>6. /\ pc' \in [Procs -> Steps] /\ loc' \in [Procs -> Locals]
      /\ \A q \in Procs : Knows(q)'
  <2>1. CASE toPaid
    <3>1. Goto(p, "fulfil", loc[p]) /\ "fulfil" \in Steps
      BY <2>1 DEF StatusWrite, Steps
    <3>2. /\ pc' \in [Procs -> Steps] /\ loc' \in [Procs -> Locals]
          /\ pc'[p] = "fulfil" /\ loc'[p] = loc[p]
          /\ \A q \in Procs \ {p} : Knows(q)'
      BY <3>1, <1>1, <1>2, <1>3, OthersKnow
    <3>3. Knows(p)'
      BY <3>2, <1>1, <1>2 DEF Knows, Ready
    <3> QED
      BY <3>2, <3>3
  <2>2. CASE ~toPaid
    BY <2>2, <1>2, <1>3, LeaveKnows DEF StatusWrite
  <2> QED
    BY <2>1, <2>2
<1> QED
  BY <1>2, <1>4, <1>5, <1>6 DEF IInv, TypeOK

-----------------------------------------------------------------------------
(* The fulfilment *)

\* A step that only moves the handler on, knowing what it has to.
LEMMA MoveInv ==
    ASSUME IInv, NEW p \in Procs, NEW step \in Steps, NEW local \in Locals,
           Goto(p, step, local), UNCHANGED <<paid, flow, active, users, keys>>,
           (pc'[p] = step /\ loc'[p] = local) => Knows(p)'
    PROVE  IInv'
<1>1. keys' >= keys /\ keys' \in 0..MaxKeys
  BY MaxKeysAssumption DEF IInv, TypeOK
<1>2. /\ pc' \in [Procs -> Steps] /\ loc' \in [Procs -> Locals]
      /\ pc'[p] = step /\ loc'[p] = local
      /\ \A q \in Procs \ {p} : Knows(q)'
  BY <1>1, OthersKnow
<1> QED
  BY <1>2 DEF IInv, TypeOK, CompletedMeansReady

LEMMA LeaveInv ==
    ASSUME IInv, NEW p \in Procs, Leave(p), UNCHANGED <<paid, flow, active, users, keys>>
    PROVE  IInv'
<1>1. keys' >= keys /\ keys' \in 0..MaxKeys
  BY MaxKeysAssumption DEF IInv, TypeOK
<1>2. /\ pc' \in [Procs -> Steps] /\ loc' \in [Procs -> Locals]
      /\ \A q \in Procs : Knows(q)'
  BY <1>1, LeaveKnows
<1> QED
  BY <1>2 DEF IInv, TypeOK, CompletedMeansReady

LEMMA NotifiedAgainInv ==
    ASSUME IInv, NEW p \in Procs, NotifiedAgain(p)
    PROVE  IInv'
<1>1. /\ Goto(p, "fulfil", loc[p]) /\ "fulfil" \in Steps /\ loc[p] \in Locals
      /\ pc[p] = "status" /\ UNCHANGED <<paid, flow, active, users, keys>>
  BY DEF NotifiedAgain, Step, At, Steps, IInv, TypeOK
<1>2. (pc'[p] = "fulfil" /\ loc'[p] = loc[p]) => Knows(p)'
  BY <1>1 DEF IInv, Knows, Ready
<1> QED
  BY <1>1, <1>2, MoveInv

LEMMA FulfilReadInv ==
    ASSUME IInv, NEW p \in Procs, FulfilRead(p)
    PROVE  IInv'
<1> DEFINE s == loc[p].s
<1>1. s \in Payments /\ UNCHANGED <<paid, flow, active, users, keys>>
  BY DEF IInv, Knows, FulfilRead, At
<1>2. CASE Goto(p, "merchant", Read(s))
  <2>1. (pc'[p] = "merchant" /\ loc'[p] = Read(s)) => Knows(p)'
    BY <1>1, ReadType DEF Knows, Ready
  <2>2. "merchant" \in Steps /\ Read(s) \in Locals
    BY <1>1, ReadType DEF Steps
  <2> QED
    BY <1>1, <1>2, <2>1, <2>2, MoveInv
<1>3. CASE Leave(p)
  BY <1>1, <1>3, LeaveInv
<1> QED
  BY <1>2, <1>3 DEF FulfilRead

LEMMA ReadMerchantInv ==
    ASSUME IInv, NEW p \in Procs, ReadMerchant(p)
    PROVE  IInv'
<1> DEFINE local == [loc[p] EXCEPT !.active = active]
<1>1. /\ Goto(p, "findKey", local) /\ "findKey" \in Steps
      /\ pc[p] = "merchant" /\ UNCHANGED <<paid, flow, active, users, keys>>
  BY DEF ReadMerchant, At, Steps
<1>2. /\ local \in Locals /\ local.s = loc[p].s /\ local.mark = loc[p].mark
      /\ local.active = active
  BY DEF IInv, TypeOK, Locals
<1>3. (pc'[p] = "findKey" /\ loc'[p] = local) => Knows(p)'
  BY <1>1, <1>2 DEF IInv, Knows, Ready
<1> QED
  BY <1>1, <1>2, <1>3, MoveInv

LEMMA FindKeyInv ==
    ASSUME IInv, NEW p \in Procs, FindKey(p)
    PROVE  IInv'
<1> DEFINE step == IF KeyFound THEN "activate" ELSE "createKey"
<1>1. /\ Goto(p, step, loc[p]) /\ step \in Steps /\ loc[p] \in Locals
      /\ pc[p] = "findKey" /\ UNCHANGED <<paid, flow, active, users, keys>>
  BY DEF FindKey, Step, At, Steps, IInv, TypeOK
<1>2. (pc'[p] = step /\ loc'[p] = loc[p]) => Knows(p)'
  BY <1>1 DEF IInv, Knows, Ready, KeyFound
<1> QED
  BY <1>1, <1>2, MoveInv

\* A step that adds to what the merchant has.
LEMMA GrowInv ==
    ASSUME IInv, NEW p \in Procs, NEW step \in Steps, Goto(p, step, loc[p]),
           UNCHANGED <<paid, flow>>, active' \in BOOLEAN, users' \in BOOLEAN,
           keys' >= keys, keys' \in 0..MaxKeys, active => active', users => users',
           (pc'[p] = step /\ loc'[p] = loc[p]) => Knows(p)'
    PROVE  IInv'
<1>1. loc[p] \in Locals
  BY DEF IInv, TypeOK
<1>2. /\ pc' \in [Procs -> Steps] /\ loc' \in [Procs -> Locals]
      /\ pc'[p] = step /\ loc'[p] = loc[p]
      /\ \A q \in Procs \ {p} : Knows(q)'
  BY <1>1, OthersKnow
<1>3. keys > 0 => keys' > 0
  BY MaxKeysAssumption DEF IInv, TypeOK
<1>4. CompletedMeansReady'
  BY <1>3 DEF IInv, CompletedMeansReady
<1> QED
  BY <1>2, <1>4 DEF IInv, TypeOK

LEMMA CreateKeyInv ==
    ASSUME IInv, NEW p \in Procs, CreateKey(p)
    PROVE  IInv'
<1>1. /\ Goto(p, "activate", loc[p]) /\ "activate" \in Steps /\ pc[p] = "createKey"
      /\ UNCHANGED <<paid, flow, active, users>>
  BY DEF CreateKey, Step, At, Steps
<1>2. keys' >= keys /\ keys' > 0 /\ keys' \in 0..MaxKeys
  BY MaxKeysAssumption DEF CreateKey, IInv, TypeOK
<1>3. (pc'[p] = "activate" /\ loc'[p] = loc[p]) => Knows(p)'
  BY <1>1, <1>2 DEF IInv, Knows, Ready
<1> QED
  BY <1>1, <1>2, <1>3, GrowInv DEF IInv, TypeOK

LEMMA ActivateMerchantInv ==
    ASSUME IInv, NEW p \in Procs, ActivateMerchant(p)
    PROVE  IInv'
<1>1. /\ Goto(p, "users", loc[p]) /\ "users" \in Steps /\ pc[p] = "activate"
      /\ UNCHANGED <<paid, flow, users, keys>>
  BY DEF ActivateMerchant, Step, At, Steps
<1>2. keys' >= keys /\ keys' \in 0..MaxKeys
  BY <1>1, MaxKeysAssumption DEF IInv, TypeOK
<1>3. active' = TRUE
  BY <1>1 DEF ActivateMerchant, IInv, Knows, TypeOK, Locals
<1>4. (pc'[p] = "users" /\ loc'[p] = loc[p]) => Knows(p)'
  BY <1>1, <1>3 DEF IInv, Knows, Ready
<1> QED
  BY <1>1, <1>2, <1>3, <1>4, GrowInv DEF IInv, TypeOK

LEMMA ActivateUsersInv ==
    ASSUME IInv, NEW p \in Procs, ActivateUsers(p)
    PROVE  IInv'
<1>1. /\ Goto(p, "complete", loc[p]) /\ "complete" \in Steps /\ pc[p] = "users"
      /\ users' = TRUE /\ UNCHANGED <<paid, flow, active, keys>>
  BY DEF ActivateUsers, Step, At, Steps
<1>2. keys' >= keys /\ keys' \in 0..MaxKeys
  BY <1>1, MaxKeysAssumption DEF IInv, TypeOK
<1>3. (pc'[p] = "complete" /\ loc'[p] = loc[p]) => Knows(p)'
  BY <1>1 DEF IInv, Knows, Ready
<1> QED
  BY <1>1, <1>2, <1>3, GrowInv DEF IInv, TypeOK

LEMMA CompleteInv ==
    ASSUME IInv, NEW p \in Procs, Complete(p)
    PROVE  IInv'
<1>1. /\ loc[p].s \in Payments /\ Ready /\ Leave(p)
      /\ flow' = [flow EXCEPT ![loc[p].s] = "COMPLETED"]
      /\ UNCHANGED <<paid, active, users, keys>>
  BY DEF Complete, At, IInv, Knows, Ready
<1>2. keys' >= keys /\ keys' \in 0..MaxKeys
  BY <1>1, MaxKeysAssumption DEF IInv, TypeOK
<1>3. /\ pc' \in [Procs -> Steps] /\ loc' \in [Procs -> Locals]
      /\ \A q \in Procs : Knows(q)'
  BY <1>1, <1>2, LeaveKnows
<1>4. flow' \in [Payments -> Flows]
  BY <1>1 DEF IInv, TypeOK, Flows
<1>5. CompletedMeansReady'
  BY <1>1 DEF CompletedMeansReady, Ready
<1> QED
  BY <1>1, <1>3, <1>4, <1>5 DEF IInv, TypeOK

-----------------------------------------------------------------------------
(* The theorem *)

LEMMA InitInv == Init => IInv
<1> SUFFICES ASSUME Init PROVE IInv
  OBVIOUS
<1>1. TypeOK
  <2>1. keys \in 0..MaxKeys
    BY MaxKeysAssumption DEF Init
  <2>2. paid \in [Payments -> BOOLEAN] /\ flow \in [Payments -> Flows]
    BY DEF Init, Flows
  <2>3. pc \in [Procs -> Steps]
    BY DEF Init, Steps
  <2>4. loc \in [Procs -> Locals]
    BY IdleType DEF Init
  <2>5. active \in BOOLEAN /\ users \in BOOLEAN
    BY DEF Init
  <2> QED
    BY <2>1, <2>2, <2>3, <2>4, <2>5 DEF TypeOK
<1>2. CompletedMeansReady
  BY DEF Init, CompletedMeansReady
<1>3. \A p \in Procs : Knows(p)
  BY DEF Init, Knows, Idle
<1> QED
  BY <1>1, <1>2, <1>3 DEF IInv

LEMMA StepInv == IInv /\ [Next]_vars => IInv'
<1> SUFFICES ASSUME IInv, [Next]_vars PROVE IInv'
  OBVIOUS
<1>1. ASSUME NEW p \in Procs, NEW s \in Payments,
             InitiatePublicOzowSignup(p, s) \/ StatusRead(p, s)
      PROVE  IInv'
  BY <1>1, InitiateInv, StatusReadInv
<1>2. ASSUME NEW p \in Procs, NEW toPaid \in BOOLEAN, StatusWrite(p, toPaid)
      PROVE  IInv'
  BY <1>2, StatusWriteInv
<1>3. ASSUME NEW p \in Procs, NotifiedAgain(p)
      PROVE  IInv'
  BY <1>3, NotifiedAgainInv
<1>4. ASSUME NEW p \in Procs, Fulfil(p)
      PROVE  IInv'
  BY <1>4, FulfilReadInv, ReadMerchantInv, FindKeyInv, CreateKeyInv,
     ActivateMerchantInv, ActivateUsersInv, CompleteInv DEF Fulfil
<1>5. ASSUME NEW p \in Procs, Abort(p)
      PROVE  IInv'
  BY <1>5, LeaveInv DEF Abort
<1>6. CASE UNCHANGED vars
  BY <1>6 DEF vars, IInv, TypeOK, CompletedMeansReady, Knows, Ready
<1> QED
  BY <1>1, <1>2, <1>3, <1>4, <1>5, <1>6 DEF Next

\* However many handlers overlap or stop, over however many payments: a signup
\* marked as fulfilled has its API key, and its merchant and users are active.
THEOREM FulfilledIsReady == Spec => []CompletedMeansReady
<1>1. IInv => CompletedMeansReady
  BY DEF IInv
<1> QED
  BY <1>1, InitInv, StepInv, PTL DEF Spec

\* Every variable has its type, MaxKeys included.
THEOREM SignupTypes == Spec => []TypeOK
<1>1. IInv => TypeOK
  BY DEF IInv
<1> QED
  BY <1>1, InitInv, StepInv, PTL DEF Spec

-----------------------------------------------------------------------------
(* The keys *)

\* The handlers that found no key and have not created theirs.
Creators == {p \in Procs : pc[p] = "createKey"}

\* Inductive: whoever is about to create a key looked when there was none, so the
\* keys there are and the keys still to come are no more than the handlers.
KeysToCome == keys + Cardinality(Creators) <= Cardinality(Procs)

LEMMA CreatorsFinite ==
    /\ IsFiniteSet(Creators)
    /\ Cardinality(Creators) \in Nat /\ Cardinality(Procs) \in Nat
    /\ Cardinality(Creators) <= Cardinality(Procs)
<1>1. Creators \subseteq Procs
  BY DEF Creators
<1> QED
  BY <1>1, ProcsAssumption, FS_Subset, FS_CardinalityType

\* As long as no key is added, fewer creators keep the bound.
LEMMA FewerCreators ==
    ASSUME KeysToCome, keys' = keys, keys \in Nat, Creators' \subseteq Creators
    PROVE  KeysToCome'
<1>1. Cardinality(Creators') \in Nat /\ Cardinality(Creators') <= Cardinality(Creators)
  BY CreatorsFinite, FS_Subset, FS_CardinalityType
<1>2. Cardinality(Procs) \in Nat /\ Cardinality(Creators) \in Nat
  BY CreatorsFinite
<1>3. keys + Cardinality(Creators') <= Cardinality(Procs)
  BY <1>1, <1>2 DEF KeysToCome
<1> QED
  BY <1>3 DEF KeysToCome

\* A handler that goes anywhere but to "createKey" adds no creator.
LEMMA GotoElsewhere ==
    ASSUME TypeOK, NEW p \in Procs, NEW step, NEW local, step # "createKey",
           Goto(p, step, local)
    PROVE  Creators' = Creators \ {p}
  BY DEF TypeOK, Goto, Creators

LEMMA KeysInit == Init => KeysToCome
<1> SUFFICES ASSUME Init PROVE KeysToCome
  OBVIOUS
<1>1. Creators = {}
  BY DEF Init, Creators
<1>2. keys = 0
  BY DEF Init
<1> QED
  BY <1>1, <1>2, FS_EmptySet, CreatorsFinite DEF KeysToCome

LEMMA FindKeyCount ==
    ASSUME TypeOK, KeysToCome, NEW p \in Procs, FindKey(p)
    PROVE  KeysToCome'
<1>1. keys \in Nat /\ keys' = keys
  BY MaxKeysAssumption DEF TypeOK, FindKey
<1>2. CASE KeyFound
  <2>1. Creators' \subseteq Creators
    BY <1>2, GotoElsewhere DEF FindKey, Step
  <2> QED
    BY <1>1, <2>1, FewerCreators
<1>3. CASE ~KeyFound
  <2>1. keys' = 0
    BY <1>1, <1>3 DEF KeyFound
  <2>2. Creators' \subseteq Procs
    BY DEF Creators
  <2>3. Cardinality(Creators') \in Nat /\ Cardinality(Creators') <= Cardinality(Procs)
    BY <2>2, ProcsAssumption, FS_Subset, FS_CardinalityType
  <2>4. keys' + Cardinality(Creators') <= Cardinality(Procs)
    BY <2>1, <2>3
  <2> QED
    BY <2>4 DEF KeysToCome
<1> QED
  BY <1>2, <1>3

LEMMA CreateKeyCount ==
    ASSUME TypeOK, KeysToCome, NEW p \in Procs, CreateKey(p)
    PROVE  KeysToCome'
<1>1. keys \in Nat /\ keys' = keys + 1
  BY MaxKeysAssumption DEF TypeOK, CreateKey
<1>2. p \in Creators /\ Creators' = Creators \ {p}
  BY GotoElsewhere DEF CreateKey, Step, At, Creators
<1>3. Cardinality(Creators') = Cardinality(Creators) - 1
  BY <1>2, CreatorsFinite, FS_RemoveElement
<1>4. keys' + Cardinality(Creators') <= Cardinality(Procs)
  BY <1>1, <1>3, CreatorsFinite DEF KeysToCome
<1> QED
  BY <1>4 DEF KeysToCome

LEMMA KeysStep == TypeOK /\ KeysToCome /\ [Next]_vars => KeysToCome'
<1> SUFFICES ASSUME TypeOK, KeysToCome, [Next]_vars PROVE KeysToCome'
  OBVIOUS
<1>0. keys \in Nat
  BY MaxKeysAssumption DEF TypeOK
<1>1. ASSUME NEW p \in Procs, NEW s \in Payments, InitiatePublicOzowSignup(p, s)
      PROVE  KeysToCome'
  BY <1>0, <1>1, FewerCreators DEF InitiatePublicOzowSignup, Creators
<1>2. ASSUME NEW p \in Procs, NEW step, NEW local, step # "createKey",
             Goto(p, step, local), keys' = keys
      PROVE  KeysToCome'
  BY <1>0, <1>2, GotoElsewhere, FewerCreators
<1>3. ASSUME NEW p \in Procs, NEW s \in Payments, StatusRead(p, s)
      PROVE  KeysToCome'
  BY <1>2, <1>3 DEF StatusRead
<1>4. ASSUME NEW p \in Procs, NEW toPaid \in BOOLEAN, StatusWrite(p, toPaid)
      PROVE  KeysToCome'
  BY <1>2, <1>4 DEF StatusWrite, Leave
<1>5. ASSUME NEW p \in Procs, NotifiedAgain(p) \/ Abort(p)
      PROVE  KeysToCome'
  BY <1>2, <1>5 DEF NotifiedAgain, Abort, Step, Leave
<1>6. ASSUME NEW p \in Procs, FulfilRead(p) \/ ReadMerchant(p) \/ Complete(p)
      PROVE  KeysToCome'
  BY <1>2, <1>6 DEF FulfilRead, ReadMerchant, Complete, Leave
<1>7. ASSUME NEW p \in Procs, ActivateMerchant(p) \/ ActivateUsers(p)
      PROVE  KeysToCome'
  BY <1>2, <1>7 DEF ActivateMerchant, ActivateUsers, Step
<1>8. ASSUME NEW p \in Procs, FindKey(p) \/ CreateKey(p)
      PROVE  KeysToCome'
  BY <1>8, FindKeyCount, CreateKeyCount
<1>9. CASE UNCHANGED vars
  BY <1>0, <1>9, FewerCreators DEF vars, Creators
<1> QED
  BY <1>1, <1>3, <1>4, <1>5, <1>6, <1>7, <1>8, <1>9 DEF Next, Fulfil

\* However handlers overlap, stop half-way and are repeated: the merchant never has
\* more API keys than there were handlers at work at a time, one for one.
THEOREM NoKeyWithoutHandler == Spec => []KeysPerHandler
<1>1. TypeOK /\ KeysToCome => KeysPerHandler
  <2> SUFFICES ASSUME TypeOK, KeysToCome PROVE KeysPerHandler
    OBVIOUS
  <2>1. keys \in Nat
    BY MaxKeysAssumption DEF TypeOK
  <2> QED
    BY <2>1, CreatorsFinite DEF KeysToCome, KeysPerHandler
<1> QED
  BY <1>1, KeysInit, KeysStep, SignupTypes, PTL DEF Spec

-----------------------------------------------------------------------------
(* The mark *)

\* Who forgets that a payment is a signup's is a status writer, and read it so.
LEMMA ForgetStep ==
    ASSUME IInv, [Next]_vars,
           NEW s \in Payments, flow[s] # "none", flow'[s] = "none"
    PROVE  \E p \in Procs : pc[p] = "status" /\ pc'[p] # "status"
                              /\ loc[p].s = s /\ loc[p].mark = "none"
<1>1. flow' # flow
  OBVIOUS
<1>2. ASSUME NEW p \in Procs, NEW t \in Payments, InitiatePublicOzowSignup(p, t)
      PROVE  FALSE
  BY <1>2 DEF InitiatePublicOzowSignup, IInv, TypeOK
<1>3. ASSUME NEW p \in Procs, Complete(p)
      PROVE  FALSE
  BY <1>3 DEF Complete, IInv, TypeOK
<1>4. ASSUME NEW p \in Procs, NEW toPaid \in BOOLEAN, StatusWrite(p, toPaid)
      PROVE  pc[p] = "status" /\ pc'[p] # "status" /\ loc[p].s = s /\ loc[p].mark = "none"
  <2>1. pc[p] = "status" /\ flow' = [flow EXCEPT ![loc[p].s] = loc[p].mark]
    BY <1>4 DEF StatusWrite, At, MergedFlow
  <2>2. loc[p].s = s /\ loc[p].mark = "none"
    BY <2>1 DEF IInv, TypeOK
  <2>3. pc'[p] = "fulfil" \/ pc'[p] = "idle"
    BY <1>4 DEF StatusWrite, Leave, Goto, IInv, TypeOK
  <2> QED
    BY <2>1, <2>2, <2>3
<1> QED
  BY <1>1, <1>2, <1>3, <1>4 DEF Next, Fulfil, StatusRead, NotifiedAgain, FulfilRead,
     ReadMerchant, FindKey, CreateKey, ActivateMerchant, ActivateUsers, Abort, vars

\* That a payment is a signup's, by which it is fulfilled at all, is lost only to a
\* status writer that read the payment before it was marked.
THEOREM MarkLostToStaleWriter == Spec => SignupRemembered
<1>1. IInv /\ [Next]_vars =>
        [\A s \in Payments : flow[s] # "none" /\ flow'[s] = "none" =>
           \E p \in Procs : pc[p] = "status" /\ pc'[p] # "status"
                             /\ loc[p].s = s /\ loc[p].mark = "none"]_vars
  BY ForgetStep
<1> QED
  BY <1>1, InitInv, StepInv, PTL DEF Spec, SignupRemembered
=============================================================================
