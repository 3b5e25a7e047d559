-------------------------- MODULE ConnectionsProofs --------------------------
(***************************************************************************)
(* For every set of merchants, gateways, accounts and tasks: the migration *)
(* of secrets keeps its word, the keys of a connection are of one account  *)
(* and mode, and what the dashboard calls connected is ready, unless the   *)
(* migration wrote back what it had read.                                  *)
(***************************************************************************)
EXTENDS Connections, FiniteSetTheorems, TLAPS

-----------------------------------------------------------------------------
(* The inductive invariant *)

\* A configuration under way names what it configures, and with which keys.
Named == \A p \in Procs : pc[p] \in {"register", "write"} =>
            /\ loc[p].merchant \in Merchants /\ loc[p].gateway \in Gateways
            /\ loc[p].account \in Accounts

\* What a run still has to encrypt is in the file, or was until a later run wrote it.
InFile == \A p \in Procs : pc[p] = "update" => loc[p].entries \subseteq backup \cup dropped

IInv == TypeOK /\ Named /\ InFile /\ MigrationKeepsItsWord

-----------------------------------------------------------------------------
(* Lemmas *)

LEMMA Bounds == MaxConfigurations \in Nat /\ MaxRuns \in Nat
  BY BoundsAssumption

LEMMA IdleType == Idle \in Locals
  BY DEF Idle, Locals, Values

\* Initially.
LEMMA IInvInit == Init => IInv
<1> SUFFICES ASSUME Init PROVE IInv
  OBVIOUS
<1>1. TypeOK
  <2>1. pc \in [Procs -> Steps] /\ loc \in [Procs -> Locals]
    BY IdleType DEF Init, Steps
  <2>2. configurations \in 0..MaxConfigurations /\ runs \in 0..MaxRuns
    BY Bounds DEF Init
  <2>3. clean \in BOOLEAN /\ conn \in [Merchants -> [Gateways -> Connection]]
    BY LegacyAssumption, Zenon DEF Init
  <2> QED
    BY <2>1, <2>2, <2>3 DEF Init, TypeOK
<1>2. Named /\ InFile /\ MigrationKeepsItsWord
  BY DEF Init, Named, InFile, MigrationKeepsItsWord
<1> QED
  BY <1>1, <1>2 DEF IInv

\* One task moves.
LEMMA Moved ==
    ASSUME TypeOK, NEW p \in Procs, NEW step \in Steps, NEW local \in Locals,
           Goto(p, step, local)
    PROVE  /\ pc' \in [Procs -> Steps] /\ loc' \in [Procs -> Locals]
           /\ pc'[p] = step /\ loc'[p] = local
           /\ \A q \in Procs \ {p} : pc'[q] = pc[q] /\ loc'[q] = loc[q]
  BY DEF TypeOK, Goto

\* A task that moves on to where it names nothing, and writes nothing to rows or file.
LEMMA QuietStep ==
    ASSUME IInv, NEW p \in Procs, NEW step \in Steps \ {"register", "write", "update"},
           NEW local \in Locals, Goto(p, step, local),
           UNCHANGED <<conn, backup, stale, migrated, dropped>>,
           clean' = clean,
           configurations' \in 0..MaxConfigurations, runs' \in 0..MaxRuns
    PROVE  IInv'
<1>1. /\ pc' \in [Procs -> Steps] /\ loc' \in [Procs -> Locals]
      /\ pc'[p] = step /\ loc'[p] = local
      /\ \A q \in Procs \ {p} : pc'[q] = pc[q] /\ loc'[q] = loc[q]
  BY Moved DEF IInv
<1>2. TypeOK'
  BY <1>1 DEF IInv, TypeOK
<1>3. Named' /\ InFile'
  BY <1>1 DEF IInv, Named, InFile
<1>4. Plaintext' = Plaintext
  BY DEF Plaintext, ValueOf
<1>5. MigrationKeepsItsWord'
  BY <1>4 DEF IInv, MigrationKeepsItsWord
<1> QED
  BY <1>2, <1>3, <1>5 DEF IInv

LEMMA LeaveInv ==
    ASSUME IInv, NEW p \in Procs, Leave(p),
           UNCHANGED <<conn, backup, stale, migrated, dropped>>,
           clean' = clean,
           UNCHANGED <<configurations, runs>>
    PROVE  IInv'
<1>1. Goto(p, "idle", Idle) /\ "idle" \in Steps \ {"register", "write", "update"}
  BY DEF Leave, Steps
<1>2. configurations' \in 0..MaxConfigurations /\ runs' \in 0..MaxRuns
  BY DEF IInv, TypeOK
<1> QED
  BY <1>1, <1>2, IdleType, QuietStep

-----------------------------------------------------------------------------
(* Configuration *)

LEMMA ConfigureInv ==
    ASSUME IInv, NEW p \in Procs, NEW m \in Merchants, NEW g \in Gateways,
           NEW a \in Accounts, NEW given \in Modes \cup {Unset}, NEW extra \in BOOLEAN,
           Configure(p, m, g, a, given, extra)
    PROVE  IInv'
<1> DEFINE c == conn[m][g]
           mode == SelectedMode(g, given, a, c.mode)
           reusable == g = "YOCO" /\ ReusableWebhook(c, a, mode)
           step == IF g = "YOCO" /\ ~reusable THEN "register" ELSE "write"
           local == [Idle EXCEPT !.merchant = m, !.gateway = g, !.account = a,
                            !.mode = IF g = "OZOW" THEN given ELSE mode, !.extra = extra,
                            !.hook = IF reusable THEN c.hook ELSE NoSecret]
<1>1. c \in Connection
  BY DEF IInv, TypeOK
<1>2. mode \in Modes \cup {Unset} /\ c.hook \in Values
  BY <1>1, AccountsAssumption DEF SelectedMode, Connection, Modes
<1>3. local \in Locals /\ step \in Steps
  BY <1>2 DEF Idle, Locals, Values, Steps
<1>4. /\ local.merchant = m /\ local.gateway = g /\ local.account = a
      /\ step \in {"register", "write"}
  BY DEF Idle
<1> HIDE DEF local, step
<1>5. Goto(p, step, local)
  BY DEF Configure, local, step
<1>6. /\ pc' \in [Procs -> Steps] /\ loc' \in [Procs -> Locals]
      /\ pc'[p] = step /\ loc'[p] = local
      /\ \A q \in Procs \ {p} : pc'[q] = pc[q] /\ loc'[q] = loc[q]
  BY <1>3, <1>5, Moved DEF IInv
<1>7. /\ UNCHANGED <<conn, backup, runs, ghosts>>
      /\ configurations' = configurations + 1 /\ configurations < MaxConfigurations
  BY DEF Configure
<1>8. TypeOK'
  BY <1>6, <1>7, Bounds DEF IInv, TypeOK, ghosts
<1>9. Named' /\ InFile'
  BY <1>4, <1>6, <1>7 DEF IInv, Named, InFile, ghosts
<1>10. Plaintext' = Plaintext
  BY <1>7 DEF Plaintext, ValueOf
<1>11. MigrationKeepsItsWord'
  BY <1>7, <1>10 DEF IInv, MigrationKeepsItsWord, ghosts
<1> QED
  BY <1>8, <1>9, <1>11 DEF IInv

LEMMA RegisterInv == ASSUME IInv, NEW p \in Procs, RegisterYocoWebhook(p) PROVE IInv'
<1> DEFINE local == [loc[p] EXCEPT !.hook = Encrypted(loc[p].account)]
<1>1. loc[p] \in Locals /\ pc[p] = "register" /\ loc[p].account \in Accounts
  BY DEF IInv, TypeOK, Named, RegisterYocoWebhook, At
<1>2. Encrypted(loc[p].account) \in Values
  BY <1>1 DEF Encrypted, Values
<1>3. local \in Locals /\ local.merchant = loc[p].merchant
      /\ local.gateway = loc[p].gateway /\ local.account = loc[p].account
  BY <1>1, <1>2 DEF Locals
<1> HIDE DEF local
<1>4. Goto(p, "write", local) /\ UNCHANGED <<conn, backup, configurations, runs, ghosts>>
  BY DEF RegisterYocoWebhook, local
<1>5. /\ pc' \in [Procs -> Steps] /\ loc' \in [Procs -> Locals]
      /\ pc'[p] = "write" /\ loc'[p] = local
      /\ \A q \in Procs \ {p} : pc'[q] = pc[q] /\ loc'[q] = loc[q]
  BY <1>3, <1>4, Moved DEF IInv, Steps
<1>6. TypeOK'
  BY <1>4, <1>5 DEF IInv, TypeOK, ghosts
<1>7. Named' /\ InFile'
  BY <1>1, <1>3, <1>4, <1>5 DEF IInv, Named, InFile, ghosts
<1>8. Plaintext' = Plaintext
  BY <1>4 DEF Plaintext, ValueOf
<1>9. MigrationKeepsItsWord'
  BY <1>4, <1>8 DEF IInv, MigrationKeepsItsWord, ghosts
<1> QED
  BY <1>6, <1>7, <1>9 DEF IInv

\* A configuration stores no plaintext.
LEMMA ConfiguredSealed ==
    ASSUME NEW c \in Connection, NEW local \in Locals, local.account \in Accounts
    PROVE  LET d == Configured(c, local) IN
           /\ d \in Connection
           /\ \A f \in Secrets : d[f].encrypted \/ d[f] = NoSecret
<1> DEFINE hook == [local.hook EXCEPT !.encrypted = local.hook # NoSecret]
<1>1. Encrypted(local.account) \in Values /\ Encrypted(local.account).encrypted
  BY DEF Encrypted, Values
<1>2. local.hook \in Values
  BY DEF Locals
<1>3. hook \in Values /\ (hook.encrypted \/ hook = NoSecret)
  <2>1. CASE local.hook = NoSecret
    <3>1. NoSecret \in [account : {Unset}, encrypted : {FALSE}]
      BY DEF NoSecret
    <3>2. hook = NoSecret
      BY <2>1, <3>1
    <3> QED
      BY <3>2 DEF Values
  <2>2. CASE local.hook # NoSecret
    BY <1>2, <2>2 DEF Values
  <2> QED
    BY <2>1, <2>2
<1>4. NoSecret \in Values
  BY DEF Values
<1> HIDE DEF hook
<1>5. Configured(c, local) =
        [public |-> IF local.gateway = "PAYSTACK" THEN c.public ELSE local.account,
         mode |-> IF local.mode = Unset THEN c.mode ELSE local.mode,
         secret |-> Encrypted(local.account),
         extra |-> IF local.extra THEN Encrypted(local.account) ELSE NoSecret,
         hook |-> hook]
  BY DEF Configured, hook
<1>6. c.public \in Accounts \cup {Unset} /\ c.mode \in Modes \cup {Unset}
  BY DEF Connection
<1>7. local.mode \in Modes \cup {Unset}
  BY DEF Locals
<1>8. Configured(c, local) \in Connection
  BY <1>1, <1>3, <1>4, <1>5, <1>6, <1>7 DEF Connection
<1>9. \A f \in Secrets : Configured(c, local)[f].encrypted \/ Configured(c, local)[f] = NoSecret
  BY <1>1, <1>3, <1>5 DEF Secrets
<1> QED
  BY <1>8, <1>9

\* Rows in which a secret is sealed, absent or as it was have no new plaintext.
LEMMA NoNewPlaintext ==
    ASSUME \A m \in Merchants, g \in Gateways, f \in Secrets :
              LET d == conn'[m][g][f] IN d.encrypted \/ d = NoSecret \/ d = conn[m][g][f]
    PROVE  Plaintext' \subseteq Plaintext
<1> SUFFICES ASSUME NEW e \in Plaintext' PROVE e \in Plaintext
  OBVIOUS
<1> DEFINE d == conn'[e.merchant][e.gateway][e.field]
<1>1. e \in Entries /\ d = [account |-> e.account, encrypted |-> FALSE]
  BY DEF Plaintext, ValueOf
<1>2. e.merchant \in Merchants /\ e.gateway \in Gateways /\ e.field \in Secrets
      /\ e.account \in Accounts
  BY <1>1 DEF Entries
<1>3. d.encrypted = FALSE /\ d.account # Unset
  BY <1>1, <1>2, AccountsAssumption
<1>4. d # NoSecret
  BY <1>3 DEF NoSecret
<1>5. d.encrypted \/ d = NoSecret \/ d = conn[e.merchant][e.gateway][e.field]
  BY <1>2
<1>6. d = conn[e.merchant][e.gateway][e.field]
  BY <1>3, <1>4, <1>5
<1> HIDE DEF d
<1> QED
  BY <1>1, <1>6 DEF Plaintext, ValueOf

LEMMA WriteInv == ASSUME IInv, NEW p \in Procs, WriteConnection(p) PROVE IInv'
<1> DEFINE m == loc[p].merchant
           g == loc[p].gateway
           d == Configured(conn[m][g], loc[p])
<1>1. /\ loc[p] \in Locals /\ pc[p] = "write"
      /\ m \in Merchants /\ g \in Gateways /\ loc[p].account \in Accounts
  BY DEF IInv, TypeOK, Named, WriteConnection, At
<1>2. conn \in [Merchants -> [Gateways -> Connection]] /\ conn[m][g] \in Connection
  BY <1>1 DEF IInv, TypeOK
<1>3. d \in Connection /\ \A f \in Secrets : d[f].encrypted \/ d[f] = NoSecret
  BY <1>1, <1>2, ConfiguredSealed
<1>4. /\ conn' = [conn EXCEPT ![m][g] = d] /\ stale' = stale \ {<<m, g>>}
      /\ Goto(p, "idle", Idle)
      /\ UNCHANGED <<backup, configurations, runs, migrated, dropped, clean>>
  BY DEF WriteConnection, Leave
<1> HIDE DEF m, g, d
<1>5. conn' \in [Merchants -> [Gateways -> Connection]]
  BY <1>1, <1>2, <1>3, <1>4
<1>6. Plaintext' \subseteq Plaintext
  <2> SUFFICES ASSUME NEW n \in Merchants, NEW h \in Gateways, NEW f \in Secrets
               PROVE  conn'[n][h][f].encrypted \/ conn'[n][h][f] = NoSecret
                      \/ conn'[n][h][f] = conn[n][h][f]
    BY NoNewPlaintext
  <2>1. CASE n = m /\ h = g
    BY <1>1, <1>2, <1>3, <1>4, <2>1
  <2>2. CASE ~(n = m /\ h = g)
    BY <1>1, <1>2, <1>4, <2>2
  <2> QED
    BY <2>1, <2>2
<1>7. /\ pc' \in [Procs -> Steps] /\ loc' \in [Procs -> Locals]
      /\ pc'[p] = "idle" /\ loc'[p] = Idle
      /\ \A q \in Procs \ {p} : pc'[q] = pc[q] /\ loc'[q] = loc[q]
  BY <1>4, IdleType, Moved DEF IInv, Steps
<1>8. TypeOK'
  BY <1>4, <1>5, <1>7 DEF IInv, TypeOK
<1>9. Named' /\ InFile'
  BY <1>4, <1>7 DEF IInv, Named, InFile
<1>10. MigrationKeepsItsWord'
  BY <1>4, <1>6 DEF IInv, MigrationKeepsItsWord
<1> QED
  BY <1>8, <1>9, <1>10 DEF IInv

-----------------------------------------------------------------------------
(* merchant-secrets:migrate *)

\* A run that has read rows or the file: it leaves rows and file as they are.
LEMMA ReadInv ==
    ASSUME IInv, NEW p \in Procs, LoadMerchantSecrets(p) \/ ReadBackupFile(p)
    PROVE  IInv'
<1> DEFINE step == IF LoadMerchantSecrets(p) THEN "backup" ELSE "restore"
           entries == IF LoadMerchantSecrets(p) THEN Plaintext ELSE backup
           local == [Idle EXCEPT !.entries = entries]
<1>1. /\ Goto(p, step, local) /\ runs < MaxRuns /\ runs' = runs + 1
      /\ UNCHANGED <<conn, backup, configurations, ghosts>>
  BY DEF LoadMerchantSecrets, ReadBackupFile
<1>2. entries \subseteq Entries
  BY DEF IInv, TypeOK, Plaintext
<1>3. step \in Steps \ {"register", "write", "update"}
  BY DEF Steps
<1> HIDE DEF step, entries
<1>4. local \in Locals
  BY <1>2, IdleType DEF Locals
<1> HIDE DEF local
<1>5. configurations' \in 0..MaxConfigurations /\ runs' \in 0..MaxRuns
  BY <1>1, Bounds DEF IInv, TypeOK
<1>6. /\ UNCHANGED <<conn, backup, stale, migrated, dropped>>
      /\ clean' = clean
  BY <1>1 DEF ghosts
<1> QED
  BY <1>1, <1>3, <1>4, <1>5, <1>6, QuietStep

LEMMA VerifyInv == ASSUME IInv, NEW p \in Procs, Verify(p) PROVE IInv'
<1>1. /\ Goto(p, "idle", Idle) /\ clean' = (clean \/ (Plaintext = {}))
      /\ UNCHANGED <<conn, backup, configurations, runs, stale, migrated, dropped>>
  BY DEF Verify, Leave
<1>2. /\ pc' \in [Procs -> Steps] /\ loc' \in [Procs -> Locals]
      /\ pc'[p] = "idle" /\ loc'[p] = Idle
      /\ \A q \in Procs \ {p} : pc'[q] = pc[q] /\ loc'[q] = loc[q]
  BY <1>1, IdleType, Moved DEF IInv, Steps
<1>3. clean' \in BOOLEAN
  BY <1>1, Zenon
<1>4. TypeOK'
  BY <1>1, <1>2, <1>3 DEF IInv, TypeOK
<1>5. Named' /\ InFile'
  BY <1>1, <1>2 DEF IInv, Named, InFile
<1>6. Plaintext' = Plaintext
  BY <1>1 DEF Plaintext, ValueOf
<1>7. clean' => Plaintext' = {}
  <2>1. clean => Plaintext = {}
    BY DEF IInv, MigrationKeepsItsWord
  <2> QED
    BY <1>1, <1>6, <2>1, Zenon
<1>8. migrated' \subseteq backup' \cup dropped'
  BY <1>1 DEF IInv, MigrationKeepsItsWord
<1> QED
  BY <1>4, <1>5, <1>7, <1>8 DEF IInv, MigrationKeepsItsWord

\* What the file no longer holds is dropped: nothing that was in either is lost.
LEMMA WriteBackupFileInv == ASSUME IInv, NEW p \in Procs, WriteBackupFile(p) PROVE IInv'
<1>1. /\ backup' = loc[p].entries /\ dropped' = dropped \cup (backup \ loc[p].entries)
      /\ Goto(p, "update", loc[p])
      /\ UNCHANGED <<conn, configurations, runs, stale, migrated, clean>>
  BY DEF WriteBackupFile
<1>2. loc[p] \in Locals /\ loc[p].entries \subseteq Entries
  BY DEF IInv, TypeOK, Locals
<1>3. /\ pc' \in [Procs -> Steps] /\ loc' \in [Procs -> Locals]
      /\ pc'[p] = "update" /\ loc'[p] = loc[p]
      /\ \A q \in Procs \ {p} : pc'[q] = pc[q] /\ loc'[q] = loc[q]
  BY <1>1, <1>2, Moved DEF IInv, Steps
<1>4. backup \cup dropped \subseteq backup' \cup dropped'
  BY <1>1
<1>5. TypeOK'
  BY <1>1, <1>2, <1>3 DEF IInv, TypeOK
<1>6. Named'
  BY <1>3 DEF IInv, Named
<1>7. InFile'
  <2> SUFFICES ASSUME NEW q \in Procs, pc'[q] = "update"
               PROVE  loc'[q].entries \subseteq backup' \cup dropped'
    BY DEF InFile
  <2>1. CASE q = p
    BY <1>1, <1>3, <2>1
  <2>2. CASE q # p
    BY <1>3, <1>4, <2>2 DEF IInv, InFile
  <2> QED
    BY <2>1, <2>2
<1>8. Plaintext' = Plaintext
  BY <1>1 DEF Plaintext, ValueOf
<1>9. MigrationKeepsItsWord'
  BY <1>1, <1>4, <1>8 DEF IInv, MigrationKeepsItsWord
<1> QED
  BY <1>5, <1>6, <1>7, <1>9 DEF IInv

\* What a row becomes: a connection, in which what is written back is as encrypted as asked.
LEMMA UpdatedType ==
    ASSUME TypeOK, NEW m \in Merchants, NEW entries \in SUBSET Entries,
           NEW encrypted \in BOOLEAN
    PROVE  /\ Updated(m, entries, encrypted) \in [Gateways -> Connection]
           /\ \A g \in Gateways, f \in Secrets :
                 \/ Updated(m, entries, encrypted)[g][f] = conn[m][g][f]
                 \/ Updated(m, entries, encrypted)[g][f].encrypted = encrypted
<1>1. \A g \in Gateways, f \in Secrets :
         /\ Rewritten(m, g, f, entries, encrypted) \in Values
         /\ \/ Rewritten(m, g, f, entries, encrypted) = conn[m][g][f]
            \/ Rewritten(m, g, f, entries, encrypted).encrypted = encrypted
  <2> SUFFICES ASSUME NEW g \in Gateways, NEW f \in Secrets
               PROVE  /\ Rewritten(m, g, f, entries, encrypted) \in Values
                      /\ \/ Rewritten(m, g, f, entries, encrypted) = conn[m][g][f]
                         \/ Rewritten(m, g, f, entries, encrypted).encrypted = encrypted
    OBVIOUS
  <2> DEFINE own == {e \in entries : e.gateway = g /\ e.field = f}
  <2>1. CASE own = {}
    <3>1. Rewritten(m, g, f, entries, encrypted) = conn[m][g][f]
      BY <2>1 DEF Rewritten
    <3>2. conn[m][g] \in Connection
      BY DEF TypeOK
    <3>3. conn[m][g][f] \in Values
      BY <3>2 DEF Connection, Secrets
    <3> QED
      BY <3>1, <3>3
  <2>2. CASE own # {}
    <3>1. Rewritten(m, g, f, entries, encrypted) =
            [account |-> (CHOOSE e \in own : TRUE).account, encrypted |-> encrypted]
      BY <2>2 DEF Rewritten
    <3>2. (CHOOSE e \in own : TRUE) \in own
      BY <2>2
    <3>3. (CHOOSE e \in own : TRUE).account \in Accounts
      BY <3>2 DEF Entries
    <3> QED
      BY <3>1, <3>3 DEF Values
  <2> QED
    BY <2>1, <2>2
<1> DEFINE row(g) == [conn[m][g] EXCEPT !.secret = Rewritten(m, g, "secret", entries, encrypted),
                                        !.extra = Rewritten(m, g, "extra", entries, encrypted),
                                        !.hook = Rewritten(m, g, "hook", entries, encrypted)]
<1>2. Updated(m, entries, encrypted) = [g \in Gateways |-> row(g)]
  BY DEF Updated
<1>3. ASSUME NEW g \in Gateways
      PROVE  /\ row(g) \in Connection
             /\ \A f \in Secrets : row(g)[f] = Rewritten(m, g, f, entries, encrypted)
  <2>1. conn[m][g] \in Connection
    BY DEF TypeOK
  <2>2. /\ Rewritten(m, g, "secret", entries, encrypted) \in Values
        /\ Rewritten(m, g, "extra", entries, encrypted) \in Values
        /\ Rewritten(m, g, "hook", entries, encrypted) \in Values
    BY <1>1 DEF Secrets
  <2> QED
    BY <2>1, <2>2 DEF Connection, Secrets
<1> HIDE DEF row
<1> QED
  BY <1>1, <1>2, <1>3

LEMMA UpdateMerchantInv ==
    ASSUME IInv, NEW p \in Procs, NEW m \in Merchants, UpdateMerchant(p, m) PROVE IInv'
<1> DEFINE entries == Of(m, loc[p].entries)
           local == [loc[p] EXCEPT !.entries = @ \ entries]
           row == Updated(m, entries, TRUE)
<1>1. loc[p] \in Locals /\ pc[p] = "update" /\ loc[p].entries \in SUBSET Entries
  BY DEF IInv, TypeOK, Locals, UpdateMerchant, At
<1>2. entries \in SUBSET Entries /\ entries \subseteq loc[p].entries
  BY <1>1 DEF Of
<1>3. Overtaken(entries) \subseteq Merchants \X Gateways
  BY <1>2 DEF Overtaken, Entries
<1>4. /\ conn' = [conn EXCEPT ![m] = row] /\ stale' = stale \cup Overtaken(entries)
      /\ migrated' = migrated \cup entries /\ Goto(p, "update", local)
      /\ UNCHANGED <<backup, configurations, runs, dropped, clean>>
  BY DEF UpdateMerchant
<1>5. local \in Locals /\ local.entries = loc[p].entries \ entries
  BY <1>1 DEF Locals
<1>6. /\ row \in [Gateways -> Connection]
      /\ \A g \in Gateways, f \in Secrets :
            row[g][f] = conn[m][g][f] \/ row[g][f].encrypted = TRUE
  <2>1. TRUE \in BOOLEAN /\ TypeOK
    BY DEF IInv
  <2> HIDE DEF entries
  <2> QED
    BY <1>2, <2>1, UpdatedType, Zenon
<1> HIDE DEF entries, local, row
<1>7. conn' \in [Merchants -> [Gateways -> Connection]]
  BY <1>4, <1>6 DEF IInv, TypeOK
<1>8. Plaintext' \subseteq Plaintext
  <2>1. conn \in [Merchants -> [Gateways -> Connection]]
    BY DEF IInv, TypeOK
  <2> SUFFICES ASSUME NEW n \in Merchants, NEW h \in Gateways, NEW f \in Secrets
               PROVE  conn'[n][h][f].encrypted \/ conn'[n][h][f] = NoSecret
                      \/ conn'[n][h][f] = conn[n][h][f]
    BY NoNewPlaintext
  <2>2. CASE n = m
    BY <1>4, <1>6, <2>1, <2>2
  <2>3. CASE n # m
    BY <1>4, <2>1, <2>3
  <2> QED
    BY <2>2, <2>3
<1>9. /\ pc' \in [Procs -> Steps] /\ loc' \in [Procs -> Locals]
      /\ pc'[p] = "update" /\ loc'[p] = local
      /\ \A q \in Procs \ {p} : pc'[q] = pc[q] /\ loc'[q] = loc[q]
  BY <1>4, <1>5, Moved DEF IInv, Steps
<1>10. TypeOK'
  BY <1>2, <1>3, <1>4, <1>7, <1>9 DEF IInv, TypeOK
<1>11. Named'
  BY <1>9 DEF IInv, Named
<1>12. loc[p].entries \subseteq backup \cup dropped
  BY <1>1 DEF IInv, InFile
<1>13. InFile'
  BY <1>4, <1>5, <1>9, <1>12 DEF IInv, InFile
<1>14. MigrationKeepsItsWord'
  BY <1>2, <1>4, <1>8, <1>12 DEF IInv, MigrationKeepsItsWord
<1> QED
  BY <1>10, <1>11, <1>13, <1>14 DEF IInv

LEMMA RestoreMerchantInv ==
    ASSUME IInv, NEW p \in Procs, NEW m \in Merchants, RestoreMerchant(p, m) PROVE IInv'
<1> DEFINE entries == Of(m, loc[p].entries)
           done == entries = loc[p].entries
           step == IF done THEN "idle" ELSE "restore"
           local == IF done THEN Idle ELSE [loc[p] EXCEPT !.entries = @ \ entries]
           row == Updated(m, entries, FALSE)
<1>1. loc[p] \in Locals /\ loc[p].entries \in SUBSET Entries
  BY DEF IInv, TypeOK, Locals
<1>2. entries \in SUBSET Entries
  BY <1>1 DEF Of
<1>3. Overtaken(entries) \subseteq Merchants \X Gateways
  BY <1>2 DEF Overtaken, Entries
<1>4. /\ conn' = [conn EXCEPT ![m] = row] /\ stale' = stale \cup Overtaken(entries)
      /\ ~clean' /\ clean' \in BOOLEAN /\ Goto(p, step, local)
      /\ UNCHANGED <<backup, configurations, runs, migrated, dropped>>
  <2>1. Goto(p, step, local)
    BY DEF RestoreMerchant, Leave
  <2> QED
    BY <2>1 DEF RestoreMerchant
<1>5. row \in [Gateways -> Connection]
  <2>1. FALSE \in BOOLEAN /\ TypeOK
    BY DEF IInv
  <2> HIDE DEF entries
  <2> QED
    BY <1>2, <2>1, UpdatedType, Zenon
<1>6. local \in Locals /\ step \in Steps \ {"register", "write", "update"}
  BY <1>1, IdleType DEF Locals, Steps
<1> HIDE DEF entries, done, step, local, row
<1>7. conn' \in [Merchants -> [Gateways -> Connection]]
  BY <1>4, <1>5 DEF IInv, TypeOK
<1>8. /\ pc' \in [Procs -> Steps] /\ loc' \in [Procs -> Locals]
      /\ pc'[p] = step /\ loc'[p] = local
      /\ \A q \in Procs \ {p} : pc'[q] = pc[q] /\ loc'[q] = loc[q]
  BY <1>4, <1>6, Moved DEF IInv
<1>9. TypeOK'
  BY <1>3, <1>4, <1>7, <1>8 DEF IInv, TypeOK
<1>10. Named' /\ InFile'
  BY <1>4, <1>6, <1>8 DEF IInv, Named, InFile
<1>11. MigrationKeepsItsWord'
  BY <1>4 DEF IInv, MigrationKeepsItsWord
<1> QED
  BY <1>9, <1>10, <1>11 DEF IInv

LEMMA EndUpdateInv == ASSUME IInv, NEW p \in Procs, EndUpdate(p) PROVE IInv'
<1>1. /\ Goto(p, "check", Idle) /\ "check" \in Steps \ {"register", "write", "update"}
      /\ UNCHANGED <<conn, backup, configurations, runs, ghosts>>
  BY DEF EndUpdate, Steps
<1>2. configurations' \in 0..MaxConfigurations /\ runs' \in 0..MaxRuns
  BY <1>1 DEF IInv, TypeOK
<1>3. UNCHANGED <<conn, backup, stale, migrated, dropped>> /\ clean' = clean
  BY <1>1 DEF ghosts
<1> QED
  BY <1>1, <1>2, <1>3, IdleType, QuietStep

-----------------------------------------------------------------------------
(* The theorems *)

LEMMA IInvNext == IInv /\ [Next]_vars => IInv'
<1> SUFFICES ASSUME IInv, [Next]_vars PROVE IInv'
  OBVIOUS
<1>1. CASE UNCHANGED vars
  BY <1>1 DEF IInv, TypeOK, Named, InFile, MigrationKeepsItsWord, Plaintext, ValueOf,
              vars, ghosts
<1>2. ASSUME NEW p \in Procs, Request(p) PROVE IInv'
  BY <1>2, ConfigureInv, RegisterInv, WriteInv DEF Request
<1>3. ASSUME NEW p \in Procs, Script(p) PROVE IInv'
  BY <1>3, ReadInv, VerifyInv, WriteBackupFileInv, UpdateMerchantInv, EndUpdateInv,
     RestoreMerchantInv DEF Script
<1>4. ASSUME NEW p \in Procs, Stop(p) PROVE IInv'
  <2>1. Leave(p) /\ UNCHANGED <<conn, backup, configurations, runs, ghosts>>
    BY <1>4 DEF Stop
  <2>2. /\ UNCHANGED <<conn, backup, stale, migrated, dropped>> /\ clean' = clean
        /\ UNCHANGED <<configurations, runs>>
    BY <2>1 DEF ghosts
  <2> QED
    BY <2>1, <2>2, LeaveInv
<1> QED
  BY <1>1, <1>2, <1>3, <1>4 DEF Next

LEMMA Invariant == Spec => []IInv
<1> QED
  BY IInvInit, IInvNext, PTL DEF Spec

\* Every reachable state has its type: a configuration writes the columns of a gateway
\* and the script those it has read, whatever they were before.
THEOREM TypeCorrect == Spec => []TypeOK
<1>1. IInv => TypeOK
  BY DEF IInv
<1> QED
  BY <1>1, Invariant, PTL

\* However many requests, runs and rollbacks overlap or break off: after a verification
\* that found no plaintext there is none until a rollback, for no request stores any; and
\* what was encrypted is in the file, or was until a later run wrote over it.
THEOREM MigrationKept == Spec => []MigrationKeepsItsWord
<1>1. IInv => MigrationKeepsItsWord
  BY DEF IInv
<1> QED
  BY <1>1, Invariant, PTL
-----------------------------------------------------------------------------
(* The keys of a connection: the inductive invariant *)

\* The secrets that were stored before any was encrypted.
OldPlaintext ==
    {e \in Entries :
        Legacy[e.merchant][e.gateway][e.field] = [account |-> e.account, encrypted |-> FALSE]}

\* Of each connection all of them or none: no step takes a connection's secrets apart.
AllOrNone(E) ==
    /\ E \subseteq OldPlaintext
    /\ \A e \in E, d \in OldPlaintext :
          d.merchant = e.merchant /\ d.gateway = e.gateway => d \in E

OldTogether ==
    AllOrNone(Plaintext) /\ AllOrNone(backup) /\ \A p \in Procs : AllOrNone(loc[p].entries)

\* What a configuration will write: keys of the mode, a webhook of the account.
Sound(local) ==
    /\ HasModedKeys(local.gateway) => local.mode # Unset /\ Consistent(local.account, local.mode)
    /\ local.hook.account \in {Unset, local.account}

Coherent == \A p \in Procs : pc[p] \in {"register", "write"} => Sound(loc[p])

\* A webhook of another account than the public key's is one the script put back, and it
\* put the secret key back with it; and Paystack has no public key.
Bound(m, g, c) ==
    /\ g = "PAYSTACK" => c.public = Unset
    /\ c.public # Unset /\ c.hook.account \notin {Unset, c.public} =>
        /\ c.secret.account = c.hook.account
        /\ \E e \in OldPlaintext : e.merchant = m /\ e.gateway = g /\ e.field = "hook"

\* A connection the script has not put back: one account, of the stored mode.
Whole(g, c) ==
    /\ \A a, b \in AccountsOf(c) : a = b
    /\ HasModedKeys(g) => \A a \in AccountsOf(c) : c.mode = Unset \/ Consistent(a, c.mode)

AllFit ==
    \A m \in Merchants, g \in Gateways :
        Bound(m, g, conn[m][g]) /\ (<<m, g>> \notin stale => Whole(g, conn[m][g]))

WholeInv == OldTogether /\ Coherent /\ AllFit

-----------------------------------------------------------------------------
(* The keys of a connection: initially, and the steps that write no row *)

LEMMA WholeInit == Init => WholeInv
<1> SUFFICES ASSUME Init PROVE WholeInv
  OBVIOUS
<1>1. Legacy \in [Merchants -> [Gateways -> Connection]] /\ conn = Legacy
  BY LegacyAssumption DEF Init
<1>2. Plaintext = OldPlaintext
  BY <1>1 DEF Plaintext, ValueOf, OldPlaintext
<1>3. OldTogether
  BY <1>2 DEF Init, OldTogether, AllOrNone, Idle
<1>4. Coherent
  BY DEF Init, Coherent
<1>5. ASSUME NEW m \in Merchants, NEW g \in Gateways
      PROVE  Bound(m, g, conn[m][g]) /\ Whole(g, conn[m][g])
  <2> DEFINE c == Legacy[m][g]
  <2>1. c \in Connection
    BY <1>1
  <2>2. /\ \A a, b \in AccountsOf(c) : a = b
        /\ HasModedKeys(g) => \A a \in AccountsOf(c) : c.mode = Unset \/ Consistent(a, c.mode)
        /\ g = "PAYSTACK" => c.public = Unset
    BY LegacyWholeAssumption
  <2>3. c.public # Unset /\ c.hook.account # Unset => c.hook.account = c.public
    BY <2>2 DEF AccountsOf, Secrets
  <2> HIDE DEF c
  <2>4. Bound(m, g, c) /\ Whole(g, c)
    BY <2>2, <2>3 DEF Bound, Whole
  <2> QED
    BY <1>1, <2>4 DEF c
<1> QED
  BY <1>3, <1>4, <1>5 DEF WholeInv, AllFit

\* One task moves, with sound values and no connection's secrets taken apart.
LEMMA MovedWhole ==
    ASSUME IInv, WholeInv, NEW p \in Procs, NEW step \in Steps, NEW local \in Locals,
           Goto(p, step, local), AllOrNone(local.entries),
           step \in {"register", "write"} => Sound(local)
    PROVE  Coherent' /\ \A q \in Procs : AllOrNone(loc'[q].entries)
<1>1. /\ pc'[p] = step /\ loc'[p] = local
      /\ \A q \in Procs \ {p} : pc'[q] = pc[q] /\ loc'[q] = loc[q]
  BY Moved DEF IInv
<1>2. \A q \in Procs : pc'[q] \in {"register", "write"} => Sound(loc'[q])
  BY <1>1 DEF WholeInv, Coherent
<1>3. \A q \in Procs : AllOrNone(loc'[q].entries)
  BY <1>1 DEF WholeInv, OldTogether
<1> QED
  BY <1>2, <1>3 DEF Coherent

LEMMA QuietWhole ==
    ASSUME IInv, WholeInv, NEW p \in Procs, NEW step \in Steps, NEW local \in Locals,
           Goto(p, step, local), AllOrNone(local.entries),
           step \in {"register", "write"} => Sound(local),
           UNCHANGED <<conn, stale>>, AllOrNone(backup')
    PROVE  WholeInv'
<1>1. Coherent' /\ \A q \in Procs : AllOrNone(loc'[q].entries)
  BY MovedWhole
<1>2. Plaintext' = Plaintext
  BY DEF Plaintext, ValueOf
<1>3. OldTogether'
  BY <1>1, <1>2 DEF WholeInv, OldTogether
<1>4. AllFit'
  BY DEF WholeInv, AllFit
<1> QED
  BY <1>1, <1>3, <1>4 DEF WholeInv

LEMMA NoneOrAll == AllOrNone({}) /\ AllOrNone(Idle.entries)
  BY DEF AllOrNone, Idle

LEMMA LeaveWhole ==
    ASSUME IInv, WholeInv, NEW p \in Procs, Leave(p), UNCHANGED <<conn, stale, backup>>
    PROVE  WholeInv'
<1>1. Goto(p, "idle", Idle) /\ "idle" \in Steps /\ "idle" \notin {"register", "write"}
  BY DEF Leave, Steps
<1>2. AllOrNone(backup')
  BY DEF WholeInv, OldTogether
<1> QED
  BY <1>1, <1>2, IdleType, NoneOrAll, QuietWhole

\* The webhook that is reused is one of the account that is configured.
LEMMA ConfigureWhole ==
    ASSUME IInv, WholeInv, NEW p \in Procs, NEW m \in Merchants, NEW g \in Gateways,
           NEW a \in Accounts, NEW given \in Modes \cup {Unset}, NEW extra \in BOOLEAN,
           Configure(p, m, g, a, given, extra)
    PROVE  WholeInv'
<1> DEFINE c == conn[m][g]
           mode == SelectedMode(g, given, a, c.mode)
           reusable == g = "YOCO" /\ ReusableWebhook(c, a, mode)
           step == IF g = "YOCO" /\ ~reusable THEN "register" ELSE "write"
           local == [Idle EXCEPT !.merchant = m, !.gateway = g, !.account = a,
                            !.mode = IF g = "OZOW" THEN given ELSE mode, !.extra = extra,
                            !.hook = IF reusable THEN c.hook ELSE NoSecret]
<1>1. c \in Connection
  BY DEF IInv, TypeOK
<1>2. mode \in Modes \cup {Unset} /\ c.hook \in Values
  BY <1>1, AccountsAssumption DEF SelectedMode, Connection, Modes
<1>3. local \in Locals /\ step \in Steps
  BY <1>2 DEF Idle, Locals, Values, Steps
<1>4. /\ local.gateway = g /\ local.account = a /\ local.entries = {}
      /\ local.hook = IF reusable THEN c.hook ELSE NoSecret
      /\ g # "OZOW" => local.mode = mode
  BY DEF Idle
<1>5. Goto(p, step, local) /\ ModeAccepted(g, a, mode)
      /\ UNCHANGED <<conn, backup, runs, ghosts>>
  BY DEF Configure
<1>6. HasModedKeys(g) => local.mode # Unset /\ Consistent(a, local.mode)
  BY <1>4, <1>5 DEF ModeAccepted, HasModedKeys
<1>7. reusable => c.hook.account \in {Unset, a}
  <2>1. Bound(m, g, c)
    BY DEF WholeInv, AllFit
  <2>2. reusable => c.public = a /\ c.secret.account = a /\ a # Unset
    BY AccountsAssumption DEF ReusableWebhook
  <2> HIDE DEF c, reusable
  <2> QED
    BY <2>1, <2>2 DEF Bound
<1>8. local.hook.account \in {Unset, a}
  BY <1>4, <1>7 DEF NoSecret
<1> HIDE DEF local, step, mode, reusable
<1>9. Sound(local)
  BY <1>4, <1>6, <1>8 DEF Sound
<1>10. AllOrNone(local.entries) /\ AllOrNone(backup')
  BY <1>4, <1>5, NoneOrAll DEF WholeInv, OldTogether
<1>11. UNCHANGED <<conn, stale>>
  BY <1>5 DEF ghosts
<1> QED
  BY <1>3, <1>5, <1>9, <1>10, <1>11, QuietWhole

LEMMA RegisterWhole ==
    ASSUME IInv, WholeInv, NEW p \in Procs, RegisterYocoWebhook(p) PROVE WholeInv'
<1> DEFINE local == [loc[p] EXCEPT !.hook = Encrypted(loc[p].account)]
<1>1. loc[p] \in Locals /\ pc[p] = "register" /\ loc[p].account \in Accounts
  BY DEF IInv, TypeOK, Named, RegisterYocoWebhook, At
<1>2. Encrypted(loc[p].account) \in Values
  BY <1>1 DEF Encrypted, Values
<1>3. local \in Locals /\ local.gateway = loc[p].gateway /\ local.account = loc[p].account
      /\ local.mode = loc[p].mode /\ local.hook.account = loc[p].account
      /\ local.entries = loc[p].entries
  BY <1>1, <1>2 DEF Locals, Encrypted
<1> HIDE DEF local
<1>4. Goto(p, "write", local) /\ UNCHANGED <<conn, backup, configurations, runs, ghosts>>
  BY DEF RegisterYocoWebhook, local
<1>5. Sound(local)
  BY <1>1, <1>3 DEF WholeInv, Coherent, Sound
<1>6. AllOrNone(local.entries) /\ AllOrNone(backup')
  BY <1>3, <1>4 DEF WholeInv, OldTogether
<1>7. UNCHANGED <<conn, stale>> /\ "write" \in Steps
  BY <1>4 DEF ghosts, Steps
<1> QED
  BY <1>3, <1>4, <1>5, <1>6, <1>7, QuietWhole

\* A run reads all secrets of a connection or none, in the rows as in the file.
LEMMA ReadWhole ==
    ASSUME IInv, WholeInv, NEW p \in Procs, LoadMerchantSecrets(p) \/ ReadBackupFile(p)
    PROVE  WholeInv'
<1> DEFINE step == IF LoadMerchantSecrets(p) THEN "backup" ELSE "restore"
           entries == IF LoadMerchantSecrets(p) THEN Plaintext ELSE backup
           local == [Idle EXCEPT !.entries = entries]
<1>1. Goto(p, step, local) /\ UNCHANGED <<conn, backup, configurations, ghosts>>
  BY DEF LoadMerchantSecrets, ReadBackupFile
<1>2. entries \subseteq Entries /\ AllOrNone(entries)
  BY DEF IInv, TypeOK, Plaintext, WholeInv, OldTogether
<1>3. step \in Steps /\ step \notin {"register", "write"}
  BY DEF Steps
<1> HIDE DEF step, entries
<1>4. local \in Locals /\ local.entries = entries
  BY <1>2, IdleType DEF Locals
<1> HIDE DEF local
<1>5. UNCHANGED <<conn, stale>> /\ AllOrNone(backup')
  BY <1>1 DEF ghosts, WholeInv, OldTogether
<1> QED
  BY <1>1, <1>2, <1>3, <1>4, <1>5, QuietWhole

LEMMA WriteBackupFileWhole ==
    ASSUME IInv, WholeInv, NEW p \in Procs, WriteBackupFile(p) PROVE WholeInv'
<1>1. /\ backup' = loc[p].entries /\ Goto(p, "update", loc[p]) /\ UNCHANGED <<conn, stale>>
      /\ "update" \in Steps
  BY DEF WriteBackupFile, Steps
<1>2. AllOrNone(loc[p].entries) /\ AllOrNone(backup') /\ loc[p] \in Locals
  BY <1>1 DEF WholeInv, OldTogether, IInv, TypeOK
<1> QED
  BY <1>1, <1>2, QuietWhole

LEMMA EndUpdateWhole ==
    ASSUME IInv, WholeInv, NEW p \in Procs, EndUpdate(p) PROVE WholeInv'
<1>1. Goto(p, "check", Idle) /\ "check" \in Steps /\ UNCHANGED <<conn, stale>>
      /\ AllOrNone(backup')
  BY DEF EndUpdate, ghosts, Steps, WholeInv, OldTogether
<1> QED
  BY <1>1, IdleType, NoneOrAll, QuietWhole

-----------------------------------------------------------------------------
(* The keys of a connection: what a configuration writes *)

\* All columns are of one account, of the mode the keys show.
LEMMA ConfiguredWhole ==
    ASSUME NEW m \in Merchants, NEW c \in Connection, NEW local \in Locals,
           local.account \in Accounts, Sound(local), Bound(m, local.gateway, c)
    PROVE  /\ Bound(m, local.gateway, Configured(c, local))
           /\ Whole(local.gateway, Configured(c, local))
<1> DEFINE d == Configured(c, local)
           g == local.gateway
           a == local.account
<1>1. /\ d.public = IF g = "PAYSTACK" THEN Unset ELSE a
      /\ d.mode = IF local.mode = Unset THEN c.mode ELSE local.mode
      /\ d.secret.account = a /\ d.extra.account \in {Unset, a}
      /\ d.hook.account = local.hook.account
  <2>1. local.hook \in Values
    BY DEF Locals
  <2>2. [local.hook EXCEPT !.encrypted = local.hook # NoSecret].account = local.hook.account
    BY <2>1 DEF Values, NoSecret
  <2> QED
    BY <2>2 DEF Configured, Bound, Encrypted, NoSecret
<1>2. /\ HasModedKeys(g) => local.mode # Unset /\ Consistent(a, local.mode)
      /\ local.hook.account \in {Unset, a}
  BY DEF Sound
<1> HIDE DEF d
<1>3. AccountsOf(d) \subseteq {a}
  BY <1>1, <1>2 DEF AccountsOf, Secrets
<1>4. Bound(m, g, d)
  BY <1>1, <1>2 DEF Bound
<1>5. Whole(g, d)
  BY <1>1, <1>2, <1>3 DEF Whole
<1> QED
  BY <1>4, <1>5 DEF d

LEMMA WriteWhole == ASSUME IInv, WholeInv, NEW p \in Procs, WriteConnection(p) PROVE WholeInv'
<1> DEFINE m == loc[p].merchant
           g == loc[p].gateway
           d == Configured(conn[m][g], loc[p])
<1>1. /\ loc[p] \in Locals /\ pc[p] = "write"
      /\ m \in Merchants /\ g \in Gateways /\ loc[p].account \in Accounts
  BY DEF IInv, TypeOK, Named, WriteConnection, At
<1>2. conn \in [Merchants -> [Gateways -> Connection]] /\ conn[m][g] \in Connection
  BY <1>1 DEF IInv, TypeOK
<1>3. Sound(loc[p]) /\ Bound(m, g, conn[m][g])
  BY <1>1 DEF WholeInv, Coherent, AllFit
<1>4. \A f \in Secrets : d[f].encrypted \/ d[f] = NoSecret
  BY <1>1, <1>2, ConfiguredSealed
<1>5. Bound(m, g, d) /\ Whole(g, d)
  BY <1>1, <1>2, <1>3, ConfiguredWhole
<1>6. /\ conn' = [conn EXCEPT ![m][g] = d] /\ stale' = stale \ {<<m, g>>}
      /\ Goto(p, "idle", Idle) /\ backup' = backup
  BY DEF WriteConnection, Leave
<1> HIDE DEF m, g, d
<1>7. /\ conn'[m][g] = d
      /\ \A n \in Merchants, h \in Gateways :
            n # m \/ h # g => conn'[n][h] = conn[n][h]
  BY <1>1, <1>2, <1>6
<1>8. AllFit'
  <2> SUFFICES ASSUME NEW n \in Merchants, NEW h \in Gateways
               PROVE  /\ Bound(n, h, conn'[n][h])
                      /\ <<n, h>> \notin stale' => Whole(h, conn'[n][h])
    BY DEF AllFit
  <2>1. CASE n = m /\ h = g
    BY <1>5, <1>7, <2>1
  <2>2. CASE n # m \/ h # g
    BY <1>6, <1>7, <2>2 DEF WholeInv, AllFit
  <2> QED
    BY <2>1, <2>2
<1>9. \A e \in Entries : ValueOf(e)' = conn'[e.merchant][e.gateway][e.field]
  BY DEF ValueOf
<1>10. ASSUME NEW e \in Plaintext' 
       PROVE  /\ e \in Plaintext
              /\ e.merchant # m \/ e.gateway # g
  <2>1. /\ e \in Entries
        /\ conn'[e.merchant][e.gateway][e.field] = [account |-> e.account, encrypted |-> FALSE]
    BY DEF Plaintext, ValueOf
  <2>2. /\ e.merchant \in Merchants /\ e.gateway \in Gateways /\ e.field \in Secrets
        /\ e.account # Unset
    BY <2>1, AccountsAssumption DEF Entries
  <2>3. CASE e.merchant = m /\ e.gateway = g
    BY <1>4, <1>7, <2>1, <2>2, <2>3 DEF NoSecret
  <2> QED
    BY <1>7, <2>1, <2>2, <2>3 DEF Plaintext, ValueOf
<1>11. AllOrNone(Plaintext')
  <2>1. AllOrNone(Plaintext)
    BY DEF WholeInv, OldTogether
  <2> SUFFICES ASSUME NEW e \in Plaintext', NEW d1 \in OldPlaintext,
                      d1.merchant = e.merchant /\ d1.gateway = e.gateway
               PROVE  d1 \in Plaintext'
    BY <1>10, <2>1 DEF AllOrNone
  <2>2. d1 \in Plaintext /\ d1 \in Entries /\ (d1.merchant # m \/ d1.gateway # g)
    BY <1>10, <2>1 DEF AllOrNone, OldPlaintext
  <2>3. conn'[d1.merchant][d1.gateway] = conn[d1.merchant][d1.gateway]
    BY <1>7, <2>2 DEF Entries
  <2> QED
    BY <2>2, <2>3 DEF Plaintext, ValueOf
<1>12. Coherent' /\ \A q \in Procs : AllOrNone(loc'[q].entries)
  BY <1>6, IdleType, NoneOrAll, MovedWhole DEF Steps
<1>13. OldTogether'
  BY <1>6, <1>11, <1>12 DEF WholeInv, OldTogether
<1> QED
  BY <1>8, <1>12, <1>13 DEF WholeInv

-----------------------------------------------------------------------------
(* The keys of a connection: what the script writes *)

\* Of a merchant's entries, and of those that are left.
LEMMA Parted ==
    ASSUME NEW E \in SUBSET Entries, AllOrNone(E), NEW m \in Merchants
    PROVE  AllOrNone(Of(m, E)) /\ AllOrNone(E \ Of(m, E))
  BY DEF AllOrNone, Of

\* A field was stored before secrets were encrypted.
WasPlain(m, g, f) ==
    \E e \in OldPlaintext : e.merchant = m /\ e.gateway = g /\ e.field = f

\* What is written back is what was stored then, of all of a connection's secrets or none.
LEMMA UpdatedOld ==
    ASSUME TypeOK, NEW m \in Merchants, NEW E \in SUBSET Entries, AllOrNone(E),
           \A e \in E : e.merchant = m, NEW encrypted \in BOOLEAN, NEW g \in Gateways
    PROVE  LET c == conn[m][g]
               d == Updated(m, E, encrypted)[g]
           IN /\ d.public = c.public /\ d.mode = c.mode
              /\ \A f \in Secrets :
                    IF (\E e \in E : e.gateway = g) /\ WasPlain(m, g, f)
                    THEN d[f] = [account |-> Legacy[m][g][f].account, encrypted |-> encrypted]
                    ELSE d[f] = c[f]
<1> DEFINE c == conn[m][g]
           d == [c EXCEPT !.secret = Rewritten(m, g, "secret", E, encrypted),
                          !.extra = Rewritten(m, g, "extra", E, encrypted),
                          !.hook = Rewritten(m, g, "hook", E, encrypted)]
<1>1. Updated(m, E, encrypted)[g] = d
  BY DEF Updated
<1>2. c \in Connection
  BY DEF TypeOK
<1>3. /\ d.public = c.public /\ d.mode = c.mode
      /\ \A f \in Secrets : d[f] = Rewritten(m, g, f, E, encrypted)
  BY <1>2 DEF Connection, Secrets
<1>4. ASSUME NEW f \in Secrets
      PROVE  IF (\E e \in E : e.gateway = g) /\ WasPlain(m, g, f)
             THEN Rewritten(m, g, f, E, encrypted) =
                    [account |-> Legacy[m][g][f].account, encrypted |-> encrypted]
             ELSE Rewritten(m, g, f, E, encrypted) = c[f]
  <2> DEFINE own == {e \in E : e.gateway = g /\ e.field = f}
  <2>1. (\E e \in E : e.gateway = g) /\ WasPlain(m, g, f) => own # {}
    BY DEF WasPlain, AllOrNone
  <2>2. own # {} => (\E e \in E : e.gateway = g) /\ WasPlain(m, g, f)
    BY DEF WasPlain, AllOrNone
  <2>3. CASE own = {}
    BY <2>1, <2>3 DEF Rewritten
  <2>4. CASE own # {}
    <3>1. (CHOOSE e \in own : TRUE) \in own
      BY <2>4
    <3>2. PICK e \in own : e = (CHOOSE x \in own : TRUE)
      BY <3>1
    <3>3. Rewritten(m, g, f, E, encrypted) = [account |-> e.account, encrypted |-> encrypted]
      BY <2>4, <3>2 DEF Rewritten
    <3>4. Legacy[m][g][f] = [account |-> e.account, encrypted |-> FALSE]
      BY DEF AllOrNone, OldPlaintext
    <3>5. Legacy[m][g][f].account = e.account
      BY <3>4
    <3> QED
      BY <2>2, <2>4, <3>3, <3>5
  <2> QED
    BY <2>3, <2>4
<1> HIDE DEF c, d
<1> QED
  BY <1>1, <1>3, <1>4 DEF c

\* The webhook's secret and the key go back together, to the same account.
LEMMA HookWithSecret ==
    ASSUME NEW m \in Merchants, NEW g \in Gateways, WasPlain(m, g, "hook")
    PROVE  WasPlain(m, g, "secret") /\ Legacy[m][g].secret.account = Legacy[m][g].hook.account
<1> DEFINE c == Legacy[m][g]
<1>1. c \in Connection
  BY LegacyAssumption
<1>2. PICK e \in OldPlaintext : e.merchant = m /\ e.gateway = g /\ e.field = "hook"
  BY DEF WasPlain
<1>3. /\ e \in Entries /\ e.account \in Accounts /\ e.account # Unset
      /\ c.hook = [account |-> e.account, encrypted |-> FALSE]
  BY <1>2, AccountsAssumption DEF OldPlaintext, Entries
<1>4. c.hook # NoSecret /\ c.hook.encrypted = FALSE /\ c.hook.account = e.account
  BY <1>3 DEF NoSecret
<1>5. /\ \A a, b \in AccountsOf(c) : a = b
      /\ c.secret # NoSecret /\ c.secret.encrypted = FALSE
  BY <1>4, LegacyWholeAssumption
<1>6. c.secret \in Values
  BY <1>1 DEF Connection
<1>7. PICK b \in Accounts : c.secret = [account |-> b, encrypted |-> FALSE]
  BY <1>5, <1>6 DEF Values
<1>8. b # Unset /\ c.secret.account = b
  BY <1>7, AccountsAssumption
<1> HIDE DEF c
<1>9. c.secret.account = c.hook.account
  BY <1>3, <1>4, <1>5, <1>8 DEF AccountsOf, Secrets
<1>10. WasPlain(m, g, "secret")
  <2> DEFINE x == [merchant |-> m, gateway |-> g, field |-> "secret", account |-> b]
  <2>1. x \in Entries
    BY DEF Entries, Secrets
  <2>2. x \in OldPlaintext
    BY <1>7, <2>1 DEF OldPlaintext, c
  <2> QED
    BY <2>2 DEF WasPlain
<1> QED
  BY <1>9, <1>10 DEF c

\* A connection whose keys are put back is stale, unless they were the same; and its
\* secrets are then all plain or all encrypted.
LEMMA RowWhole ==
    ASSUME IInv, WholeInv, NEW m \in Merchants, NEW E \in SUBSET Entries, AllOrNone(E),
           \A e \in E : e.merchant = m, NEW encrypted \in BOOLEAN, NEW g \in Gateways
    PROVE  LET c == conn[m][g]
               d == Updated(m, E, encrypted)[g]
           IN /\ Bound(m, g, d)
              /\ <<m, g>> \notin stale \cup Overtaken(E) => Whole(g, d)
<1> DEFINE c == conn[m][g]
           d == Updated(m, E, encrypted)[g]
           back == \E e \in E : e.gateway = g
<1>1. /\ d.public = c.public /\ d.mode = c.mode
      /\ \A f \in Secrets :
            IF back /\ WasPlain(m, g, f)
            THEN d[f] = [account |-> Legacy[m][g][f].account, encrypted |-> encrypted]
            ELSE d[f] = c[f]
  BY UpdatedOld DEF IInv
<1>2. Bound(m, g, c) /\ (<<m, g>> \notin stale => Whole(g, c))
  BY DEF WholeInv, AllFit
<1>3. "secret" \in Secrets /\ "extra" \in Secrets /\ "hook" \in Secrets
  BY DEF Secrets
<1>4. ASSUME <<m, g>> \notin Overtaken(E), NEW f \in Secrets
      PROVE  d[f].account = c[f].account
  <2>1. CASE back /\ WasPlain(m, g, f)
    <3>1. PICK e \in OldPlaintext : e.merchant = m /\ e.gateway = g /\ e.field = f
      BY <2>1 DEF WasPlain
    <3>2. e \in E
      BY <2>1, <3>1 DEF AllOrNone
    <3>3. c[f].account = e.account
      BY <1>4, <3>1, <3>2 DEF Overtaken, ValueOf
    <3>4. Legacy[m][g][f] = [account |-> e.account, encrypted |-> FALSE]
      BY <3>1 DEF OldPlaintext
    <3>5. d[f] = [account |-> Legacy[m][g][f].account, encrypted |-> encrypted]
      BY <1>1, <2>1
    <3> HIDE DEF d, c
    <3> QED
      BY <3>3, <3>4, <3>5
  <2>2. CASE ~(back /\ WasPlain(m, g, f))
    <3> HIDE DEF d, c
    <3> QED
      BY <1>1, <2>2
  <2> QED
    BY <2>1, <2>2
<1> HIDE DEF c, d, back
<1>5. Bound(m, g, d)
  <2> SUFFICES ASSUME d.public # Unset, d.hook.account \notin {Unset, d.public}
               PROVE  d.secret.account = d.hook.account /\ WasPlain(m, g, "hook")
    BY <1>1, <1>2 DEF Bound, WasPlain
  <2>1. CASE back /\ WasPlain(m, g, "hook")
    <3>1. WasPlain(m, g, "secret")
          /\ Legacy[m][g].secret.account = Legacy[m][g].hook.account
      BY <2>1, HookWithSecret
    <3>2. /\ d.hook = [account |-> Legacy[m][g].hook.account, encrypted |-> encrypted]
          /\ d.secret = [account |-> Legacy[m][g].secret.account, encrypted |-> encrypted]
      BY <1>1, <1>3, <2>1, <3>1
    <3>3. d.secret.account = d.hook.account
      BY <3>1, <3>2
    <3> QED
      BY <2>1, <3>3
  <2>2. CASE ~(back /\ WasPlain(m, g, "hook"))
    <3>1. d.hook = c.hook
      BY <1>1, <1>3, <2>2
    <3>2. WasPlain(m, g, "hook") /\ c.secret.account = c.hook.account
      BY <1>1, <1>2, <3>1 DEF Bound, WasPlain
    <3>3. ~back
      BY <2>2, <3>2
    <3>4. d.secret = c.secret
      BY <1>1, <1>3, <3>3
    <3> QED
      BY <3>1, <3>2, <3>4
  <2> QED
    BY <2>1, <2>2
<1>6. ASSUME <<m, g>> \notin stale \cup Overtaken(E)
      PROVE  Whole(g, d)
  <2>1. AccountsOf(d) = AccountsOf(c)
    BY <1>1, <1>4, <1>6 DEF AccountsOf
  <2> QED
    BY <1>1, <1>2, <1>6, <2>1 DEF Whole
<1> QED
  BY <1>5, <1>6 DEF d, c

LEMMA RowsWhole ==
    ASSUME IInv, WholeInv, NEW m \in Merchants, NEW E \in SUBSET Entries, AllOrNone(E),
           \A e \in E : e.merchant = m, NEW encrypted \in BOOLEAN,
           conn' = [conn EXCEPT ![m] = Updated(m, E, encrypted)],
           stale' = stale \cup Overtaken(E)
    PROVE  AllFit' /\ AllOrNone(Plaintext')
<1>1. conn \in [Merchants -> [Gateways -> Connection]]
  BY DEF IInv, TypeOK
<1>2. /\ conn'[m] = Updated(m, E, encrypted)
      /\ \A n \in Merchants \ {m} : conn'[n] = conn[n]
  BY <1>1
<1>3. AllFit'
  <2> SUFFICES ASSUME NEW n \in Merchants, NEW g \in Gateways
               PROVE  /\ Bound(n, g, conn'[n][g])
                      /\ <<n, g>> \notin stale' => Whole(g, conn'[n][g])
    BY DEF AllFit
  <2>1. CASE n = m
    BY <1>2, <2>1, RowWhole
  <2>2. CASE n # m
    BY <1>2, <2>2 DEF WholeInv, AllFit
  <2> QED
    BY <2>1, <2>2
<1>4. AllOrNone(Plaintext) /\ Plaintext \subseteq Entries
  BY DEF WholeInv, OldTogether, Plaintext
<1>5. ASSUME NEW e \in Entries
      PROVE  e \in Plaintext' <=>
               IF e.merchant = m /\ (\E x \in E : x.gateway = e.gateway)
                     /\ WasPlain(m, e.gateway, e.field)
               THEN e \in OldPlaintext /\ ~encrypted
               ELSE e \in Plaintext
  <2>1. /\ e.merchant \in Merchants /\ e.gateway \in Gateways /\ e.field \in Secrets
        /\ e.account \in Accounts
    BY DEF Entries
  <2>2. e \in Plaintext' <=>
           conn'[e.merchant][e.gateway][e.field] = [account |-> e.account, encrypted |-> FALSE]
    BY DEF Plaintext, ValueOf
  <2>3. CASE e.merchant # m
    BY <1>2, <2>1, <2>2, <2>3 DEF Plaintext, ValueOf
  <2>4. CASE e.merchant = m
    <3>1. IF (\E x \in E : x.gateway = e.gateway) /\ WasPlain(m, e.gateway, e.field)
          THEN conn'[m][e.gateway][e.field] =
                 [account |-> Legacy[m][e.gateway][e.field].account, encrypted |-> encrypted]
          ELSE conn'[m][e.gateway][e.field] = conn[m][e.gateway][e.field]
      <4>1. TypeOK
        BY DEF IInv
      <4> QED
        BY <1>2, <2>1, <4>1, UpdatedOld
    <3>2. CASE (\E x \in E : x.gateway = e.gateway) /\ WasPlain(m, e.gateway, e.field)
      <4>1. PICK x \in OldPlaintext : x.merchant = m /\ x.gateway = e.gateway /\ x.field = e.field
        BY <3>2 DEF WasPlain
      <4>2. Legacy[m][e.gateway][e.field] = [account |-> x.account, encrypted |-> FALSE]
        BY <4>1 DEF OldPlaintext
      <4>3. Legacy[m][e.gateway][e.field].account = x.account
        BY <4>2
      <4>4. e \in OldPlaintext <=> x.account = e.account
        <5>1. e \in OldPlaintext <=>
                Legacy[m][e.gateway][e.field] = [account |-> e.account, encrypted |-> FALSE]
          BY <2>4 DEF OldPlaintext
        <5>2. [account |-> x.account, encrypted |-> FALSE] =
                  [account |-> e.account, encrypted |-> FALSE]
              <=> x.account = e.account
          OBVIOUS
        <5> QED
          BY <4>2, <5>1, <5>2, Zenon
      <4>5. conn'[m][e.gateway][e.field] = [account |-> x.account, encrypted |-> encrypted]
        BY <3>1, <3>2, <4>3
      <4>6. e \in Plaintext' <=> x.account = e.account /\ encrypted = FALSE
        <5>1. e \in Plaintext' <=>
                [account |-> x.account, encrypted |-> encrypted] =
                    [account |-> e.account, encrypted |-> FALSE]
          BY <2>2, <2>4, <4>5, Zenon
        <5>2. [account |-> x.account, encrypted |-> encrypted] =
                  [account |-> e.account, encrypted |-> FALSE]
              <=> x.account = e.account /\ encrypted = FALSE
          OBVIOUS
        <5> QED
          BY <5>1, <5>2, Zenon
      <4> QED
        BY <2>4, <3>2, <4>4, <4>6
    <3>3. CASE ~((\E x \in E : x.gateway = e.gateway) /\ WasPlain(m, e.gateway, e.field))
      BY <2>2, <2>4, <3>1, <3>3 DEF Plaintext, ValueOf
    <3> QED
      BY <3>2, <3>3
  <2> QED
    BY <2>3, <2>4
<1>6. Plaintext' \subseteq Entries
  BY DEF Plaintext
<1>7. Plaintext' \subseteq OldPlaintext
  BY <1>4, <1>5, <1>6 DEF AllOrNone
<1>8. ASSUME NEW e \in Plaintext', NEW d \in OldPlaintext,
             d.merchant = e.merchant, d.gateway = e.gateway
      PROVE  d \in Plaintext'
  <2>1. d \in Entries /\ e \in Entries /\ e \in OldPlaintext
    BY <1>6, <1>7 DEF OldPlaintext
  <2>2. e.merchant = m => WasPlain(m, e.gateway, e.field) /\ WasPlain(m, d.gateway, d.field)
    BY <1>8, <2>1 DEF WasPlain
  <2>3. CASE e.merchant = m /\ (\E x \in E : x.gateway = e.gateway)
    <3>1. ~encrypted
      BY <1>5, <2>1, <2>2, <2>3
    <3> QED
      BY <1>5, <1>8, <2>1, <2>2, <2>3, <3>1
  <2>4. CASE ~(e.merchant = m /\ (\E x \in E : x.gateway = e.gateway))
    <3>1. e \in Plaintext
      BY <1>5, <2>1, <2>4
    <3>2. d \in Plaintext
      BY <1>4, <1>8, <3>1 DEF AllOrNone
    <3> QED
      BY <1>5, <1>8, <2>1, <2>4, <3>2
  <2> QED
    BY <2>3, <2>4
<1> QED
  BY <1>3, <1>7, <1>8 DEF AllOrNone

LEMMA UpdateMerchantWhole ==
    ASSUME IInv, WholeInv, NEW p \in Procs, NEW m \in Merchants, UpdateMerchant(p, m)
    PROVE  WholeInv'
<1> DEFINE E == Of(m, loc[p].entries)
           local == [loc[p] EXCEPT !.entries = @ \ E]
<1>1. loc[p] \in Locals /\ loc[p].entries \in SUBSET Entries /\ AllOrNone(loc[p].entries)
  BY DEF IInv, TypeOK, Locals, WholeInv, OldTogether
<1>2. E \in SUBSET Entries /\ (\A e \in E : e.merchant = m)
  BY <1>1 DEF Of
<1>3. AllOrNone(E) /\ AllOrNone(loc[p].entries \ E)
  BY <1>1, Parted
<1>4. local \in Locals /\ local.entries = loc[p].entries \ E
  BY <1>1 DEF Locals
<1>5. /\ conn' = [conn EXCEPT ![m] = Updated(m, E, TRUE)] /\ stale' = stale \cup Overtaken(E)
      /\ Goto(p, "update", local) /\ backup' = backup
  BY DEF UpdateMerchant
<1>6. "update" \in Steps /\ "update" \notin {"register", "write"} /\ TRUE \in BOOLEAN
  BY DEF Steps
<1> HIDE DEF E, local
<1>7. AllFit' /\ AllOrNone(Plaintext')
  BY <1>2, <1>3, <1>5, <1>6, RowsWhole
<1>8. Coherent' /\ \A q \in Procs : AllOrNone(loc'[q].entries)
  BY <1>3, <1>4, <1>5, <1>6, MovedWhole
<1>9. OldTogether'
  BY <1>5, <1>7, <1>8 DEF WholeInv, OldTogether
<1> QED
  BY <1>7, <1>8, <1>9 DEF WholeInv

LEMMA RestoreMerchantWhole ==
    ASSUME IInv, WholeInv, NEW p \in Procs, NEW m \in Merchants, RestoreMerchant(p, m)
    PROVE  WholeInv'
<1> DEFINE E == Of(m, loc[p].entries)
           done == E = loc[p].entries
           step == IF done THEN "idle" ELSE "restore"
           local == IF done THEN Idle ELSE [loc[p] EXCEPT !.entries = @ \ E]
<1>1. loc[p] \in Locals /\ loc[p].entries \in SUBSET Entries /\ AllOrNone(loc[p].entries)
  BY DEF IInv, TypeOK, Locals, WholeInv, OldTogether
<1>2. E \in SUBSET Entries /\ (\A e \in E : e.merchant = m)
  BY <1>1 DEF Of
<1>3. AllOrNone(E) /\ AllOrNone(loc[p].entries \ E)
  BY <1>1, Parted
<1>4. local \in Locals /\ local.entries \in {Idle.entries, loc[p].entries \ E}
  BY <1>1, IdleType DEF Locals
<1>5. /\ conn' = [conn EXCEPT ![m] = Updated(m, E, FALSE)] /\ stale' = stale \cup Overtaken(E)
      /\ Goto(p, step, local) /\ backup' = backup
  BY DEF RestoreMerchant, Leave
<1>6. step \in Steps /\ step \notin {"register", "write"} /\ FALSE \in BOOLEAN
  BY DEF Steps
<1> HIDE DEF E, done, step, local
<1>7. AllFit' /\ AllOrNone(Plaintext')
  BY <1>2, <1>3, <1>5, <1>6, RowsWhole
<1>8. Coherent' /\ \A q \in Procs : AllOrNone(loc'[q].entries)
  BY <1>3, <1>4, <1>5, <1>6, NoneOrAll, MovedWhole
<1>9. OldTogether'
  BY <1>5, <1>7, <1>8 DEF WholeInv, OldTogether
<1> QED
  BY <1>7, <1>8, <1>9 DEF WholeInv

-----------------------------------------------------------------------------
(* The keys of a connection: the theorems *)

LEMMA WholeNext == IInv /\ WholeInv /\ [Next]_vars => WholeInv'
<1> SUFFICES ASSUME IInv, WholeInv, [Next]_vars PROVE WholeInv'
  OBVIOUS
<1>1. CASE UNCHANGED vars
  <2>1. Plaintext' = Plaintext
    BY <1>1 DEF Plaintext, ValueOf, vars
  <2>2. UNCHANGED <<conn, backup, stale, pc, loc>>
    BY <1>1 DEF vars, ghosts
  <2> QED
    BY <2>1, <2>2 DEF WholeInv, OldTogether, Coherent, AllFit
<1>2. ASSUME NEW p \in Procs, Request(p) PROVE WholeInv'
  BY <1>2, ConfigureWhole, RegisterWhole, WriteWhole DEF Request
<1>3. ASSUME NEW p \in Procs, Verify(p) \/ Stop(p) PROVE WholeInv'
  <2>1. Leave(p) /\ UNCHANGED <<conn, stale, backup>>
    BY <1>3 DEF Verify, Stop, ghosts
  <2> QED
    BY <2>1, LeaveWhole
<1>4. ASSUME NEW p \in Procs, Script(p) PROVE WholeInv'
  BY <1>3, <1>4, ReadWhole, WriteBackupFileWhole, UpdateMerchantWhole, EndUpdateWhole,
     RestoreMerchantWhole DEF Script
<1> QED
  BY <1>1, <1>2, <1>3, <1>4 DEF Next

LEMMA WholeInvariant == Spec => []WholeInv
<1> QED
  BY WholeInit, WholeNext, Invariant, PTL DEF Spec

\* However configurations, runs and rollbacks overlap or break off, a connection's keys
\* and webhook are of one account unless the script put back what it had read before.
THEOREM OneAccount == Spec => []ConnectionWhole
<1>1. WholeInv => ConnectionWhole
  <2> SUFFICES ASSUME WholeInv, NEW m \in Merchants, NEW g \in Gateways, <<m, g>> \notin stale
               PROVE  ~(Cardinality(AccountsOf(conn[m][g])) > 1)
    BY DEF ConnectionWhole
  <2> DEFINE A == AccountsOf(conn[m][g])
  <2>1. \A a, b \in A : a = b
    BY DEF WholeInv, AllFit, Whole
  <2> HIDE DEF A
  <2>2. CASE A = {}
    BY <2>2, FS_EmptySet DEF A
  <2>3. CASE A # {}
    <3>1. PICK a \in A : TRUE
      BY <2>3
    <3>2. A = {a}
      BY <2>1, <3>1
    <3>3. Cardinality(A) = 1
      BY <3>2, FS_Singleton
    <3> QED
      BY <3>3 DEF A
  <2> QED
    BY <2>2, <2>3
<1> QED
  BY <1>1, WholeInvariant, PTL

\* And a gateway that is shown connected is ready, as far as configuration goes, unless
\* the script put older secrets into it, or into Yoco's, which every read detects.
THEOREM ConnectedReady == Spec => []ConnectedIsReady
<1>1. WholeInv => ConnectedIsReady
  <2> SUFFICES ASSUME WholeInv, NEW m \in Merchants, NEW g \in Gateways, Connected(m, g),
                      {<<m, g>>, <<m, "YOCO">>} \cap stale = {}
               PROVE  Ready(m, g)
    BY DEF ConnectedIsReady
  <2>1. Whole(g, conn[m][g]) /\ ("YOCO" \in Gateways => Whole("YOCO", conn[m]["YOCO"]))
    BY DEF WholeInv, AllFit
  <2>2. Readable(m)
    <3> SUFFICES ASSUME "YOCO" \in Gateways PROVE Readable(m)
      BY DEF Readable
    <3> DEFINE c == conn[m]["YOCO"]
    <3>1. \A a, b \in AccountsOf(c) : a = b
      BY <2>1 DEF Whole
    <3>2. \A a \in {c.public, c.secret.account} : a = Unset \/ a \in AccountsOf(c)
      BY DEF AccountsOf, Secrets
    <3> HIDE DEF c
    <3>3. \/ c.public = Unset \/ c.secret.account = Unset
          \/ c.public = c.secret.account
      BY <3>1, <3>2
    <3>4. Modeof(Unset) = Unset
      BY DEF Modeof
    <3>5. \/ Unset \in {Modeof(c.public), Modeof(c.secret.account)}
          \/ Modeof(c.public) = Modeof(c.secret.account)
      BY <3>3, <3>4
    <3> QED
      BY <3>5 DEF Readable, c
  <2>3. conn[m][g].secret # NoSecret /\ (g # "PAYSTACK" => conn[m][g].public # Unset)
    BY DEF Connected
  <2>4. HasModedKeys(g) =>
          \A a \in {conn[m][g].public, conn[m][g].secret.account} \ {Unset} :
              conn[m][g].mode = Unset \/ Consistent(a, conn[m][g].mode)
    <3> DEFINE c == conn[m][g]
    <3>1. \A a \in {c.public, c.secret.account} \ {Unset} : a \in AccountsOf(c)
      BY DEF AccountsOf, Secrets
    <3>2. HasModedKeys(g) =>
            \A a \in AccountsOf(c) : c.mode = Unset \/ Consistent(a, c.mode)
      BY <2>1 DEF Whole
    <3> HIDE DEF c
    <3>3. HasModedKeys(g) =>
            \A a \in {c.public, c.secret.account} \ {Unset} :
                c.mode = Unset \/ Consistent(a, c.mode)
      BY <3>1, <3>2
    <3> QED
      BY <3>3 DEF c
  <2> QED
    BY <2>2, <2>3, <2>4 DEF Ready
<1> QED
  BY <1>1, WholeInvariant, PTL
=============================================================================
