----------------------------- MODULE Connections -----------------------------
(***************************************************************************)
(* The merchants' gateway connections: how a merchant's credentials are    *)
(* configured, with Yoco's webhook, what they make ready for payments, and *)
(* the script that encrypts the secrets of old rows, with its backup file, *)
(* its verification and its rollback.                                      *)
(*                                                                         *)
(* A request reads the merchant's row, may ask Yoco, and writes its        *)
(* gateway's columns at once.  The script reads all rows, and then writes  *)
(* back, encrypted, what it read, a merchant at a time.                    *)
(***************************************************************************)
EXTENDS Integers, FiniteSets

CONSTANTS Procs,      \* requests and runs of the script at the same time
          Merchants,
          Gateways,   \* of PAYFAST, OZOW, YOCO and PAYSTACK
          Accounts,   \* accounts at a gateway: a credential is known by its account
          KeyMode,    \* KeyMode[a]: the mode a's keys are prefixed with, Unset if none
          Legacy,     \* Legacy[m][g]: what is configured at first
          MaxConfigurations, MaxRuns  \* bounds

VARIABLES conn,     \* conn[m][g]: the columns of gateway g in m's row
          backup,   \* the backup file: the plaintext secrets it holds
          configurations, runs,  \* requests and runs of the script so far
          pc, loc,  \* where each of Procs stands and what it holds
          stale,    \* ghost: the connections the script has put older secrets into
          migrated, \* ghost: the secrets the script has encrypted
          dropped,  \* ghost: the secrets a later backup file did not hold any more
          clean     \* ghost: a verification has found no plaintext, nothing was rolled back

ghosts == <<stale, migrated, dropped, clean>>
vars == <<conn, backup, configurations, runs, pc, loc, ghosts>>

-----------------------------------------------------------------------------

Unset == "unset"
Modes == {"test", "live"}
Secrets == {"secret", "extra", "hook"}

NoSecret == [account |-> Unset, encrypted |-> FALSE]
Values == {NoSecret} \cup [account : Accounts, encrypted : BOOLEAN]

\* public: the key or code kept as it is; secret; extra: PayFast's passphrase or Ozow's
\* API key; hook: the secret of Yoco's webhook.
Connection == [public : Accounts \cup {Unset}, mode : Modes \cup {Unset},
               secret : Values, extra : Values, hook : Values]
NoConnection == [public |-> Unset, mode |-> Unset,
                 secret |-> NoSecret, extra |-> NoSecret, hook |-> NoSecret]

ASSUME GatewaysAssumption == Gateways \subseteq {"PAYFAST", "OZOW", "YOCO", "PAYSTACK"}
ASSUME AccountsAssumption ==
    /\ Unset \notin Accounts
    /\ KeyMode \in [Accounts -> Modes \cup {Unset}]
ASSUME LegacyAssumption == Legacy \in [Merchants -> [Gateways -> Connection]]
ASSUME BoundsAssumption == MaxConfigurations \in Nat /\ MaxRuns \in Nat

\* A secret as a backup entry names it.
Entries == [merchant : Merchants, gateway : Gateways, field : Secrets, account : Accounts]

Steps == {"idle", "register", "write", "backup", "update", "check", "restore"}

\* merchant, gateway, account, mode, extra, hook: of a configuration; entries: what a run
\* has read and still has to write.
Idle == [merchant |-> Unset, gateway |-> Unset, account |-> Unset, mode |-> Unset,
         extra |-> FALSE, hook |-> NoSecret, entries |-> {}]

At(p, step) == pc[p] = step

Goto(p, step, local) ==
    /\ pc' = [pc EXCEPT ![p] = step]
    /\ loc' = [loc EXCEPT ![p] = local]

Leave(p) == Goto(p, "idle", Idle)

\* encryptStoredSecret and decryptStoredSecret: a secret is its account, plain or not.
Encrypted(account) == [account |-> account, encrypted |-> TRUE]

-----------------------------------------------------------------------------
(* Configuration *)

HasModedKeys(g) == g \in {"YOCO", "PAYSTACK"}

\* The keys show no mode, or this one.
Consistent(account, mode) == KeyMode[account] \in {Unset, mode}

\* Mutant: the mode is taken as it is given.
TakesAnyMode(g, account, mode) == HasModedKeys(g) => mode # Unset

\* assertYocoConfigConsistency, assertPaystackConfigConsistency, before anything is asked
\* or written.
ModeAccepted(g, account, mode) == HasModedKeys(g) => mode # Unset /\ Consistent(account, mode)

\* The mode that is stored: as given; else, of Yoco and Paystack, as the keys show or as
\* it was; PayFast's is then the sandbox and Ozow's as it was.
SelectedMode(g, given, account, stored) ==
    CASE given # Unset -> given
      [] given = Unset /\ g = "PAYFAST" -> "test"
      [] given = Unset /\ HasModedKeys(g) /\ KeyMode[account] # Unset -> KeyMode[account]
      [] OTHER -> stored

\* Mutant: any webhook there is will do.
ReusesAnyWebhook(c, account, mode) == c.hook # NoSecret

\* hasReusableWebhook: there is one, and the credentials are those it was registered with.
ReusableWebhook(c, account, mode) ==
    /\ c.hook # NoSecret
    /\ c.public = account /\ c.secret.account = account /\ c.mode = mode

\* configure...Gateway: the row is read, the mode selected and checked; Yoco's webhook is
\* registered unless the old one serves.
Configure(p, m, g, account, given, extra) ==
    LET c == conn[m][g]
        mode == SelectedMode(g, given, account, c.mode)
        reusable == g = "YOCO" /\ ReusableWebhook(c, account, mode)
    IN /\ At(p, "idle")
       /\ configurations < MaxConfigurations
       /\ configurations' = configurations + 1
       /\ ModeAccepted(g, account, mode)
       /\ extra => g \in {"PAYFAST", "OZOW"}
       /\ Goto(p, IF g = "YOCO" /\ ~reusable THEN "register" ELSE "write",
               [Idle EXCEPT !.merchant = m, !.gateway = g, !.account = account,
                            !.mode = IF g = "OZOW" THEN given ELSE mode, !.extra = extra,
                            !.hook = IF reusable THEN c.hook ELSE NoSecret])
       /\ UNCHANGED <<conn, backup, runs, ghosts>>

\* registerYocoWebhook, with the keys that are being configured.
RegisterYocoWebhook(p) ==
    /\ At(p, "register")
    /\ Goto(p, "write", [loc[p] EXCEPT !.hook = Encrypted(loc[p].account)])
    /\ UNCHANGED <<conn, backup, configurations, runs, ghosts>>

\* All columns of the gateway in one update; of Ozow's the mode only if it was given.
Configured(c, local) ==
    [public |-> IF local.gateway = "PAYSTACK" THEN c.public ELSE local.account,
     mode |-> IF local.mode = Unset THEN c.mode ELSE local.mode,
     secret |-> Encrypted(local.account),
     extra |-> IF local.extra THEN Encrypted(local.account) ELSE NoSecret,
     hook |-> [local.hook EXCEPT !.encrypted = local.hook # NoSecret]]

\* Mutant: Yoco's webhook secret is stored as it came.
StoresHookAsRead(p) ==
    LET m == loc[p].merchant
        g == loc[p].gateway
    IN /\ At(p, "write")
       /\ conn' = [conn EXCEPT ![m][g] =
                      [Configured(@, loc[p]) EXCEPT !.hook.encrypted = FALSE]]
       /\ stale' = stale \ {<<m, g>>}
       /\ Leave(p)
       /\ UNCHANGED <<backup, configurations, runs, migrated, dropped, clean>>

WriteConnection(p) ==
    LET m == loc[p].merchant
        g == loc[p].gateway
    IN /\ At(p, "write")
       /\ conn' = [conn EXCEPT ![m][g] = Configured(@, loc[p])]
       /\ stale' = stale \ {<<m, g>>}
       /\ Leave(p)
       /\ UNCHANGED <<backup, configurations, runs, migrated, dropped, clean>>

-----------------------------------------------------------------------------
(* merchant-secrets:migrate *)

ValueOf(entry) == conn[entry.merchant][entry.gateway][entry.field]

\* getPlaintextMerchantSecretFields, of all rows.
Plaintext ==
    {e \in Entries : ValueOf(e) = [account |-> e.account, encrypted |-> FALSE]}

\* --apply, --verify and the dry run begin with reading all rows.  The dry run ends here.
LoadMerchantSecrets(p) ==
    /\ At(p, "idle")
    /\ runs < MaxRuns
    /\ runs' = runs + 1
    /\ Goto(p, "backup", [Idle EXCEPT !.entries = Plaintext])
    /\ UNCHANGED <<conn, backup, configurations, ghosts>>

\* --verify, and the last step of --apply: is there plaintext left?
Verify(p) ==
    /\ At(p, "idle") \/ At(p, "check")
    /\ clean' = (clean \/ (Plaintext = {}))
    /\ Leave(p)
    /\ UNCHANGED <<conn, backup, configurations, runs, stale, migrated, dropped>>

\* The backup file is written over with what this run has read.
WriteBackupFile(p) ==
    /\ At(p, "backup")
    /\ backup' = loc[p].entries
    /\ dropped' = dropped \cup (backup \ loc[p].entries)
    /\ Goto(p, "update", loc[p])
    /\ UNCHANGED <<conn, configurations, runs, stale, migrated, clean>>

Of(m, entries) == {e \in entries : e.merchant = m}

\* A secret of a merchant: as one of the entries has it, or as it is.
Rewritten(m, g, f, entries, encrypted) ==
    LET own == {e \in entries : e.gateway = g /\ e.field = f}
    IN IF own = {} THEN conn[m][g][f]
       ELSE [account |-> (CHOOSE e \in own : TRUE).account, encrypted |-> encrypted]

\* The row of one merchant with these entries' fields as they were read.
Updated(m, entries, encrypted) ==
    [g \in Gateways |->
        [conn[m][g] EXCEPT !.secret = Rewritten(m, g, "secret", entries, encrypted),
                           !.extra = Rewritten(m, g, "extra", entries, encrypted),
                           !.hook = Rewritten(m, g, "hook", entries, encrypted)]]

\* The connections that were configured anew since the entries were read.
Overtaken(entries) ==
    {<<e.merchant, e.gateway>> : e \in {d \in entries : ValueOf(d).account # d.account}}

\* Each merchant's secrets are written back encrypted, as they were read ...
UpdateMerchant(p, m) ==
    LET entries == Of(m, loc[p].entries) IN
    /\ At(p, "update")
    /\ entries # {}
    /\ conn' = [conn EXCEPT ![m] = Updated(m, entries, TRUE)]
    /\ stale' = stale \cup Overtaken(entries)
    /\ migrated' = migrated \cup entries
    /\ Goto(p, "update", [loc[p] EXCEPT !.entries = @ \ entries])
    /\ UNCHANGED <<backup, configurations, runs, dropped, clean>>

\* ... and at the end it is verified that there are no others.
EndUpdate(p) ==
    /\ At(p, "update")
    /\ loc[p].entries = {}
    /\ Goto(p, "check", Idle)
    /\ UNCHANGED <<conn, backup, configurations, runs, ghosts>>

\* --rollback-file reads the backup ...
ReadBackupFile(p) ==
    /\ At(p, "idle")
    /\ runs < MaxRuns
    /\ runs' = runs + 1
    /\ backup # {}
    /\ Goto(p, "restore", [Idle EXCEPT !.entries = backup])
    /\ UNCHANGED <<conn, backup, configurations, ghosts>>

\* ... and restores each merchant's secrets as they were.
RestoreMerchant(p, m) ==
    LET entries == Of(m, loc[p].entries) IN
    /\ At(p, "restore")
    /\ entries # {}
    /\ conn' = [conn EXCEPT ![m] = Updated(m, entries, FALSE)]
    /\ stale' = stale \cup Overtaken(entries)
    /\ clean' = FALSE
    /\ IF entries = loc[p].entries
       THEN Leave(p)
       ELSE Goto(p, "restore", [loc[p] EXCEPT !.entries = @ \ entries])
    /\ UNCHANGED <<backup, configurations, runs, migrated, dropped>>

\* A crash, a database or a gateway that fails.
Stop(p) ==
    /\ ~At(p, "idle")
    /\ Leave(p)
    /\ UNCHANGED <<conn, backup, configurations, runs, ghosts>>

-----------------------------------------------------------------------------
(* What a payment can use *)

Modeof(account) == IF account = Unset THEN Unset ELSE KeyMode[account]

\* detectYocoModeFromKeys throws on keys of two modes, and with it every payment's read of
\* the merchant's row (getMerchantGatewayConfig), whatever its gateway.
Readable(m) ==
    "YOCO" \in Gateways =>
        LET c == conn[m]["YOCO"] IN
        \/ Unset \in {Modeof(c.public), Modeof(c.secret.account)}
        \/ Modeof(c.public) = Modeof(c.secret.account)

\* getGatewayReadiness and legacyGatewayReadiness, for a payment the gateway supports.
Ready(m, g) ==
    LET c == conn[m][g] IN
    /\ Readable(m)
    /\ c.secret # NoSecret
    /\ g # "PAYSTACK" => c.public # Unset
    /\ HasModedKeys(g) =>
          \A account \in {c.public, c.secret.account} \ {Unset} :
              c.mode = Unset \/ Consistent(account, c.mode)

\* serialize...GatewayConnection: "connected", as the dashboard shows it.
Connected(m, g) ==
    LET c == conn[m][g] IN
    /\ g # "PAYFAST"
    /\ c.secret # NoSecret
    /\ g # "PAYSTACK" => c.public # Unset
    /\ g = "OZOW" => c.extra # NoSecret

-----------------------------------------------------------------------------

AccountsOf(c) == ({c.public} \cup {c[f].account : f \in Secrets}) \ {Unset}

\* What is configured at first is what one request wrote at once: the credentials of one
\* account, of the stored mode; of Yoco the key and the webhook's secret both before or
\* both after secrets were encrypted; of Paystack no public key, which has no column.
ASSUME LegacyWholeAssumption ==
    \A m \in Merchants, g \in Gateways :
        LET c == Legacy[m][g] IN
        /\ \A a, b \in AccountsOf(c) : a = b
        /\ HasModedKeys(g) => \A a \in AccountsOf(c) : c.mode = Unset \/ Consistent(a, c.mode)
        /\ c.hook # NoSecret => c.secret # NoSecret /\ c.secret.encrypted = c.hook.encrypted
        /\ g = "PAYSTACK" => c.public = Unset

Init ==
    /\ conn = Legacy
    /\ backup = {} /\ configurations = 0 /\ runs = 0
    /\ pc = [p \in Procs |-> "idle"] /\ loc = [p \in Procs |-> Idle]
    /\ stale = {} /\ migrated = {} /\ dropped = {} /\ clean = FALSE

Request(p) ==
    \/ \E m \in Merchants, g \in Gateways, a \in Accounts, given \in Modes \cup {Unset},
          extra \in BOOLEAN : Configure(p, m, g, a, given, extra)
    \/ RegisterYocoWebhook(p)
    \/ WriteConnection(p)

Script(p) ==
    \/ LoadMerchantSecrets(p)
    \/ Verify(p)
    \/ WriteBackupFile(p)
    \/ \E m \in Merchants : UpdateMerchant(p, m)
    \/ EndUpdate(p)
    \/ ReadBackupFile(p)
    \/ \E m \in Merchants : RestoreMerchant(p, m)

Next == \E p \in Procs : Request(p) \/ Script(p) \/ Stop(p)

Spec == Init /\ [][Next]_vars

-----------------------------------------------------------------------------
(* Properties *)

Locals == [merchant : Merchants \cup {Unset}, gateway : Gateways \cup {Unset},
           account : Accounts \cup {Unset}, mode : Modes \cup {Unset}, extra : BOOLEAN,
           hook : Values, entries : SUBSET Entries]

\* The type invariant.
TypeOK ==
    /\ conn \in [Merchants -> [Gateways -> Connection]]
    /\ backup \subseteq Entries
    /\ configurations \in 0..MaxConfigurations /\ runs \in 0..MaxRuns
    /\ pc \in [Procs -> Steps] /\ loc \in [Procs -> Locals]
    /\ stale \subseteq Merchants \X Gateways
    /\ migrated \subseteq Entries /\ dropped \subseteq Entries
    /\ clean \in BOOLEAN

\* The keys of a connection and Yoco's webhook are those of one account, whatever
\* configurations overlap or break off, unless the script put back what it had read before.
ConnectionWhole ==
    \A m \in Merchants, g \in Gateways :
        Cardinality(AccountsOf(conn[m][g])) > 1 => <<m, g>> \in stale

\* A gateway the dashboard calls connected is ready for payments, and the keys of one do
\* not keep payments from another, unless the script put an older secret into a connection.
ConnectedIsReady ==
    \A m \in Merchants, g \in Gateways :
        Connected(m, g) /\ ~Ready(m, g) => {<<m, g>>, <<m, "YOCO">>} \cap stale # {}

\* Once a verification found no plaintext there is none until a rollback, whoever
\* configures; and what the script has encrypted can be rolled back from the file, unless
\* a later run wrote over it.
MigrationKeepsItsWord ==
    /\ clean => Plaintext = {}
    /\ migrated \subseteq backup \cup dropped
=============================================================================
