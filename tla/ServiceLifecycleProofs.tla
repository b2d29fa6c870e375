------------------------ MODULE ServiceLifecycleProofs ------------------------
(***************************************************************************)
(* Upgrades lose nothing and end on the present schema, for any tables and *)
(* any number of interruptions; and so they do within ServiceLifecycle,    *)
(* for any configuration, where services that start serve as configured,   *)
(* and what a process has begun comes nearer to its end with every step.   *)
(***************************************************************************)
EXTENDS ServiceLifecycle, FiniteSetTheorems, TLAPS

(* The statements between BEGIN and COMMIT of the rebuild.                 *)
Rebuilding == {"create_new", "copy", "drop", "rename", "commit_bids"}

Steps == Rebuilding \cup {"stopped", "foreign_keys_off", "begin", "foreign_keys_on",
                          "create", "create_clicks", "alter", "backfill", "commit", "up"}

(* What is known of the earlier version's database.                        *)
LegacyOK ==
    /\ legacy \in Databases /\ legacy.copy = {}
    /\ legacy.bids = "none" => legacy.rows = {}
    /\ legacy.clicks = "none" => DOMAIN legacy.charged = {}
    /\ legacy.clicks = "new" => \A c \in DOMAIN legacy.charged : legacy.charged[c] = Quote[c]

(* Transactions and references where the rebuild and the backfill have     *)
(* them.                                                                   *)
ConnectionOK ==
    /\ pc \in Steps
    /\ txn => pc \in Rebuilding \cup {"commit"}
    /\ pc \in Rebuilding => txn
    /\ ~txn => db = disk
    /\ pc \in Rebuilding \cup {"begin", "foreign_keys_on"} => ~fk
    /\ pc \in {"create", "create_clicks", "alter", "backfill", "commit", "up"} => fk

(* The rows are in bids, or in its copy between DROP and RENAME.           *)
RowsKept ==
    /\ disk.rows = legacy.rows /\ disk.copy = {}
    /\ disk.bids = "none" => legacy.bids = "none"
    /\ DOMAIN disk.charged = DOMAIN legacy.charged
    /\ DOMAIN db.charged = DOMAIN legacy.charged
    /\ pc \notin {"rename"} => db.rows = legacy.rows
    /\ pc \in {"drop", "rename"} => db.copy = {legacy.rows}
    /\ pc \notin {"copy", "drop", "rename"} => db.copy = {}
    /\ pc # "rename" /\ db.bids = "none" => legacy.bids = "none"

(* What the statements behind the present one have achieved.               *)
Achieved ==
    /\ pc \in {"commit_bids", "foreign_keys_on"} => db.bids = "new"
    /\ pc = "create" => db.bids # "old"
    /\ pc \in {"create_clicks", "alter", "backfill", "commit", "up"} => db.bids = "new"
    /\ pc = "alter" => db.clicks # "none"
    /\ pc \in {"backfill", "commit", "up"} => db.clicks = "new"

(* Without an interruption, clicks with the column charged are priced as   *)
(* soon as the backfill is over.                                           *)
Priced == crashes = 0 =>
    /\ db.clicks = "none" => DOMAIN db.charged = {}
    /\ db.clicks = "new" /\ pc # "backfill" => \A c \in DOMAIN db.charged : db.charged[c] = Quote[c]

Inv == TypeOK /\ LegacyOK /\ ConnectionOK /\ RowsKept /\ Achieved /\ Priced

LEMMA BackfilledOK ==
    ASSUME NEW f \in Charges
    PROVE  [c \in DOMAIN f |-> Quote[c]] \in Charges
<1>1. PICK K \in SUBSET Clicks : f \in [K -> {0} \cup Range(Quote)]
  BY DEF Charges
<1>2. \A c \in K : Quote[c] \in Range(Quote)
  BY RowsAssumption DEF Range
<1>3. [c \in DOMAIN f |-> Quote[c]] \in [K -> {0} \cup Range(Quote)]
  BY <1>1, <1>2
<1> QED BY <1>3 DEF Charges

LEMMA InitInv == Init => Inv
<1> SUFFICES ASSUME Init PROVE Inv
  OBVIOUS
<1>1. LegacyOK
  BY DEF Init, LegacyOK, Deployments
<1>2. TypeOK
  <2>1. disk \in Databases /\ db \in Databases /\ disk.copy = {}
    BY <1>1 DEF Init, LegacyOK
  <2>2. crashes \in 0..MaxCrashes
    BY CrashesAssumption DEF Init
  <2>3. txn \in BOOLEAN /\ fk \in BOOLEAN /\ (~txn => db = disk)
    BY DEF Init
  <2> QED BY <2>1, <2>2, <2>3 DEF TypeOK
<1>3. ConnectionOK
  BY DEF Init, ConnectionOK, Rebuilding, Steps
<1>4. RowsKept /\ Achieved
  BY <1>1 DEF Init, RowsKept, Achieved, LegacyOK
<1>5. Priced
  BY <1>1 DEF Init, Priced, LegacyOK
<1> QED BY <1>1, <1>2, <1>3, <1>4, <1>5 DEF Inv
-----------------------------------------------------------------------------
(* The steps of the rebuild.                                               *)
LEMMA OpenInv == Inv /\ Open => Inv'
BY DEF Open, Goto, Inv, TypeOK, LegacyOK, ConnectionOK, RowsKept, Achieved, Priced, Rebuilding, Steps

LEMMA SwitchInv == Inv /\ (ForeignKeysOff \/ Begin \/ ForeignKeysOn) => Inv'
<1> SUFFICES ASSUME Inv, (ForeignKeysOff \/ Begin \/ ForeignKeysOn) PROVE Inv'
  OBVIOUS
<1> USE DEF ForeignKeysOff, Begin, ForeignKeysOn, Goto, Inv
<1>1. TypeOK'
  BY DEF TypeOK, ConnectionOK, RowsKept, Databases, Rebuilding
<1>2. LegacyOK'
  BY DEF LegacyOK
<1>3. ConnectionOK'
  BY DEF TypeOK, ConnectionOK, Rebuilding, Steps
<1>4. RowsKept'
  BY DEF TypeOK, LegacyOK, ConnectionOK, RowsKept, Databases, Rebuilding
<1>5. Achieved' /\ Priced'
  BY DEF TypeOK, ConnectionOK, RowsKept, Achieved, Priced, Databases, Rebuilding
<1> QED BY <1>1, <1>2, <1>3, <1>4, <1>5

LEMMA CreateNewInv == Inv /\ CreateNew => Inv'
<1> SUFFICES ASSUME Inv, CreateNew PROVE Inv'
  OBVIOUS
<1> USE DEF CreateNew, Run, Goto, Inv
<1>1. TypeOK'
  BY DEF TypeOK, ConnectionOK, RowsKept, Databases, Rebuilding
<1>2. LegacyOK'
  BY DEF LegacyOK
<1>3. ConnectionOK'
  BY DEF TypeOK, ConnectionOK, Rebuilding, Steps
<1>4. RowsKept'
  BY DEF TypeOK, LegacyOK, ConnectionOK, RowsKept, Databases, Rebuilding
<1>5. Achieved' /\ Priced'
  BY DEF TypeOK, ConnectionOK, RowsKept, Achieved, Priced, Databases, Rebuilding
<1> QED BY <1>1, <1>2, <1>3, <1>4, <1>5

LEMMA CopyInv == Inv /\ Copy => Inv'
BY DEF Copy, Run, Goto, Inv, TypeOK, LegacyOK, ConnectionOK, RowsKept, Achieved, Priced,
       Rebuilding, Steps, Databases

LEMMA DropInv == Inv /\ Drop => Inv'
<1> SUFFICES ASSUME Inv, Drop PROVE Inv'
  OBVIOUS
<1> USE DEF Drop, Run, Goto, Inv
<1>1. TypeOK'
  BY DEF TypeOK, ConnectionOK, RowsKept, Databases, Rebuilding
<1>2. LegacyOK'
  BY DEF LegacyOK
<1>3. ConnectionOK'
  BY DEF TypeOK, ConnectionOK, Rebuilding, Steps
<1>4. RowsKept'
  BY DEF TypeOK, LegacyOK, ConnectionOK, RowsKept, Databases, Rebuilding
<1>5. Achieved' /\ Priced'
  BY DEF TypeOK, ConnectionOK, RowsKept, Achieved, Priced, Databases, Rebuilding
<1> QED BY <1>1, <1>2, <1>3, <1>4, <1>5

LEMMA RenameInv == Inv /\ Rename => Inv'
<1> SUFFICES ASSUME Inv, Rename PROVE Inv'
  OBVIOUS
<1> USE DEF Rename, Run, Goto, Inv
<1>1. TypeOK'
  <2>1. UNION db.copy = legacy.rows /\ legacy.rows \in SUBSET Bids
    BY DEF RowsKept, LegacyOK, Databases
  <2>2. db' \in Databases
    BY <2>1 DEF TypeOK, Databases
  <2>3. txn /\ disk' = disk
    BY DEF ConnectionOK, Rebuilding
  <2> QED BY <2>2, <2>3 DEF TypeOK
<1>2. LegacyOK'
  BY DEF LegacyOK
<1>3. ConnectionOK'
  BY DEF TypeOK, ConnectionOK, Rebuilding, Steps
<1>4. RowsKept'
  BY DEF TypeOK, LegacyOK, ConnectionOK, RowsKept, Databases, Rebuilding
<1>5. Achieved' /\ Priced'
  BY DEF TypeOK, ConnectionOK, RowsKept, Achieved, Priced, Databases, Rebuilding
<1> QED BY <1>1, <1>2, <1>3, <1>4, <1>5

LEMMA CommitBidsInv == Inv /\ CommitBids => Inv'
<1> SUFFICES ASSUME Inv, CommitBids PROVE Inv'
  OBVIOUS
<1> USE DEF CommitBids, End, Goto, Inv
<1>1. TypeOK'
  BY DEF TypeOK, ConnectionOK, RowsKept, Databases, Rebuilding
<1>2. LegacyOK'
  BY DEF LegacyOK
<1>3. ConnectionOK'
  BY DEF TypeOK, ConnectionOK, Rebuilding, Steps
<1>4. RowsKept'
  BY DEF TypeOK, LegacyOK, ConnectionOK, RowsKept, Databases, Rebuilding
<1>5. Achieved' /\ Priced'
  BY DEF TypeOK, ConnectionOK, RowsKept, Achieved, Priced, Databases, Rebuilding
<1> QED BY <1>1, <1>2, <1>3, <1>4, <1>5

(* The interruptions: what is on disk is what there was.                   *)
LEMMA CutOffInv == Inv /\ (Rollback \/ Crash \/ Close) => Inv'
<1> SUFFICES ASSUME Inv, (Rollback \/ Crash \/ Close) PROVE Inv'
  OBVIOUS
<1> USE DEF Rollback, Crash, Close, Goto, End, Inv
<1>1. TypeOK'
  <2>1. crashes' \in 0..MaxCrashes
    BY CrashesAssumption DEF TypeOK
  <2>2. disk' = disk /\ db' = disk /\ txn' = FALSE /\ fk' \in BOOLEAN
    BY DEF TypeOK
  <2> QED BY <2>1, <2>2 DEF TypeOK
<1>2. LegacyOK'
  BY DEF LegacyOK
<1>3. ConnectionOK'
  BY DEF TypeOK, ConnectionOK, Rebuilding, Steps
<1>4. RowsKept'
  BY DEF TypeOK, LegacyOK, ConnectionOK, RowsKept, Databases, Rebuilding
<1>5. Achieved' /\ Priced'
  BY DEF TypeOK, ConnectionOK, RowsKept, Achieved, Priced, Databases, Rebuilding
<1> QED BY <1>1, <1>2, <1>3, <1>4, <1>5

(* The steps of the schema and the backfill.                               *)
LEMMA CreateInv == Inv /\ (Create \/ CreateClicks) => Inv'
BY DEF Create, CreateClicks, Run, Goto, Inv, TypeOK, LegacyOK, ConnectionOK, RowsKept, Achieved,
       Priced, Rebuilding, Steps, Databases

LEMMA AlterInv == Inv /\ Alter => Inv'
BY DEF Alter, Run, Goto, Inv, TypeOK, LegacyOK, ConnectionOK, RowsKept, Achieved, Priced,
       Rebuilding, Steps, Databases

LEMMA BackfillInv == Inv /\ Backfill => Inv'
BY BackfilledOK
   DEF Backfill, Goto, Inv, TypeOK, LegacyOK, ConnectionOK, RowsKept, Achieved, Priced,
       Rebuilding, Steps, Databases

LEMMA CommitInv == Inv /\ Commit => Inv'
<1> SUFFICES ASSUME Inv, Commit PROVE Inv'
  OBVIOUS
<1> USE DEF Commit, End, Goto, Inv
<1>1. TypeOK'
  BY DEF TypeOK, ConnectionOK, RowsKept, Databases, Rebuilding
<1>2. LegacyOK'
  BY DEF LegacyOK
<1>3. ConnectionOK'
  BY DEF TypeOK, ConnectionOK, Rebuilding, Steps
<1>4. RowsKept'
  BY DEF TypeOK, LegacyOK, ConnectionOK, RowsKept, Databases, Rebuilding
<1>5. Achieved' /\ Priced'
  BY DEF TypeOK, ConnectionOK, RowsKept, Achieved, Priced, Databases, Rebuilding
<1> QED BY <1>1, <1>2, <1>3, <1>4, <1>5

LEMMA StutterInv == Inv /\ UNCHANGED vars => Inv'
BY DEF Inv, TypeOK, LegacyOK, ConnectionOK, RowsKept, Achieved, Priced, vars

LEMMA Invariance == Init /\ [][Next]_vars => []Inv
<1>1. Inv /\ [Next]_vars => Inv'
  BY OpenInv, SwitchInv, CreateNewInv, CopyInv, DropInv, RenameInv, CommitBidsInv, CutOffInv,
     CreateInv, AlterInv, BackfillInv, CommitInv, StutterInv DEF Next
<1> QED BY InitInv, <1>1, PTL
-----------------------------------------------------------------------------
LEMMA InvNothingLost == Inv => NothingLost
BY DEF Inv, RowsKept, NothingLost

LEMMA InvUpToDate == Inv => UpToDate
<1> SUFFICES ASSUME Inv, pc = "up" PROVE UpToDate
  BY DEF UpToDate
<1>1. ~txn /\ fk /\ disk = db
  BY DEF Inv, ConnectionOK, Rebuilding
<1>2. db.bids = "new" /\ db.clicks = "new"
  BY DEF Inv, Achieved
<1> QED BY <1>1, <1>2 DEF UpToDate

LEMMA InvSpendKept == Inv => SpendKeptUncut
BY DEF Inv, Priced, Achieved, SpendKeptUncut, SpendKept

(* Type correctness; in particular no bids_new is ever on disk.            *)
THEOREM TypesHold == Spec => []TypeOK
BY Invariance, PTL DEF Inv, Spec

(* No interruption of an upgrade, at whatever statement and however often, *)
(* loses a bid or a click.                                                 *)
THEOREM UpgradesLoseNothing == Spec => []NothingLost
BY Invariance, InvNothingLost, PTL DEF Spec

(* A service that is up has the present schema on disk and its references  *)
(* enforced, whatever it was upgraded from.                                *)
THEOREM UpgradesComplete == Spec => []UpToDate
BY Invariance, InvUpToDate, PTL DEF Spec

(* Without an interruption every click is priced by its impression.        *)
THEOREM UncutUpgradesKeepSpend == Spec => []SpendKeptUncut
BY Invariance, InvSpendKept, PTL DEF Spec
-----------------------------------------------------------------------------
(* Within the service: a step of a process is one of the upgrade or leaves *)
(* the database alone.                                                     *)
LEMMA LifeStep == [LifeNext]_life => [Next]_vars
<1>1. Migrate => Next
  BY DEF Migrate, Next
<1>2. MigrationFails => Next
  BY DEF MigrationFails, Next
<1>3. Die => [Next]_vars
  BY DEF Die, Next
<1>4. CloseAds => Next
  BY DEF CloseAds, Next
<1>5. CloseFails => [Next]_vars
  BY DEF CloseFails, Next
<1>6. Start \/ Build \/ ConnectCache \/ AskHealth \/ AnswerHealth \/ Stop \/ CloseHttp \/ CloseCache
        => UNCHANGED vars
  BY DEF Start, Build, ConnectCache, AskHealth, AnswerHealth, Stop, CloseHttp, CloseCache
<1>7. ASSUME NEW i \in DOMAIN Listed, Probe(i) PROVE UNCHANGED vars
  BY <1>7 DEF Probe
<1>8. UNCHANGED life => UNCHANGED vars
  BY DEF life
<1> QED BY <1>1, <1>2, <1>3, <1>4, <1>5, <1>6, <1>7, <1>8 DEF LifeNext, Continue

(* So what holds of every upgrade holds of those a service starts with.    *)
LEMMA LifeInvariance == LifeSpec => []Inv
<1>1. LifeInit => Init
  BY DEF LifeInit
<1> QED BY LifeStep, Invariance, <1>1, PTL DEF LifeSpec


(* No start of the service, stop, failure or death of the process, in      *)
(* whatever order, loses a bid or a click.                                 *)
THEOREM ServicesLoseNothing == LifeSpec => []NothingLost
BY LifeInvariance, InvNothingLost, PTL

(* A database that is open for requests has the present schema.            *)
THEOREM ServicesRunUpToDate == LifeSpec => []UpToDate
BY LifeInvariance, InvUpToDate, PTL

(* Starts that were never interrupted keep what the clicks cost.           *)
THEOREM ServicesKeepSpend == LifeSpec => []SpendKeptUncut
BY LifeInvariance, InvSpendKept, PTL
-----------------------------------------------------------------------------
(* The stages at which the database is open, and what is open at which.    *)
StageOK ==
    /\ config \in Configurations
    /\ stage \in {"stopped", "serving"} \cup Starting \cup Stopping
    /\ pc # "stopped" => config.ads /\ stage \in {"migrating", "serving"} \cup Stopping
    /\ stage \in {"serving"} \cup Stopping => (pc = "up" <=> config.ads)
    /\ stage \in {"migrating", "closing ads"} => config.ads
    /\ stage = "migrating" => pc # "up"

OpenOK ==
    /\ open \subseteq {"http", "cache", "ads"}
    /\ ~config.ads => "ads" \notin open
    /\ stage = "closing cache" => "http" \notin open
    /\ stage = "closing ads" => open \subseteq {"ads"}
    /\ stage = "stopped" /\ ~faulty => open = {}

SigningOK ==
    /\ signing \in {"none", "configured", "ephemeral"}
    /\ stage # "stopped" /\ config.ads /\ config.required => signing = "configured"

(* The backend a name of Listed stands for, and the registry built from    *)
(* the names before the one that is next.                                  *)
Entry(j, p) ==
    /\ registry[j].name = Listed[p]
    /\ config.backends[Listed[p]].enabled
    /\ config.backends[Listed[p]].type # "unknown"
    /\ registry[j].by = "real" => HasCredentials(config.backends[Listed[p]])

Offered == \A j \in 1 .. Len(registry) : \E p \in 1 .. considered : Entry(j, p)

Follows(j, k) == \E p, q \in 1 .. considered :
    p < q /\ registry[j].name = Listed[p] /\ registry[k].name = Listed[q]

InOrder == \A j, k \in 1 .. Len(registry) : j < k => Follows(j, k)

Wanted(p) == config.backends[Listed[p]].enabled /\ config.backends[Listed[p]].type \in BuiltIn

Complete == \A p \in 1 .. considered : Wanted(p) =>
    \E j \in 1 .. Len(registry) : registry[j].name = Listed[p]

RegistryOK ==
    /\ considered \in 0 .. Len(Listed)
    /\ registry \in Seq(Instance)
    /\ stage \in {"migrating", "serving"} => considered = Len(Listed)
    /\ Offered /\ InOrder /\ Complete

LifeInv == Inv /\ StageOK /\ OpenOK /\ SigningOK /\ RegistryOK

LEMMA LifeInitInv == LifeInit => LifeInv
<1> SUFFICES ASSUME LifeInit PROVE LifeInv
  OBVIOUS
<1>1. Inv
  BY InitInv DEF LifeInit
<1>2. StageOK
  BY DEF LifeInit, Init, StageOK, Starting, Stopping
<1>3. OpenOK /\ SigningOK
  BY DEF LifeInit, OpenOK, SigningOK
<1>4. Len(Listed) \in Nat
  BY ListedAssumption
<1>5. RegistryOK
  BY <1>4 DEF LifeInit, RegistryOK, Offered, InOrder, Complete
<1> QED BY <1>1, <1>2, <1>3, <1>5 DEF LifeInv

LEMMA StageStep == LifeInv /\ [LifeNext]_life => StageOK'
<1> SUFFICES ASSUME LifeInv, [LifeNext]_life PROVE StageOK'
  OBVIOUS
<1> USE DEF LifeInv, StageOK, Starting, Stopping
<1>1. CASE Start
  BY <1>1 DEF Start, vars
<1>2. CASE Build
  BY <1>2 DEF Build, vars
<1>3. CASE ConnectCache
  BY <1>3 DEF ConnectCache, vars
<1>4. CASE Migrate
  <2>1. stage = "migrating" /\ config' = config
    BY <1>4 DEF Migrate
  <2>2. pc' # "stopped"
    BY <1>4 DEF Migrate, Open, ForeignKeysOff, Begin, CreateNew, Copy, Drop, Rename, CommitBids,
                ForeignKeysOn, Create, CreateClicks, Alter, Backfill, Commit, Goto
  <2>3. stage' = IF pc' = "up" THEN "serving" ELSE "migrating"
    BY <1>4 DEF Migrate
  <2> QED BY <2>1, <2>2, <2>3
<1>5. CASE MigrationFails
  BY <1>5 DEF MigrationFails, Rollback
<1>6. CASE Die
  BY <1>6 DEF Die, Crash, vars
<1>7. CASE AskHealth \/ AnswerHealth \/ \E i \in DOMAIN Listed : Probe(i)
  BY <1>7 DEF AskHealth, AnswerHealth, Probe, process, vars
<1>8. CASE Stop \/ CloseHttp \/ CloseCache
  BY <1>8 DEF Stop, CloseHttp, CloseCache, vars
<1>9. CASE CloseAds
  BY <1>9 DEF CloseAds, Close, Goto
<1>10. CASE CloseFails
  BY <1>10 DEF CloseFails, Close, Goto, vars
<1>11. CASE UNCHANGED life
  BY <1>11 DEF life, vars
<1> QED BY <1>1, <1>2, <1>3, <1>4, <1>5, <1>6, <1>7, <1>8, <1>9, <1>10, <1>11 DEF LifeNext, Continue

LEMMA OpenStep == LifeInv /\ [LifeNext]_life => OpenOK' /\ SigningOK'
<1> SUFFICES ASSUME LifeInv, [LifeNext]_life PROVE OpenOK' /\ SigningOK'
  OBVIOUS
<1> USE DEF LifeInv, StageOK, OpenOK, SigningOK, Starting, Stopping
<1>1. CASE Start
  BY <1>1 DEF Start
<1>2. CASE Build
  BY <1>2 DEF Build
<1>3. CASE ConnectCache
  BY <1>3 DEF ConnectCache
<1>4. CASE Migrate
  BY <1>4 DEF Migrate
<1>5. CASE MigrationFails \/ Die
  BY <1>5 DEF MigrationFails, Die
<1>6. CASE AskHealth \/ AnswerHealth \/ \E i \in DOMAIN Listed : Probe(i)
  BY <1>6 DEF AskHealth, AnswerHealth, Probe, process
<1>7. CASE Stop \/ CloseHttp
  BY <1>7 DEF Stop, CloseHttp
<1>8. CASE CloseCache
  BY <1>8 DEF CloseCache
<1>9. CASE CloseAds \/ CloseFails
  BY <1>9 DEF CloseAds, CloseFails
<1>10. CASE UNCHANGED life
  BY <1>10 DEF life
<1> QED BY <1>1, <1>2, <1>3, <1>4, <1>5, <1>6, <1>7, <1>8, <1>9, <1>10 DEF LifeNext, Continue
-----------------------------------------------------------------------------
(* A round of build_registry leaves a backend out only if it is off or of  *)
(* no type that is brought along, and offers it only as it may be.         *)
LEMMA InstancesOK ==
    ASSUME NEW b, NEW instance \in (IF b.enabled THEN Instances(b) ELSE {"none"})
    PROVE  /\ instance = "none" => ~(b.enabled /\ b.type \in BuiltIn)
           /\ instance \notin {"none", "ValueError"} =>
                /\ instance \in {"mock", "real"}
                /\ b.enabled /\ b.type # "unknown"
                /\ instance = "real" => HasCredentials(b)
BY PluginTypesAssumption DEF Instances, BuiltIn

LEMMA LeftOutOK ==
    ASSUME RegistryOK, considered < Len(Listed), considered' = considered + 1,
           UNCHANGED <<config, registry>>, stage = "building", stage' = stage,
           ~Wanted(considered + 1)
    PROVE  RegistryOK'
<1> DEFINE N == considered + 1
<1>1. Len(Listed) \in Nat /\ considered \in Nat /\ N \in 0 .. Len(Listed)
  BY ListedAssumption DEF RegistryOK
<1>2. \A p \in 1 .. considered : p \in 1 .. N
  BY <1>1
<1>3. \A p \in 1 .. N : p \in 1 .. considered \/ p = N
  BY <1>1
<1>4. Offered'
  BY <1>2 DEF RegistryOK, Offered, Entry
<1>5. InOrder'
  <2>1. ASSUME NEW j, NEW k, Follows(j, k) PROVE Follows(j, k)'
    BY <1>2, <2>1 DEF Follows
  <2> QED BY <2>1 DEF RegistryOK, InOrder
<1>6. ASSUME NEW p \in 1 .. N, Wanted(p)
      PROVE  \E j \in 1 .. Len(registry) : registry[j].name = Listed[p]
  <2>1. p # N
    BY <1>6
  <2> QED BY <2>1, <1>3, <1>6 DEF RegistryOK, Complete
<1>7. Complete'
  BY <1>6 DEF Complete, Wanted
<1> QED BY <1>1, <1>4, <1>5, <1>7 DEF RegistryOK

LEMMA OfferedOK ==
    ASSUME RegistryOK, considered < Len(Listed), considered' = considered + 1,
           UNCHANGED config, stage = "building", stage' = stage,
           NEW instance \in {"mock", "real"},
           registry' = Append(registry, [name |-> Listed[considered + 1], by |-> instance]),
           LET b == config.backends[Listed[considered + 1]] IN
             b.enabled /\ b.type # "unknown" /\ (instance = "real" => HasCredentials(b))
    PROVE  RegistryOK'
<1> DEFINE N == considered + 1
           L == Len(registry) + 1
<1>1. Len(Listed) \in Nat /\ considered \in Nat /\ N \in 0 .. Len(Listed) /\ N \in 1 .. N
  BY ListedAssumption DEF RegistryOK
<1>2. \A p \in 1 .. considered : p \in 1 .. N /\ p < N
  BY <1>1
<1>3. \A p \in 1 .. N : p \in 1 .. considered \/ p = N
  BY <1>1
<1>4. /\ registry' \in Seq(Instance) /\ Len(registry') = L /\ L \in 1 .. L
      /\ Len(registry) \in Nat
      /\ registry'[L] = [name |-> Listed[N], by |-> instance]
      /\ \A j \in 1 .. Len(registry) : registry'[j] = registry[j]
  <2>1. Listed[N] \in Names
    BY <1>1, ListedAssumption
  <2>2. registry \in Seq(Instance) /\ [name |-> Listed[N], by |-> instance] \in Instance
    BY <2>1 DEF RegistryOK, Instance
  <2> QED BY <2>2
<1>5. \A j \in 1 .. L : j \in 1 .. Len(registry) \/ j = L
  BY <1>4
<1>6. \A j \in 1 .. Len(registry) : j \in 1 .. L
  BY <1>4
<1>7. ASSUME NEW j \in 1 .. L PROVE \E p \in 1 .. N : Entry(j, p)'
  <2>1. CASE j = L
    BY <2>1, <1>1, <1>4 DEF Entry
  <2>2. CASE j \in 1 .. Len(registry)
    <3>1. PICK p \in 1 .. considered : Entry(j, p)
      BY <2>2 DEF RegistryOK, Offered
    <3>2. Entry(j, p)'
      BY <3>1, <2>2, <1>4 DEF Entry
    <3> QED BY <3>2, <1>2
  <2> QED BY <1>5, <2>1, <2>2
<1>8. ASSUME NEW j \in 1 .. L, NEW k \in 1 .. L, j < k
      PROVE  \E p, q \in 1 .. N :
               p < q /\ registry'[j].name = Listed[p] /\ registry'[k].name = Listed[q]
  <2>1. j \in 1 .. Len(registry)
    BY <1>4, <1>8
  <2>2. CASE k = L
    <3>1. PICK p \in 1 .. considered : Entry(j, p)
      BY <2>1 DEF RegistryOK, Offered
    <3>2. p < N /\ registry'[j].name = Listed[p] /\ registry'[k].name = Listed[N]
      BY <3>1, <2>1, <2>2, <1>2, <1>4 DEF Entry
    <3> QED BY <3>2, <1>1, <1>2
  <2>3. CASE k \in 1 .. Len(registry)
    <3>1. PICK p \in 1 .. considered, q \in 1 .. considered :
            p < q /\ registry[j].name = Listed[p] /\ registry[k].name = Listed[q]
      BY <1>8, <2>1, <2>3 DEF RegistryOK, InOrder, Follows
    <3> QED BY <3>1, <2>1, <2>3, <1>2, <1>4
  <2> QED BY <1>5, <2>2, <2>3
<1>9. ASSUME NEW p \in 1 .. N, Wanted(p)
      PROVE  \E j \in 1 .. L : registry'[j].name = Listed[p]
  <2>1. CASE p = N
    BY <2>1, <1>4
  <2>2. CASE p \in 1 .. considered
    <3>1. PICK j \in 1 .. Len(registry) : registry[j].name = Listed[p]
      BY <1>9, <2>2 DEF RegistryOK, Complete
    <3> QED BY <3>1, <1>4, <1>6
  <2> QED BY <1>3, <2>1, <2>2
<1>10. Offered'
  BY <1>4, <1>7 DEF Offered
<1>11. InOrder'
  <2>1. ASSUME NEW j \in 1 .. L, NEW k \in 1 .. L, j < k PROVE Follows(j, k)'
    <3>1. PICK p \in 1 .. N, q \in 1 .. N :
            p < q /\ registry'[j].name = Listed[p] /\ registry'[k].name = Listed[q]
      BY <1>8, <2>1
    <3>2. p \in 1 .. considered' /\ q \in 1 .. considered'
      OBVIOUS
    <3> QED BY <3>1, <3>2 DEF Follows
  <2> QED BY <2>1, <1>4 DEF InOrder
<1>12. Complete'
  BY <1>4, <1>9 DEF Complete, Wanted
<1> HIDE DEF N, L
<1> QED BY <1>1, <1>4, <1>10, <1>11, <1>12 DEF RegistryOK, N

LEMMA RegistryStep == LifeInv /\ [LifeNext]_life => RegistryOK'
<1> SUFFICES ASSUME LifeInv, [LifeNext]_life PROVE RegistryOK'
  OBVIOUS
<1> DEFINE b == config.backends[Listed[considered + 1]]
           Held == UNCHANGED <<config, considered, registry>>
<1>1. ASSUME Held, stage' \in {"migrating", "serving"} => considered = Len(Listed)
      PROVE  RegistryOK'
  <2>1. Offered' /\ InOrder' /\ Complete'
    BY <1>1 DEF LifeInv, RegistryOK, Offered, InOrder, Follows, Complete, Wanted, Entry
  <2> QED BY <1>1, <2>1 DEF LifeInv, RegistryOK
<1>2. CASE Start
  <2>1. Len(Listed) \in Nat
    BY ListedAssumption
  <2> QED BY <1>2, <2>1 DEF Start, RegistryOK, Offered, InOrder, Complete
<1>3. CASE Build
  <2>1. stage = "building" /\ considered < Len(Listed) /\ config' = config
    BY <1>3 DEF Build
  <2>2. PICK instance \in (IF b.enabled THEN Instances(b) ELSE {"none"}) :
          IF instance = "ValueError"
            THEN stage' = "stopped" /\ faulty' = TRUE /\ UNCHANGED <<considered, registry>>
            ELSE /\ considered' = considered + 1
                 /\ registry' = IF instance = "none" THEN registry
                                ELSE Append(registry, [name |-> Listed[considered + 1], by |-> instance])
                 /\ UNCHANGED <<stage, faulty>>
    BY <1>3 DEF Build
  <2>3. CASE instance = "ValueError"
    BY <1>1, <2>1, <2>2, <2>3
  <2>4. CASE instance = "none"
    BY <2>1, <2>2, <2>4, InstancesOK, LeftOutOK DEF LifeInv, Wanted
  <2>5. CASE instance \notin {"none", "ValueError"}
    BY <2>1, <2>2, <2>5, InstancesOK, OfferedOK DEF LifeInv
  <2> QED BY <2>3, <2>4, <2>5
<1>4. CASE ConnectCache
  BY <1>1, <1>4 DEF ConnectCache
<1>5. CASE Migrate
  BY <1>1, <1>5 DEF Migrate, LifeInv, RegistryOK
<1>6. CASE MigrationFails \/ Die
  BY <1>1, <1>6 DEF MigrationFails, Die
<1>7. CASE AskHealth \/ AnswerHealth \/ \E i \in DOMAIN Listed : Probe(i)
  BY <1>1, <1>7 DEF AskHealth, AnswerHealth, Probe, process, LifeInv, RegistryOK
<1>8. CASE Stop \/ CloseHttp \/ CloseCache \/ CloseAds \/ CloseFails
  BY <1>1, <1>8 DEF Stop, CloseHttp, CloseCache, CloseAds, CloseFails
<1>9. CASE UNCHANGED life
  BY <1>1, <1>9 DEF life, LifeInv, RegistryOK
<1> QED BY <1>2, <1>3, <1>4, <1>5, <1>6, <1>7, <1>8, <1>9 DEF LifeNext, Continue

LEMMA LifeInvInvariance == LifeSpec => []LifeInv
<1>1. Inv /\ [LifeNext]_life => Inv'
  <2>1. Inv /\ [Next]_vars => Inv'
    BY OpenInv, SwitchInv, CreateNewInv, CopyInv, DropInv, RenameInv, CommitBidsInv, CutOffInv,
       CreateInv, AlterInv, BackfillInv, CommitInv, StutterInv DEF Next
  <2> QED BY <2>1, LifeStep
<1>2. LifeInv /\ [LifeNext]_life => LifeInv'
  BY <1>1, StageStep, OpenStep, RegistryStep DEF LifeInv
<1> QED BY LifeInitInv, <1>2, PTL DEF LifeSpec

(* Type correctness; and the database is open exactly while a service that *)
(* sells ads serves or stops.                                              *)
THEOREM ServicesTyped == LifeSpec => []LifeTypeOK
<1>1. LifeInv => LifeTypeOK
  BY DEF LifeInv, Inv, StageOK, OpenOK, SigningOK, RegistryOK, LifeTypeOK
<1> QED BY LifeInvInvariance, <1>1, PTL

(* A service that is stopped in order leaves nothing open, at any failure  *)
(* and death before it was last started.                                   *)
THEOREM ServicesCloseWhatTheyOpen == LifeSpec => []ClosedInOrder
<1>1. LifeInv => ClosedInOrder
  BY DEF LifeInv, OpenOK, ClosedInOrder
<1> QED BY LifeInvInvariance, <1>1, PTL

(* A service that serves does as its configuration says, for any backends  *)
(* in any order and any database it was started on.                        *)
THEOREM ServicesServeAsConfigured == LifeSpec => []ServesAsConfigured
<1>1. ASSUME LifeInv PROVE ServesAsConfigured
  <2> SUFFICES ASSUME stage = "serving" PROVE ServesAsConfigured
    BY DEF ServesAsConfigured
  <2> DEFINE BackendOf(i) == config.backends[Listed[i]]
             Enabled == {i \in DOMAIN Listed : BackendOf(i).enabled}
             PlaceOf(j) == CHOOSE i \in DOMAIN Listed : Listed[i] = registry[j].name
  <2>1. /\ DOMAIN Listed = 1 .. Len(Listed) /\ considered = Len(Listed)
        /\ DOMAIN registry = 1 .. Len(registry)
    BY <1>1, ListedAssumption DEF LifeInv, RegistryOK
  <2>2. \A j : \A p \in DOMAIN Listed : registry[j].name = Listed[p] => PlaceOf(j) = p
    BY ListedAssumption
  <2>3. \A i \in Enabled : BackendOf(i).type \in BuiltIn =>
          \E j \in DOMAIN registry : registry[j].name = Listed[i]
    BY <1>1, <2>1 DEF LifeInv, RegistryOK, Complete, Wanted
  <2>4. ASSUME NEW j \in DOMAIN registry
        PROVE  /\ PlaceOf(j) \in Enabled /\ BackendOf(PlaceOf(j)).type # "unknown"
               /\ registry[j].by = "real" => HasCredentials(BackendOf(PlaceOf(j)))
    <3>1. PICK p \in DOMAIN Listed : Entry(j, p)
      BY <1>1, <2>1 DEF LifeInv, RegistryOK, Offered
    <3>2. PlaceOf(j) = p
      BY <3>1, <2>2 DEF Entry
    <3> HIDE DEF PlaceOf
    <3> QED BY <3>1, <3>2 DEF Entry
  <2>5. ASSUME NEW j \in DOMAIN registry, NEW k \in DOMAIN registry, j < k
        PROVE  PlaceOf(j) < PlaceOf(k)
    <3>0. InOrder /\ j \in 1 .. Len(registry) /\ k \in 1 .. Len(registry)
      BY <1>1, <2>1 DEF LifeInv, RegistryOK
    <3>1. PICK p \in 1 .. considered, q \in 1 .. considered :
            p < q /\ registry[j].name = Listed[p] /\ registry[k].name = Listed[q]
      BY <2>5, <3>0 DEF InOrder, Follows
    <3>2. PlaceOf(j) = p /\ PlaceOf(k) = q
      BY <3>1, <2>1, <2>2
    <3> HIDE DEF PlaceOf
    <3> QED BY <3>1, <3>2
  <2>6. config.ads => db.bids = "new" /\ db.clicks = "new" /\ disk = db
    BY <1>1, InvUpToDate DEF LifeInv, StageOK, UpToDate
  <2>7. config.ads /\ config.required => signing = "configured"
    BY <1>1 DEF LifeInv, SigningOK
  <2> QED BY <2>3, <2>4, <2>5, <2>6, <2>7 DEF ServesAsConfigured
<1> QED BY LifeInvInvariance, <1>1, PTL
-----------------------------------------------------------------------------
(* What a probe says of its backend fits what a search there would come to.*)
LEMMA StatusFits ==
    ASSUME NEW o
    PROVE  /\ Answers(o) => StatusOf(o) # "down"
           /\ Fails(o) => StatusOf(o) = "down"
<1>1. CASE o.answered = "mock"
  BY <1>1 DEF Answers, Fails, StatusOf
<1>2. CASE o.answered = "raised"
  BY <1>2 DEF Answers, Fails, StatusOf
<1>3. CASE o.answered = "yes"
  <2>1. StatusOf(o) = HealthCheck(o.reply)
    BY <1>3 DEF StatusOf
  <2> QED BY <1>3, <2>1 DEF Answers, Fails, HealthCheck, SearchEnd
<1>4. CASE o.answered \notin {"mock", "raised", "yes"}
  BY <1>4 DEF Answers, Fails
<1> QED BY <1>1, <1>2, <1>3, <1>4

(* Whatever the probes of a health request met and in whatever order they  *)
(* came back, "down" is said only if no backend answers, and "ok" only if  *)
(* none fails, for any replies and any number of backends.                 *)
THEOREM HealthIsTold == LifeSpec => []HealthFits
<1>1. LifeInit => HealthFits
  BY DEF LifeInit, HealthFits
<1>2. ASSUME HealthFits, [LifeNext]_life PROVE HealthFits'
  <2>1. ASSUME health' = health PROVE HealthFits'
    BY <1>2, <2>1 DEF HealthFits
  <2>2. CASE AnswerHealth
    <3>1. PICK f \in probes :
            health' = {[status |-> Overall({StatusOf(f[i]) : i \in DOMAIN f}), probes |-> f]}
      BY <2>2 DEF AnswerHealth
    <3> DEFINE S == {StatusOf(f[i]) : i \in DOMAIN f}
    <3>2. ASSUME Overall(S) = "down", NEW i \in DOMAIN f PROVE ~Answers(f[i])
      <4>1. StatusOf(f[i]) = "down"
        BY <3>2 DEF Overall
      <4> QED BY <4>1, StatusFits
    <3>3. ASSUME Overall(S) = "ok", NEW i \in DOMAIN f PROVE ~Fails(f[i])
      <4>1. StatusOf(f[i]) # "down"
        BY <3>3 DEF Overall
      <4> QED BY <4>1, StatusFits
    <3> HIDE DEF S
    <3> QED BY <3>1, <3>2, <3>3 DEF HealthFits, S
  <2>3. CASE Start \/ Build \/ ConnectCache \/ Migrate \/ MigrationFails \/ Die
    BY <2>1, <2>3 DEF Start, Build, ConnectCache, Migrate, MigrationFails, Die, requests
  <2>4. CASE AskHealth \/ \E i \in DOMAIN Listed : Probe(i)
    BY <2>1, <2>4 DEF AskHealth, Probe
  <2>5. CASE Stop \/ CloseHttp \/ CloseCache \/ CloseAds \/ CloseFails
    BY <2>1, <2>5 DEF Stop, CloseHttp, CloseCache, CloseAds, CloseFails, requests
  <2>6. CASE UNCHANGED life
    BY <2>1, <2>6 DEF life
  <2> QED BY <1>2, <2>2, <2>3, <2>4, <2>5, <2>6 DEF LifeNext, Continue
<1> QED BY <1>1, <1>2, PTL DEF LifeSpec
-----------------------------------------------------------------------------
(* What is under way gets done: the measure behind StartsAndStopsEnd.      *)

(* Statements of the upgrade still to come.                                *)
StatementsLeft ==
    CASE pc = "stopped"          -> 14  [] pc = "foreign_keys_off" -> 13
      [] pc = "begin"            -> 12  [] pc = "create_new"       -> 11
      [] pc = "copy"             -> 10  [] pc = "drop"             -> 9
      [] pc = "rename"           -> 8   [] pc = "commit_bids"      -> 7
      [] pc = "foreign_keys_on"  -> 6   [] pc = "create"           -> 5
      [] pc = "create_clicks"    -> 4   [] pc = "alter"            -> 3
      [] pc = "backfill"         -> 2   [] pc = "commit"           -> 1
      [] pc = "up"               -> 0

(* Probes that have not come back.                                         *)
Pending == {i \in DOMAIN registry : \E f \in probes : f[i].answered = "not yet"}

(* What a start, a stop or a health request has left to do at most.        *)
StepsLeft ==
    CASE stage = "building"      -> Len(Listed) - considered + 16
      [] stage = "migrating"     -> StatementsLeft + 1
      [] stage = "serving"       -> IF probes = {} THEN 0 ELSE Cardinality(Pending) + 1
      [] stage = "closing http"  -> 3
      [] stage = "closing cache" -> 2
      [] stage = "closing ads"   -> 1
      [] stage = "stopped"       -> 0

Resting == stage \in {"stopped", "serving"} /\ probes = {}

Nearer == StepsLeft \in Nat /\ StepsLeft' \in Nat /\ StepsLeft' < StepsLeft

(* Only a service that serves has probes under way, of its backends.       *)
ProbesOK == probes # {} =>
    /\ stage = "serving"
    /\ \E f : probes = {f} /\ f = [i \in DOMAIN registry |-> f[i]]

LEMMA ProbesStep ==
    ASSUME LifeInv, ProbesOK, [LifeNext]_life
    PROVE  ProbesOK'
<1>1. ASSUME UNCHANGED <<probes, registry, stage>> PROVE ProbesOK'
  BY <1>1 DEF ProbesOK
<1>2. ASSUME stage # "serving", probes' = probes PROVE ProbesOK'
  BY <1>2 DEF ProbesOK
<1>3. ASSUME probes' = {} PROVE ProbesOK'
  BY <1>3 DEF ProbesOK
<1>4. CASE AskHealth
  <2> DEFINE f == [i \in DOMAIN registry |-> [answered |-> "not yet"]]
  <2>1. probes' = {f} /\ UNCHANGED <<registry, stage>> /\ stage = "serving"
    BY <1>4 DEF AskHealth, process
  <2>2. f = [i \in DOMAIN registry |-> f[i]]
    OBVIOUS
  <2> HIDE DEF f
  <2> QED BY <2>1, <2>2 DEF ProbesOK
<1>5. ASSUME NEW i \in DOMAIN Listed, Probe(i) PROVE ProbesOK'
  <2>1. PICK f \in probes : \E o : probes' = {[f EXCEPT ![i] = o]}
    BY <1>5 DEF Probe
  <2>2. PICK o : probes' = {[f EXCEPT ![i] = o]}
    BY <2>1
  <2>3. UNCHANGED <<registry, stage>>
    BY <1>5 DEF Probe, process
  <2>4. stage = "serving" /\ f = [j \in DOMAIN registry |-> f[j]]
    BY <2>1 DEF ProbesOK
  <2> DEFINE g == [f EXCEPT ![i] = o]
  <2>5. g = [j \in DOMAIN registry |-> g[j]]
    BY <2>4
  <2> HIDE DEF g
  <2> QED BY <2>2, <2>3, <2>4, <2>5 DEF ProbesOK, g
<1>6. CASE Die \/ AnswerHealth
  BY <1>3, <1>6 DEF Die, AnswerHealth
<1>7. CASE Start \/ Build \/ ConnectCache \/ Migrate \/ MigrationFails
  BY <1>2, <1>7 DEF Start, Build, ConnectCache, Migrate, MigrationFails, requests
<1>8. CASE Stop
  BY <1>3, <1>8 DEF Stop, requests
<1>9. CASE CloseHttp \/ CloseCache \/ CloseAds \/ CloseFails
  BY <1>2, <1>9 DEF CloseHttp, CloseCache, CloseAds, CloseFails, requests
<1>10. CASE UNCHANGED life
  BY <1>1, <1>10 DEF life
<1> QED BY <1>4, <1>5, <1>6, <1>7, <1>8, <1>9, <1>10 DEF LifeNext, Continue

(* The measure is a number, and 0 only at rest.                            *)
Measured ==
    /\ considered \in Nat /\ Len(Listed) - considered \in Nat
    /\ StatementsLeft \in 0 .. 14
    /\ IsFiniteSet(Pending) /\ Cardinality(Pending) \in Nat
    /\ StepsLeft \in Nat
    /\ StepsLeft = 0 => Resting

LEMMA MeasureType == LifeInv /\ ProbesOK => Measured
<1> SUFFICES ASSUME LifeInv, ProbesOK PROVE Measured
  OBVIOUS
<1>1. considered \in Nat /\ Len(Listed) - considered \in Nat
  BY ListedAssumption DEF LifeInv, RegistryOK
<1>2. StatementsLeft \in 0 .. 14
  BY DEF LifeInv, Inv, ConnectionOK, Steps, Rebuilding, StatementsLeft
<1>3. IsFiniteSet(Pending) /\ Cardinality(Pending) \in Nat
  <2>1. DOMAIN registry = 1 .. Len(registry) /\ Len(registry) \in Nat
    BY DEF LifeInv, RegistryOK
  <2>2. IsFiniteSet(DOMAIN registry)
    BY <2>1, FS_Interval
  <2>3. Pending \subseteq DOMAIN registry
    BY DEF Pending
  <2> QED BY <2>2, <2>3, FS_Subset, FS_CardinalityType
<1>4. StepsLeft \in Nat /\ (StepsLeft = 0 => Resting)
  <2>1. CASE stage \in {"closing http", "closing cache", "closing ads"}
    <3>1. StepsLeft \in {1, 2, 3}
      BY <2>1 DEF StepsLeft
    <3> QED BY <3>1
  <2>2. CASE stage = "stopped"
    BY <2>2 DEF StepsLeft, Resting, ProbesOK
  <2>3. CASE stage = "building"
    <3>1. StepsLeft = Len(Listed) - considered + 16
      BY <2>3 DEF StepsLeft
    <3> QED BY <1>1, <3>1
  <2>4. CASE stage = "migrating"
    <3>1. StepsLeft = StatementsLeft + 1
      BY <2>4 DEF StepsLeft
    <3> QED BY <1>2, <3>1
  <2>5. CASE stage = "serving"
    <3>1. StepsLeft = IF probes = {} THEN 0 ELSE Cardinality(Pending) + 1
      BY <2>5 DEF StepsLeft
    <3> QED BY <1>3, <2>5, <3>1 DEF Resting
  <2> QED BY <2>1, <2>2, <2>3, <2>4, <2>5 DEF LifeInv, StageOK, Starting, Stopping
<1> QED BY <1>1, <1>2, <1>3, <1>4 DEF Measured

LEMMA MeasuredNext == LifeInv' /\ ProbesOK' => Measured'
BY MeasureType, PTL

(* Each statement of the upgrade is behind the one before it.              *)
LEMMA StatementsStep ==
    ASSUME Migrate
    PROVE  StatementsLeft' < StatementsLeft
<1>1. CASE Open \/ ForeignKeysOff \/ Begin \/ CreateNew \/ Copy
  BY <1>1 DEF Open, ForeignKeysOff, Begin, CreateNew, Copy, Goto, StatementsLeft
<1>2. CASE Drop \/ Rename \/ CommitBids \/ ForeignKeysOn \/ Create
  BY <1>2 DEF Drop, Rename, CommitBids, ForeignKeysOn, Create, Goto, StatementsLeft
<1>3. CASE CreateClicks \/ Alter \/ Backfill \/ Commit
  BY <1>3 DEF CreateClicks, Alter, Backfill, Commit, Goto, StatementsLeft
<1> QED BY <1>1, <1>2, <1>3 DEF Migrate

(* A probe that comes back is pending no longer.                           *)
LEMMA PendingStep ==
    ASSUME LifeInv, ProbesOK, NEW i, Probe(i)
    PROVE  /\ stage = "serving" /\ stage' = "serving" /\ probes # {} /\ probes' # {}
           /\ Cardinality(Pending') < Cardinality(Pending)
<1>1. PICK f \in probes :
        /\ i \in DOMAIN f /\ f[i].answered = "not yet"
        /\ \E o \in ProbeOutcomes(registry[i]) : probes' = {[f EXCEPT ![i] = o]}
  BY DEF Probe
<1>2. PICK o \in ProbeOutcomes(registry[i]) : probes' = {[f EXCEPT ![i] = o]}
  BY <1>1
<1>3. /\ stage = "serving" /\ probes = {f} /\ f = [j \in DOMAIN registry |-> f[j]]
      /\ UNCHANGED <<stage, registry>>
  BY <1>1 DEF ProbesOK, Probe, process
<1>4. i \in DOMAIN registry /\ registry[i].by \in {"mock", "real"}
  <2>1. i \in DOMAIN registry
    BY <1>1, <1>3
  <2>2. registry[i] \in Instance
    BY <2>1 DEF LifeInv, RegistryOK
  <2> QED BY <2>1, <2>2 DEF Instance
<1>5. o.answered # "not yet"
  BY <1>2, <1>4 DEF ProbeOutcomes
<1>6. Pending' = Pending \ {i} /\ i \in Pending
  BY <1>1, <1>2, <1>3, <1>4, <1>5 DEF Pending
<1>7. IsFiniteSet(Pending) /\ Cardinality(Pending) \in Nat
  BY MeasureType DEF Measured
<1>8. Cardinality(Pending \ {i}) = Cardinality(Pending) - 1
  BY <1>6, <1>7, FS_RemoveElement
<1>9. Cardinality(Pending') < Cardinality(Pending)
  BY <1>6, <1>7, <1>8
<1> QED BY <1>1, <1>2, <1>3, <1>9

LEMMA ContinueNearer ==
    ASSUME LifeInv, ProbesOK, LifeInv', ProbesOK', Continue
    PROVE  ~Resting /\ Nearer
<1>0. Measured /\ Measured'
  BY MeasureType, MeasuredNext
<1>1. StepsLeft \in Nat /\ StepsLeft' \in Nat
  BY <1>0 DEF Measured
<1> SUFFICES ~Resting /\ StepsLeft' < StepsLeft
  BY <1>1 DEF Nearer
<1>2. /\ Len(Listed) - considered \in Nat /\ Len(Listed) \in Nat /\ considered \in Nat
      /\ StatementsLeft \in 0 .. 14 /\ StatementsLeft' \in 0 .. 14
  BY <1>0, ListedAssumption DEF Measured
<1>3. stage # "serving" => probes = {}
  BY DEF ProbesOK
<1>4. CASE Build
  <2>1. /\ stage = "building" /\ considered < Len(Listed)
        /\ \/ stage' = "stopped"
           \/ stage' = "building" /\ considered' = considered + 1
    BY <1>4 DEF Build
  <2>2. StepsLeft = Len(Listed) - considered + 16
    BY <2>1 DEF StepsLeft
  <2>3. CASE stage' = "stopped"
    <3>1. StepsLeft' = 0
      BY <2>3 DEF StepsLeft
    <3> QED BY <1>2, <2>1, <2>2, <3>1 DEF Resting
  <2>4. CASE stage' = "building" /\ considered' = considered + 1
    <3>1. StepsLeft' = Len(Listed) - (considered + 1) + 16
      BY <2>4 DEF StepsLeft
    <3> QED BY <1>2, <2>1, <2>2, <3>1 DEF Resting
  <2> QED BY <2>1, <2>3, <2>4
<1>5. CASE ConnectCache
  <2>1. stage = "building" /\ stage' \in {"migrating", "serving"} /\ probes' = probes
    BY <1>5 DEF ConnectCache, requests
  <2>2. StepsLeft = Len(Listed) - considered + 16
    BY <2>1 DEF StepsLeft
  <2>3. StepsLeft' \in {0, StatementsLeft' + 1}
    BY <1>3, <2>1 DEF StepsLeft
  <2>4. \A s \in 0 .. 14, k \in Nat : 0 < k + 16 /\ s + 1 < k + 16
    OBVIOUS
  <2>5. StepsLeft' < StepsLeft
    BY <1>2, <2>2, <2>3, <2>4, Zenon
  <2> QED BY <2>1, <2>5 DEF Resting
<1>6. CASE Migrate
  <2>1. stage = "migrating" /\ stage' \in {"migrating", "serving"} /\ probes' = probes
    BY <1>6 DEF Migrate, requests
  <2>2. StatementsLeft' < StatementsLeft
    BY <1>6, StatementsStep
  <2>3. StepsLeft' \in {0, StatementsLeft' + 1} /\ StepsLeft = StatementsLeft + 1
    BY <1>3, <2>1 DEF StepsLeft
  <2>4. \A s, k \in 0 .. 14 : s < k => 0 < k + 1 /\ s + 1 < k + 1
    OBVIOUS
  <2>5. StepsLeft' < StepsLeft
    BY <1>2, <2>2, <2>3, <2>4, Zenon
  <2> QED BY <2>1, <2>5 DEF Resting
<1>7. CASE MigrationFails
  <2>1. stage = "migrating" /\ stage' = "stopped"
    BY <1>7 DEF MigrationFails
  <2>2. StepsLeft = StatementsLeft + 1 /\ StepsLeft' = 0
    BY <2>1 DEF StepsLeft
  <2> QED BY <1>2, <2>1, <2>2 DEF Resting
<1>8. CASE AnswerHealth
  <2>1. stage = "serving" /\ stage' = "serving" /\ probes # {} /\ probes' = {}
    BY <1>8 DEF AnswerHealth, process, ProbesOK
  <2>2. StepsLeft = Cardinality(Pending) + 1 /\ StepsLeft' = 0
    BY <2>1 DEF StepsLeft
  <2> QED BY <1>0, <2>1, <2>2 DEF Measured, Resting
<1>9. ASSUME NEW i \in DOMAIN Listed, Probe(i) PROVE ~Resting /\ StepsLeft' < StepsLeft
  <2>1. /\ stage = "serving" /\ stage' = "serving" /\ probes # {} /\ probes' # {}
        /\ Cardinality(Pending') < Cardinality(Pending)
    BY <1>9, PendingStep
  <2>2. StepsLeft = Cardinality(Pending) + 1 /\ StepsLeft' = Cardinality(Pending') + 1
    BY <2>1 DEF StepsLeft
  <2>3. Cardinality(Pending) \in Nat /\ Cardinality(Pending') \in Nat
    BY <1>0 DEF Measured
  <2> QED BY <2>1, <2>2, <2>3 DEF Resting
<1>10. CASE CloseHttp \/ CloseCache \/ CloseAds \/ CloseFails
  <2>1. \/ stage = "closing http" /\ stage' = "closing cache"
        \/ stage = "closing cache" /\ stage' \in {"closing ads", "stopped"}
        \/ stage \in {"closing http", "closing ads"} /\ stage' = "stopped"
    BY <1>10 DEF CloseHttp, CloseCache, CloseAds, CloseFails
  <2>2. /\ stage = "closing http" => StepsLeft = 3
        /\ stage = "closing cache" => StepsLeft = 2
        /\ stage = "closing ads" => StepsLeft = 1
    BY DEF StepsLeft
  <2>3. /\ stage' = "closing cache" => StepsLeft' = 2
        /\ stage' = "closing ads" => StepsLeft' = 1
        /\ stage' = "stopped" => StepsLeft' = 0
    BY DEF StepsLeft
  <2>4. \/ StepsLeft = 3 /\ StepsLeft' = 2
        \/ StepsLeft = 2 /\ StepsLeft' \in {0, 1}
        \/ StepsLeft \in {1, 3} /\ StepsLeft' = 0
    BY <2>1, <2>2, <2>3
  <2>5. StepsLeft' < StepsLeft
    BY <2>4
  <2> QED BY <2>1, <2>5 DEF Resting
<1> QED BY <1>4, <1>5, <1>6, <1>7, <1>8, <1>9, <1>10 DEF Continue

LEMMA EveryStepNearer ==
    ASSUME LifeInv, ProbesOK, LifeInv', ProbesOK', LifeNext, ~Resting
    PROVE  Nearer
<1>1. ~Start /\ ~AskHealth /\ ~Stop
  BY DEF Start, AskHealth, Stop, Resting, ProbesOK
<1>2. CASE Die
  <2>1. StepsLeft \in Nat /\ StepsLeft # 0
    BY MeasureType DEF Measured
  <2>2. StepsLeft' = 0
    BY <1>2 DEF Die, StepsLeft
  <2> QED BY <2>1, <2>2 DEF Nearer
<1> QED BY <1>1, <1>2, ContinueNearer DEF LifeNext

(* Whatever is under way, a start, a stop or a health request, each step   *)
(* takes it nearer to its end, by a measure that the number of backends    *)
(* bounds, and what goes on by itself is under way: no start loops, waits  *)
(* for a request or leaves a statement to be run again.                    *)
THEOREM StartsAndStopsAdvance ==
    LifeSpec => [][/\ Continue => ~Resting
                   /\ ~Resting => Nearer]_life
<1>1. LifeInit => ProbesOK
  BY DEF LifeInit, ProbesOK
<1>2. LifeInv /\ ProbesOK /\ [LifeNext]_life => ProbesOK'
  BY ProbesStep
<1>3. LifeInv /\ LifeInv' /\ ProbesOK /\ ProbesOK' /\ [LifeNext]_life =>
        [/\ Continue => ~Resting
         /\ ~Resting => Nearer]_life
  BY ContinueNearer, EveryStepNearer
<1> QED BY <1>1, <1>2, <1>3, LifeInvInvariance, PTL DEF LifeSpec
==============================================================================
