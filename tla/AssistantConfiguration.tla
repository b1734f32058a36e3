----------------------- MODULE AssistantConfiguration -----------------------
(***************************************************************************)
(* One account's personal model configuration: its keys, the catalogue     *)
(* each key last listed, the model switches, and the default model with    *)
(* its backups.  Owner requests write in one transaction that holds the    *)
(* account row lock; the worker (markKeyFailure, retireModel) and the      *)
(* nightly or requested refresh write without it and repair the default    *)
(* in separate statements.                                                 *)
(*                                                                         *)
(* A locked transaction is two steps: it opens (lock, snapshot, decision)  *)
(* and commits.  MySQL reads a snapshot inside a transaction but writes    *)
(* current rows, so an unlocked writer may come between, unless the row    *)
(* it writes is one the transaction has already written or locked.         *)
(* Names, consent, the owner's notice and audit rows are left out.         *)
(***************************************************************************)
EXTENDS Naturals, Sequences, FiniteSets

CONSTANTS Keys, Models,
          KeyProvider, ModelProvider,  \* provider of a key id, of a model id
          TextModels,                  \* the models isTextModel accepts
          NoKey, NoModel,
          Background,                  \* the worker and the refreshes
          MaxBackups,                  \* 12 in the code
          MaxSecrets,                  \* bound on replacements of a key
          MaxChanges,                  \* bound on owner requests ...
          MaxMixedChanges              \* ... and once there are background writes

ASSUME ProviderAssumption == DOMAIN KeyProvider = Keys /\ DOMAIN ModelProvider = Models
ASSUME ModelAssumption == TextModels \subseteq Models /\ NoModel \notin Models
ASSUME KeyAssumption == NoKey \notin Keys /\ IsFiniteSet(Keys)
ASSUME LimitAssumption ==
  {MaxBackups, MaxSecrets, MaxChanges, MaxMixedChanges} \subseteq Nat /\ MaxMixedChanges <= MaxChanges

VARIABLES
  keys,        \* assistant_key rows
  catalogue,   \* assistant_key_model rows: listed model -> missingCount
  off,         \* models whose assistant_model_preference row is disabled
  preference,  \* assistant_preferences row
  txn,         \* the open changeConfiguration transaction
  background,  \* the unlocked operation each background actor runs
  unlocked,    \* some unlocked operation has begun
  changes

rows == <<keys, catalogue, off>>
vars == <<rows, preference, txn, background, unlocked, changes>>

\* row: none, stored or removed; error: none, key_invalid or quota_exhausted.
NoKeyRow == [row |-> "none", enabled |-> FALSE, pending |-> FALSE,
             error |-> "none", position |-> 0, secret |-> 0]
RemovedKey == [NoKeyRow EXCEPT !.row = "removed"]

\* A catalogue maps a key's listed models to their missingCount, where 2
\* stands for "two or more": every reader asks only < 2.
Nothing == [m \in {} |-> 0]

EmptyPreference == [default |-> NoModel, backups |-> <<>>]

NoTxn == [open |-> FALSE, keys |-> Nothing, catalogue |-> Nothing, off |-> {},
          preference |-> EmptyPreference, writes |-> FALSE, holds |-> FALSE]
IdleActor == [pc |-> "idle", key |-> NoKey, quota |-> FALSE,
              preference |-> EmptyPreference, index |-> 0, choice |-> NoModel]

Init ==
  /\ keys = [k \in Keys |-> NoKeyRow]
  /\ catalogue = [k \in Keys |-> Nothing]
  /\ off = {}
  /\ preference = EmptyPreference
  /\ txn = NoTxn
  /\ background = [b \in Background |-> IdleActor]
  /\ unlocked = FALSE
  /\ changes = 0

-----------------------------------------------------------------------------
(* Reading the configuration *)

View(keyRows, catalogueRows, disabled) ==
  [keys |-> keyRows, catalogue |-> catalogueRows, off |-> disabled]
Committed == View(keys, catalogue, off)

Lists(view, k, m) == m \in DOMAIN view.catalogue[k] /\ view.catalogue[k][m] < 2

\* availableKey finds one: the model can be sent with this key.
Serves(view, k, m) ==
  /\ view.keys[k].row = "stored"
  /\ view.keys[k].enabled
  /\ ~view.keys[k].pending
  /\ view.keys[k].error = "none"
  /\ m \in TextModels
  /\ Lists(view, k, m)

Usable(view, m) == m \notin view.off /\ \E k \in Keys : Serves(view, k, m)

Members(seq) == {seq[i] : i \in 1..Len(seq)}
Distinct(seq) == \A i, j \in 1..Len(seq) : seq[i] = seq[j] => i = j

ValidPreference(view, p) ==
  /\ Len(p.backups) <= MaxBackups
  /\ p.default # NoModel => Usable(view, p.default)
  /\ Distinct(p.backups)
  /\ p.default \notin Members(p.backups)
  /\ \A m \in Members(p.backups) : Usable(view, m)
  /\ p.default = NoModel => ~\E m \in Models : Usable(view, m)

\* The row after the first usable backup has replaced the default.
Replaced(p, choice) ==
  [default |-> choice, backups |-> SelectSeq(p.backups, LAMBDA m : m # choice)]

NeedsRepair(view, p) == p.default # NoModel /\ ~Usable(view, p.default)

FirstUsable(view, seq) ==
  LET usable == {i \in 1..Len(seq) : Usable(view, seq[i])}
  IN IF usable = {} THEN NoModel
     ELSE seq[CHOOSE i \in usable : \A j \in usable : i <= j]

RepairDefault(view, p) ==
  IF NeedsRepair(view, p) THEN Replaced(p, FirstUsable(view, p.backups)) ELSE p

WriteCatalog(listed, catalog) ==
  [m \in DOMAIN listed \cup catalog |->
     IF m \in catalog THEN 0 ELSE IF listed[m] = 0 THEN 1 ELSE 2]

CatalogsOf(provider) == SUBSET {m \in Models : ModelProvider[m] = provider}
Override(base, image) == [k \in Keys |-> IF k \in DOMAIN image THEN image[k] ELSE base[k]]

-----------------------------------------------------------------------------
(* Transactions that hold the account lock *)

Locked == DOMAIN txn.keys

\* Take the account lock and decide from the snapshot: image and listing are
\* the key rows and catalogues it writes, writes tells whether it will write
\* the preference row, holds whether that row is locked from now on.
OpenChange(image, listing, disabled, new, writes, holds) ==
  /\ ~txn.open
  /\ changes < IF unlocked THEN MaxMixedChanges ELSE MaxChanges
  /\ changes' = changes + 1
  /\ txn' = [open |-> TRUE, keys |-> image, catalogue |-> listing, off |-> disabled,
             preference |-> new, writes |-> writes, holds |-> holds]
  /\ UNCHANGED <<rows, preference, background, unlocked>>

OpenKeyChange_Unrepaired(image) ==
  OpenChange(image, Nothing, off, preference, FALSE, FALSE)

\* The key operations end with repairDefault, in the same transaction.
OpenKeyChange(image) ==
  LET view == View(Override(keys, image), catalogue, off)
  IN OpenChange(image, Nothing, off, RepairDefault(view, preference),
                NeedsRepair(view, preference), FALSE)

Siblings(k) ==
  {j \in Keys \ {k} : /\ keys[j].row = "stored"
                      /\ ~keys[j].pending
                      /\ KeyProvider[j] = KeyProvider[k]}

NextPosition_Counted(k) ==
  Cardinality({j \in Keys : keys[j].row = "stored" /\ KeyProvider[j] = KeyProvider[k]})

NextPosition(k) ==
  LET taken == {keys[j].position : j \in {i \in Keys : /\ keys[i].row = "stored"
                                                       /\ KeyProvider[i] = KeyProvider[k]}}
  IN IF taken = {} THEN 0 ELSE (CHOOSE p \in taken : \A q \in taken : q <= p) + 1

\* Both candidate checks passed: the catalogue was read and a text model of
\* it answered; a replacement may find its key deleted meanwhile.
NewKeyRow(k) ==
  IF keys[k].row = "none"
  THEN [NoKeyRow EXCEPT !.row = "stored", !.enabled = TRUE, !.position = NextPosition(k)]
  ELSE [keys[k] EXCEPT !.enabled = TRUE, !.error = "none", !.secret = @ + 1]

SaveKey(k) ==
  /\ keys[k].row \in {"none", "stored"}
  /\ keys[k].secret < MaxSecrets
  /\ \E catalog \in CatalogsOf(KeyProvider[k]) : \E validated \in catalog \cap TextModels :
       LET image == [j \in {k} |-> NewKeyRow(k)]
           listing == [j \in {k} |-> WriteCatalog(catalogue[k], catalog)]
           view == View(Override(keys, image), Override(catalogue, listing), off)
           chosen == IF preference.default = NoModel
                     THEN [preference EXCEPT !.default = validated] ELSE preference
       IN OpenChange(image, listing, off, RepairDefault(view, chosen), TRUE, TRUE)

\* ownedKey was read before the lock: the row may be pending or gone by now.
Stale(k) == keys[k].row \in {"stored", "removed"}

\* The edited key moves to place p; the siblings keep their order around it.
Reposition(k, edited, p) ==
  LET before(j) == Cardinality({i \in Siblings(k) : keys[i].position < keys[j].position})
  IN [j \in Siblings(k) \cup {k} |->
        IF j # k
        THEN [keys[j] EXCEPT !.position = IF before(j) < p THEN before(j) ELSE before(j) + 1]
        ELSE IF edited.row = "stored" THEN [edited EXCEPT !.position = p] ELSE edited]

UpdateKey(k) ==
  /\ Stale(k)
  /\ \E enabled \in BOOLEAN :
       LET edited == IF keys[k].row = "stored" THEN [keys[k] EXCEPT !.enabled = enabled]
                     ELSE RemovedKey
       IN \/ OpenKeyChange([j \in {k} |-> edited])
          \/ \E p \in 0..Cardinality(Siblings(k)) : OpenKeyChange(Reposition(k, edited, p))

DeleteKey(k) ==
  /\ Stale(k)
  /\ OpenKeyChange([j \in {k} |-> IF keys[k].row = "removed" THEN RemovedKey
                                  ELSE [keys[k] EXCEPT !.enabled = FALSE, !.pending = TRUE]])

RevokeKey(k) ==
  /\ keys[k].row = "stored"
  /\ OpenKeyChange([j \in {k} |-> RemovedKey])

BackupLists == UNION {[1..n -> Models] : n \in 0..MaxBackups}
Choices == [default : Models \cup {NoModel}, backups : BackupLists]

SavePreferences ==
  \E choice \in Choices :
    /\ ValidPreference(Committed, choice)
    /\ OpenChange(Nothing, Nothing, off, choice, TRUE, FALSE)

UpdateModel(m) ==
  /\ \E k \in Keys : /\ keys[k].row = "stored"
                     /\ ~keys[k].pending
                     /\ m \in DOMAIN catalogue[k]
  /\ \E enabled \in BOOLEAN, choice \in Choices :
       LET disabled == IF enabled THEN off \ {m} ELSE off \cup {m}
       IN /\ ValidPreference(View(keys, catalogue, disabled), choice)
          /\ OpenChange(Nothing, Nothing, disabled, choice, TRUE, FALSE)

Commit ==
  /\ txn.open
  /\ keys' = Override(keys, txn.keys)
  /\ catalogue' = [k \in Keys |-> IF keys'[k].row = "removed" THEN Nothing
                                  ELSE Override(catalogue, txn.catalogue)[k]]
  /\ off' = txn.off
  /\ preference' = IF txn.writes THEN txn.preference ELSE preference
  /\ txn' = NoTxn
  /\ UNCHANGED <<background, unlocked, changes>>

\* A statement fails, or the process dies, before the commit.
Rollback ==
  /\ txn.open
  /\ txn' = NoTxn
  /\ UNCHANGED <<rows, preference, background, unlocked, changes>>

\* deleteKey after its commit, or the worker after its last use of the key.
FinishKeyDeletion(k) ==
  /\ keys[k].pending
  /\ k \notin Locked
  /\ keys' = [keys EXCEPT ![k] = RemovedKey]
  /\ catalogue' = [catalogue EXCEPT ![k] = Nothing]
  /\ UNCHANGED <<off, preference, txn, background, unlocked, changes>>

-----------------------------------------------------------------------------
(* Unlocked writers: the worker, the nightly refresh, a requested refresh *)

Start(b, next) ==
  /\ background[b].pc = "idle"
  /\ changes < MaxMixedChanges
  /\ changes' = changes + 1
  /\ unlocked' = TRUE
  /\ background' = [background EXCEPT ![b] = next]

ToRepair == [IdleActor EXCEPT !.pc = "readPreference"]

\* The worker's request with key k was refused; k may be gone by now.
MarkKeyFailure(b, k) ==
  /\ Stale(k)
  /\ k \notin Locked
  /\ \E code \in {"key_invalid", "quota_exhausted"} :
       keys' = IF keys[k].row = "stored" THEN [keys EXCEPT ![k].error = code] ELSE keys
  /\ Start(b, IF keys[k].row = "stored" THEN ToRepair ELSE IdleActor)
  /\ UNCHANGED <<catalogue, off, preference, txn>>

\* The provider no longer knows model m: every key's row of it retires.
RetireModel(b, m) ==
  /\ \A k \in Locked : KeyProvider[k] # ModelProvider[m]
  /\ catalogue' = [k \in Keys |-> IF m \in DOMAIN catalogue[k]
                                  THEN [catalogue[k] EXCEPT ![m] = 2] ELSE catalogue[k]]
  /\ Start(b, ToRepair)
  /\ UNCHANGED <<keys, off, preference, txn>>

RefreshModels(b, k) ==
  /\ keys[k].row = "stored"
  /\ ~keys[k].pending
  /\ Start(b, [IdleActor EXCEPT !.pc = "refresh", !.key = k,
                                !.quota = keys[k].error = "quota_exhausted"])
  /\ UNCHANGED <<rows, preference, txn>>

\* A successful probe clears whatever error the row has by now.
RefreshCommits_AnyError(b) ==
  LET k == background[b].key
  IN /\ background[b].pc = "refresh"
     /\ k \notin Locked
     /\ keys[k].row = "stored"
     /\ \E catalog \in CatalogsOf(KeyProvider[k]) :
          /\ catalogue' = [catalogue EXCEPT ![k] = WriteCatalog(@, catalog)]
          /\ \/ UNCHANGED keys
             \/ /\ background[b].quota
                /\ catalog \cap TextModels # {}
                /\ keys' = [keys EXCEPT ![k].error = "none"]
     /\ background' = [background EXCEPT ![b] = ToRepair]
     /\ UNCHANGED <<off, preference, txn, unlocked, changes>>

\* The provider answered with a catalogue, and perhaps with text.
RefreshCommits(b) ==
  LET k == background[b].key
  IN /\ background[b].pc = "refresh"
     /\ k \notin Locked
     /\ keys[k].row = "stored"
     /\ \E catalog \in CatalogsOf(KeyProvider[k]) :
          /\ catalogue' = [catalogue EXCEPT ![k] = WriteCatalog(@, catalog)]
          /\ \/ UNCHANGED keys
             \/ /\ background[b].quota
                /\ catalog \cap TextModels # {}
                /\ keys[k].error = "quota_exhausted"
                /\ keys' = [keys EXCEPT ![k].error = "none"]
     /\ background' = [background EXCEPT ![b] = ToRepair]
     /\ UNCHANGED <<off, preference, txn, unlocked, changes>>

\* The provider failed, the key row is gone (foreign key), or the process died.
GiveUp(b) ==
  /\ background[b].pc # "idle"
  /\ background' = [background EXCEPT ![b] = IdleActor]
  /\ UNCHANGED <<rows, preference, txn, unlocked, changes>>

RepairReads(b) ==
  /\ background[b].pc = "readPreference"
  /\ background' = [background EXCEPT ![b] =
       IF preference.default = NoModel THEN IdleActor
       ELSE [IdleActor EXCEPT !.pc = "check", !.preference = preference]]
  /\ UNCHANGED <<rows, preference, txn, unlocked, changes>>

\* One isModelAvailable query each: the default (index 0), then the backups.
RepairChecks(b) ==
  LET read == background[b].preference
      i == background[b].index
      candidate == IF i = 0 THEN read.default ELSE read.backups[i]
  IN /\ background[b].pc = "check"
     /\ background' = [background EXCEPT ![b] =
          IF Usable(Committed, candidate)
          THEN IF i = 0 THEN IdleActor ELSE [@ EXCEPT !.pc = "write", !.choice = candidate]
          ELSE IF i < Len(read.backups) THEN [@ EXCEPT !.index = i + 1]
               ELSE [@ EXCEPT !.pc = "write"]]
     /\ UNCHANGED <<rows, preference, txn, unlocked, changes>>

RepairWrites(b) ==
  /\ background[b].pc = "write"
  /\ ~txn.holds
  /\ preference' = Replaced(background[b].preference, background[b].choice)
  /\ background' = [background EXCEPT ![b] = IdleActor]
  /\ UNCHANGED <<rows, txn, unlocked, changes>>

-----------------------------------------------------------------------------
OwnerNext ==
  \/ \E k \in Keys : SaveKey(k) \/ UpdateKey(k) \/ DeleteKey(k) \/ RevokeKey(k)
                     \/ FinishKeyDeletion(k)
  \/ \E m \in Models : UpdateModel(m)
  \/ SavePreferences \/ Commit \/ Rollback

BackgroundNext(b) ==
  \/ \E k \in Keys : MarkKeyFailure(b, k) \/ RefreshModels(b, k)
  \/ \E m \in Models : RetireModel(b, m)
  \/ RefreshCommits(b) \/ GiveUp(b)
  \/ RepairReads(b) \/ RepairChecks(b) \/ RepairWrites(b)

Next == OwnerNext \/ \E b \in Background : BackgroundNext(b)

Spec == Init /\ [][Next]_vars

-----------------------------------------------------------------------------
KeyRows == [row : {"none", "stored", "removed"}, enabled : BOOLEAN, pending : BOOLEAN,
            error : {"none", "key_invalid", "quota_exhausted"}, position : Nat, secret : Nat]
Catalogues == UNION {[listed -> 0..2] : listed \in SUBSET Models}

(***************************************************************************)
(* The types of the rows, and of those an open transaction will write.     *)
(***************************************************************************)
ConfigurationTypeOK ==
  /\ keys \in [Keys -> KeyRows]
  /\ catalogue \in [Keys -> Catalogues]
  /\ off \subseteq Models
  /\ Locked \subseteq Keys /\ \A k \in Locked : txn.keys[k] \in KeyRows
  /\ DOMAIN txn.catalogue \subseteq Keys
  /\ \A k \in DOMAIN txn.catalogue : txn.catalogue[k] \in Catalogues
  /\ txn.off \subseteq Models
  /\ {txn.open, txn.writes, txn.holds, unlocked} \subseteq BOOLEAN
  /\ changes \in Nat

(***************************************************************************)
(* While nothing writes outside the account lock, no committed change of   *)
(* keys, switches or preferences leaves a default that cannot be sent      *)
(* ("default repair belongs to the same durable change as the Key",        *)
(* assistant-configuration.service.ts:259), whatever the owner's requests  *)
(* read before they took the lock.                                         *)
(***************************************************************************)
DefaultIsUsable ==
  unlocked \/ preference.default = NoModel \/ Usable(Committed, preference.default)

(***************************************************************************)
(* Fallback walks the keys of a provider in the order the owner chose, so  *)
(* no two keys still offered share a position: across creation after       *)
(* deletions, reordering a key that has gone meanwhile, and sweeps.        *)
(***************************************************************************)
PositionsAreDistinct ==
  \A j, k \in Keys :
    /\ j # k
    /\ keys[j].row = "stored" /\ ~keys[j].pending
    /\ keys[k].row = "stored" /\ ~keys[k].pending
    /\ KeyProvider[j] = KeyProvider[k]
    => keys[j].position # keys[k].position

(***************************************************************************)
(* A key the provider rejected is offered again only with another secret:  *)
(* a refresh that set out while the key was merely out of quota must not   *)
(* clear the later rejection (refreshModels, markKeyFailure).              *)
(***************************************************************************)
RejectedNeedsNewSecret ==
  [][\A k \in Keys :
       /\ keys[k].error = "key_invalid"
       /\ keys'[k].row = "stored"
       /\ keys'[k].error = "none"
       => keys'[k].secret # keys[k].secret]_vars

=============================================================================
