----------------------------- MODULE MenuImports -----------------------------
(***************************************************************************)
(* A location's menu: the menu-sync worker (services/workers/menu-sync),    *)
(* which imports it from an external source again and again, the            *)
(* transaction of the catalog that replaces it, and the edits staff make in *)
(* between (services/catalog/src/repository.ts). The worker sends one       *)
(* import at a time; but one whose answer it did not hear may still be at   *)
(* work when it tries again.                                                *)
(*                                                                         *)
(* PostgreSQL is at READ COMMITTED: a statement sees the rows committed     *)
(* when it began, waits for those that another transaction has locked, and  *)
(* passes over those that are gone by then. The other columns of a row are  *)
(* left out, and with them the edits that change only those                 *)
(* (updateAdminMenuItem and its visibility).                                *)
(***************************************************************************)
EXTENDS Naturals

CONSTANTS
    Menus,           \* what the source may answer: sets of <<item, category>>
    Special,         \* an item that staff add
    ImportSlots,     \* imports at work in the catalog
    MaxRetries,
    MaxSourceEdits,  \* bound: changes of the source
    MaxImportFaults  \* bound: imports that die, lost answers, failed fetches

ASSUME ImportsOK == {MaxRetries, MaxSourceEdits, MaxImportFaults} \subseteq Nat

VARIABLES
    source,      \* the menu the source answers with
    sourceEdits,
    categories,  \* catalog_menu_categories: the category, the import it came with
    items,       \* catalog_menu_items: the item, its category, its import
    imports,     \* per slot: the next statement, its menu, what it saw and deleted
    sync,        \* the worker: where it is, its attempt, its menu, its import
    importFaults,
    scanty       \* history: imports overlapped, one of which deleted no item

menuVars == <<source, sourceEdits, categories, items, imports, sync, importFaults, scanty>>

CategoriesOf(menu) == {pair[2] : pair \in menu}
CategoryRows(menu) == {[category |-> c, menu |-> menu] : c \in CategoriesOf(menu)}
ItemRows(menu) ==
    {[item |-> pair[1], category |-> pair[2], menu |-> menu] : pair \in menu}

Staff == {}   \* the import of a row that staff made

NoImport == [step |-> "idle", menu |-> {}, saw |-> {}, deleted |-> {}, empty |-> FALSE]
Resting == [at |-> "resting", attempt |-> 0, menu |-> {}, slot |-> 0]

MenuInit ==
    /\ source \in Menus
    /\ sourceEdits = 0
    /\ categories = {} /\ items = {}
    /\ imports = [s \in ImportSlots |-> NoImport]
    /\ sync = Resting
    /\ importFaults = 0
    /\ scanty = FALSE

ImportAt(s, step) == imports[s].step = step
InFlight == {s \in ImportSlots : ~ImportAt(s, "idle")}
ImportFault == importFaults < MaxImportFaults /\ importFaults' = importFaults + 1

(* Rows that an import has deleted and not committed are locked. *)
LockedFor(s) == UNION {imports[t].deleted : t \in InFlight \ {s}}
LockedRows == UNION {imports[t].deleted : t \in InFlight}

-----------------------------------------------------------------------------
(* The worker.                                                              *)

(* startMenuSyncLoop: a cycle, now or when the interval is over. *)
StartCycle ==
    /\ sync.at = "resting"
    /\ sync' = [Resting EXCEPT !.at = "fetch", !.attempt = 1]
    /\ UNCHANGED <<source, sourceEdits, categories, items, imports, importFaults, scanty>>

(* Mutant: an error that outlives its retries ends the loop. *)
AttemptFailedForGood(fault) ==
    /\ fault => ImportFault
    /\ ~fault => UNCHANGED importFaults
    /\ sync' = IF sync.attempt <= MaxRetries
               THEN [Resting EXCEPT !.at = "fetch", !.attempt = sync.attempt + 1]
               ELSE [Resting EXCEPT !.at = "ended"]

(* syncMenuWithRetry: it tries again, or writes a dead letter; the loop     *)
(* goes on either way.                                                      *)
AttemptFailed(fault) ==
    /\ fault => ImportFault
    /\ ~fault => UNCHANGED importFaults
    /\ sync' = IF sync.attempt <= MaxRetries
               THEN [Resting EXCEPT !.at = "fetch", !.attempt = sync.attempt + 1]
               ELSE Resting

(* syncMenuOnce. A payload without a menu counts as an empty menu, {}. *)
FetchMenu ==
    /\ sync.at = "fetch"
    /\ \/ sync' = [sync EXCEPT !.at = "put", !.menu = source] /\ UNCHANGED importFaults
       \/ AttemptFailed(TRUE)
    /\ UNCHANGED <<source, sourceEdits, categories, items, imports, scanty>>

PutMenu(s) ==
    /\ sync.at = "put" /\ ImportAt(s, "idle")
    /\ sync' = [sync EXCEPT !.at = "waiting", !.slot = s]
    /\ imports' = [imports EXCEPT ![s] = [NoImport EXCEPT !.step = "items", !.menu = sync.menu]]
    /\ UNCHANGED <<source, sourceEdits, categories, items, importFaults, scanty>>

(* The connection is lost, or the answer is; the import goes on. *)
LoseAnswer ==
    /\ sync.at = "waiting"
    /\ AttemptFailed(TRUE)
    /\ UNCHANGED <<source, sourceEdits, categories, items, imports, scanty>>

Awaited(s) == sync.at = "waiting" /\ sync.slot = s

-----------------------------------------------------------------------------
(* replaceInternalLocationMenu                                              *)

(* DELETE of the items begins. *)
ScanItems(s) ==
    /\ ImportAt(s, "items")
    /\ imports' = [imports EXCEPT ![s].step = "scanned", ![s].saw = items]
    /\ UNCHANGED <<source, sourceEdits, categories, items, sync, importFaults, scanty>>

(* It is through when nobody has the rows it saw locked. DELETE of the      *)
(* categories begins with it.                                               *)
DeleteItems(s) ==
    LET rows == imports[s].saw \cap items
        beside == {t \in InFlight \ {s} : imports[t].step \notin {"items", "scanned"}}
    IN  /\ ImportAt(s, "scanned") /\ imports[s].saw \cap LockedFor(s) = {}
        /\ imports' = [imports EXCEPT ![s] = [@ EXCEPT !.step = "categories",
               !.saw = categories, !.deleted = rows, !.empty = (rows = {})]]
        /\ scanty' = (scanty \/ \E t \in beside : rows = {} \/ imports[t].empty)
        /\ UNCHANGED <<source, sourceEdits, categories, items, sync, importFaults>>

(* The categories it saw and that are still there, and with them the items  *)
(* that staff have added to them.                                           *)
Cascade(s) ==
    LET rows == imports[s].saw \cap categories
    IN  rows \cup {i \in items : \E c \in rows : c.category = i.category}

Waits(s) == ImportAt(s, "categories") /\ (imports[s].saw \cup Cascade(s)) \cap LockedFor(s) # {}

DeleteCategories(s) ==
    /\ ImportAt(s, "categories") /\ ~Waits(s)
    /\ imports' = [imports EXCEPT ![s].step = "insert", ![s].saw = {},
                       ![s].deleted = @ \cup Cascade(s)]
    /\ UNCHANGED <<source, sourceEdits, categories, items, sync, importFaults, scanty>>

Keys(menu) == CategoriesOf(menu) \cup {pair[1] : pair \in menu}

(* Another import has inserted a key of this one's and not committed. *)
KeyPending(s) ==
    \E t \in InFlight \ {s} :
        ImportAt(t, "commit") /\ Keys(imports[t].menu) \cap Keys(imports[s].menu) # {}

(* What would be left if it committed now. *)
KeyTaken(s) ==
    \/ \E c \in categories \ imports[s].deleted : c.category \in CategoriesOf(imports[s].menu)
    \/ \E i \in items \ imports[s].deleted : \E pair \in imports[s].menu : i.item = pair[1]

(* PostgreSQL refuses a key that is taken, and one of two imports that wait *)
(* for each other.                                                          *)
ImportRefused(s) ==
    \/ ImportAt(s, "insert") /\ ~KeyPending(s) /\ KeyTaken(s)
    \/ Waits(s) /\ \E t \in InFlight \ {s} : Waits(t)

ImportEnds(s, answered) ==
    /\ imports' = [imports EXCEPT ![s] = NoImport]
    /\ sync' = IF ~Awaited(s) THEN sync ELSE answered

(* INSERT of the categories and of the items: a key that is taken fails it. *)
InsertMenu(s) ==
    /\ ImportAt(s, "insert") /\ ~KeyPending(s) /\ ~ImportRefused(s)
    /\ imports' = [imports EXCEPT ![s].step = "commit"]
    /\ UNCHANGED <<source, sourceEdits, categories, items, sync, importFaults, scanty>>

(* Mutant: the categories are upserted, not deleted first. *)
CommitMenuOver(s) ==
    /\ ImportAt(s, "commit")
    /\ categories' = CategoryRows(imports[s].menu)
           \cup {c \in categories : c.category \notin CategoriesOf(imports[s].menu)}
    /\ items' = (items \ imports[s].deleted) \cup ItemRows(imports[s].menu)
    /\ ImportEnds(s, Resting)
    /\ UNCHANGED <<source, sourceEdits, importFaults, scanty>>

CommitMenu(s) ==
    /\ ImportAt(s, "commit")
    /\ categories' = (categories \ imports[s].deleted) \cup CategoryRows(imports[s].menu)
    /\ items' = (items \ imports[s].deleted) \cup ItemRows(imports[s].menu)
    /\ ImportEnds(s, Resting)
    /\ UNCHANGED <<source, sourceEdits, importFaults, scanty>>

(* It is rolled back: it was refused, or it dies. *)
ImportFails(s) ==
    /\ ~ImportAt(s, "idle")
    /\ imports' = [imports EXCEPT ![s] = NoImport]
    /\ IF Awaited(s) THEN AttemptFailed(~ImportRefused(s))
       ELSE UNCHANGED sync /\ IF ImportRefused(s) THEN UNCHANGED importFaults ELSE ImportFault
    /\ UNCHANGED <<source, sourceEdits, categories, items, scanty>>

-----------------------------------------------------------------------------
(* Staff, and the source.                                                   *)

StaffEdit == UNCHANGED <<source, sourceEdits, categories, imports, sync, importFaults, scanty>>

(* createAdminMenuItem: the foreign key waits for a category that is locked. *)
CreateItem(row) ==
    /\ row \in categories \ LockedRows
    /\ \A i \in items : i.item # Special
    /\ items' = items \cup {[item |-> Special, category |-> row.category, menu |-> Staff]}
    /\ StaffEdit

(* deleteAdminMenuItem *)
DeleteItem(i) ==
    /\ i \notin LockedRows
    /\ items' = items \ {i}
    /\ StaffEdit

SourceChanges(menu) ==
    /\ sourceEdits < MaxSourceEdits
    /\ source' = menu /\ sourceEdits' = sourceEdits + 1
    /\ UNCHANGED <<categories, items, imports, sync, importFaults, scanty>>

-----------------------------------------------------------------------------
ImportStep(s) ==
    \/ ScanItems(s) \/ DeleteItems(s) \/ DeleteCategories(s) \/ InsertMenu(s) \/ CommitMenu(s)
    \/ ImportRefused(s) /\ ImportFails(s)

SyncStep == StartCycle \/ FetchMenu \/ (\E s \in ImportSlots : PutMenu(s))

MenuNext ==
    \/ SyncStep \/ LoseAnswer
    \/ \E s \in ImportSlots : ImportStep(s) \/ ImportFails(s)
    \/ \E row \in categories : CreateItem(row)
    \/ \E i \in items : DeleteItem(i)
    \/ \E menu \in Menus : SourceChanges(menu)

(* The worker's loop and the catalog go on. *)
MenuFairness ==
    WF_menuVars(SyncStep) /\ \A s \in ImportSlots : WF_menuVars(ImportStep(s))

MenuSpec == MenuInit /\ [][MenuNext]_menuVars /\ MenuFairness

-----------------------------------------------------------------------------
(* Types: what every variable may hold. *)
StoredCategories == UNION {CategoryRows(menu) : menu \in Menus}
StaffItems ==
    [item : {Special}, category : UNION {CategoriesOf(menu) : menu \in Menus}, menu : {Staff}]
ImportedItems == UNION {ItemRows(menu) : menu \in Menus}
StoredItems == ImportedItems \cup StaffItems
MenuRows == StoredCategories \cup StoredItems
Imports ==
    [step : {"idle", "items", "scanned", "categories", "insert", "commit"},
     menu : Menus \cup {{}}, saw : SUBSET MenuRows, deleted : SUBSET MenuRows, empty : BOOLEAN]
Cycles ==
    [at : {"resting", "fetch", "put", "waiting"}, attempt : 0..MaxRetries + 1,
     menu : Menus \cup {{}}, slot : ImportSlots \cup {0}]

MenuTypeOK ==
    /\ source \in Menus
    /\ sourceEdits \in 0..MaxSourceEdits
    /\ categories \subseteq StoredCategories
    /\ items \subseteq StoredItems
    /\ imports \in [ImportSlots -> Imports]
    /\ sync \in Cycles
    /\ importFaults \in 0..MaxImportFaults
    /\ scanty \in BOOLEAN

(* A stored menu is one import's, plus what staff have added, and every     *)
(* item is in a category that is there: the transaction replaces the menu   *)
(* as a whole (catalog repository.ts:2527), however imports, edits and      *)
(* failures interleave; unless imports overlap and one of them had no item  *)
(* to delete, and so none to lock.                                          *)
MenuIsOneImport ==
    /\ ~scanty => \A c \in categories, r \in categories \cup items :
          r.menu \in {c.menu, Staff}
    /\ \A i \in items : \E c \in categories : c.category = i.category

(* However imports wait for each other's rows and keys, they never all do:  *)
(* one of those at work goes on, or is refused and rolled back.             *)
GoesOn(s) ==
    \/ imports[s].step \in {"items", "commit"}
    \/ ImportAt(s, "scanned") /\ imports[s].saw \cap LockedFor(s) = {}
    \/ ImportAt(s, "categories") /\ ~Waits(s)
    \/ ImportAt(s, "insert") /\ ~KeyPending(s)
    \/ ImportRefused(s)

SomeImportGoesOn == InFlight # {} => \E s \in InFlight : GoesOn(s)

(* "Periodic menu-import worker for an external menu source, now persisting *)
(* into catalog" (docs/PROJECT_STATE.md:52): once the source no longer      *)
(* changes, its categories come to be stored for good, in spite of failed   *)
(* cycles and of imports that overlapped.                                   *)
SourceIsStored == <>[](categories = CategoryRows(source))
=============================================================================
