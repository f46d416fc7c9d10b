------------------------------ MODULE Imports ------------------------------
(***************************************************************************)
(* A merchant's CSV imports: the handlers of apps/api/routers/merchant_    *)
(* catalog.py over services/catalog (service.py, repository.py), each one  *)
(* database transaction at READ COMMITTED, and the import panel of apps/   *)
(* web/src/app/merchant/catalog/page.tsx in several tabs.                  *)
(*                                                                         *)
(* A handler reads the import's status without a lock.  A publish then     *)
(* locks the import's row and supersedes the version it finds published;   *)
(* a unique index allows one published version (infra/migrations/versions/ *)
(* 20260821_0001:65-66).                                                   *)
(***************************************************************************)
EXTENDS Naturals, FiniteSets

CONSTANTS
  Panels,     \* tabs with the panel open
  Files,      \* files that may be uploaded, and the imports made of them
  Unsound,    \* those with a row that does not validate
  MaxCommands, \* bound on commands given
  MaxFaults    \* bound on deaths, timeouts and reads that fail

ASSUME ImportsAssumption == Unsound \subseteq Files /\ MaxCommands \in Nat /\ MaxFaults \in Nat

VARIABLES
  imports,   \* status of each import that is in the table
  versions,  \* catalogue versions, as [of, status], numbered
  commands,  \* handlers running, and answers not yet handled by the page
  given,     \* how many commands were given
  panel,     \* per tab: the import and status shown, whose rows, the phase
  faults

importVars == <<imports, versions, commands, given, panel, faults>>

NoImport == [file |-> "none", status |-> "none", rows |-> "none", phase |-> "idle"]

Checked(f) == IF f \in Unsound THEN "invalid" ELSE "valid"

\* A panel is empty, or still shows the file that was validated in it.
ImportsInit ==
  \E held \in [Panels -> Files \cup {"none"}] :
    LET files == {held[t] : t \in Panels} \ {"none"}
    IN /\ \A t, u \in Panels : held[t] = held[u] => t = u \/ held[t] = "none"
       /\ imports = [f \in files |-> Checked(f)]
       /\ panel = [t \in Panels |->
            IF held[t] = "none" THEN NoImport
            ELSE [file |-> held[t], status |-> Checked(held[t]),
                  rows |-> held[t], phase |-> "done"]]
       /\ versions = <<>> /\ commands = {} /\ given = 0 /\ faults = 0

Published == {v \in DOMAIN versions : versions[v].status = "published"}

-----------------------------------------------------------------------------
(* The panel *)

Command(t, what, f, saw) ==
  [n |-> given + 1, tab |-> t, what |-> what, file |-> f, saw |-> saw,
   step |-> "check", live |-> TRUE]

Gives(t, what, f, shows) ==
  /\ given < MaxCommands
  /\ given' = given + 1
  /\ commands' = commands \cup {Command(t, what, f, {})}
  /\ panel' = [panel EXCEPT ![t] = shows]
  /\ UNCHANGED <<imports, versions, faults>>

Fault == faults < MaxFaults /\ faults' = faults + 1

Busy(t, phase) == [panel[t] EXCEPT !.phase = phase]

\* The input stays enabled while an upload is under way.
Upload(t, f) ==
  /\ panel[t].file = "none"
  /\ f \notin DOMAIN imports /\ \A k \in commands : k.file # f
  /\ Gives(t, "upload", f, [NoImport EXCEPT !.phase = "uploading"])

\* Each button looks at the status shown and at its own phase only.
Validate(t) ==
  /\ panel[t].status = "pending" /\ panel[t].phase # "validating"
  /\ Gives(t, "validate", panel[t].file, Busy(t, "validating"))

Publish(t) ==
  /\ panel[t].status = "valid" /\ panel[t].phase # "publishing"
  /\ Gives(t, "publish", panel[t].file, Busy(t, "publishing"))

Discard(t) ==
  /\ panel[t].status \in {"pending", "valid", "invalid"}
  /\ Gives(t, "rollback", panel[t].file, panel[t])

Moves(k, step, saw) ==
  commands' = (commands \ {k}) \cup {[k EXCEPT !.step = step, !.saw = saw]}

\* The page's continuation of a command: what was asked succeeds, the status
\* is read again after a validation or a publication, then the rows.
Succeeded(k) ==
  /\ k \in commands /\ k.step = "done" /\ k.live
  /\ CASE k.what = "upload" ->
            /\ panel' = [panel EXCEPT ![k.tab] =
                 [file |-> k.file, status |-> "pending", rows |-> "none", phase |-> "done"]]
            /\ Moves(k, "rows", {})
       [] k.what \in {"validate", "publish"} ->
            /\ panel' = IF k.file \notin DOMAIN imports THEN panel
                        ELSE [panel EXCEPT ![k.tab].file = k.file,
                                           ![k.tab].status = imports[k.file]]
            /\ Moves(k, IF k.what = "validate" THEN "rows" ELSE "finish", {})
       [] OTHER ->
            /\ panel' = [panel EXCEPT ![k.tab] = NoImport]
            /\ commands' = commands \ {k}
  /\ UNCHANGED <<imports, versions, given, faults>>

\* refreshImport and loadImportRows ignore a read that fails.
RefreshFails(k) ==
  /\ Fault
  /\ k \in commands /\ k.step = "done" /\ k.live /\ k.what \in {"validate", "publish"}
  /\ Moves(k, IF k.what = "validate" THEN "rows" ELSE "finish", {})
  /\ UNCHANGED <<imports, versions, given, panel>>

RowsFail(k) ==
  /\ Fault
  /\ k \in commands /\ k.step = "rows"
  /\ Moves(k, "finish", {})
  /\ UNCHANGED <<imports, versions, given, panel>>

RowsRead(k) ==
  /\ k \in commands /\ k.step \in {"rows", "finish"}
  /\ panel' = [panel EXCEPT
       ![k.tab].rows = IF /\ k.step = "rows" /\ k.file \in DOMAIN imports
                          /\ imports[k.file] # "published"
                       THEN k.file ELSE @,
       ![k.tab].phase = IF k.what = "upload" THEN @ ELSE "done"]
  /\ commands' = commands \ {k}
  /\ UNCHANGED <<imports, versions, given, faults>>

Failed(k) ==
  /\ k \in commands /\ k.step = "failed" /\ k.live
  /\ panel' = [panel EXCEPT ![k.tab].phase = "error"]
  /\ commands' = commands \ {k}
  /\ UNCHANGED <<imports, versions, given, faults>>

-----------------------------------------------------------------------------
(* The handlers *)

\* The statuses _require_import_in_status lets through.
Allowed == [validate |-> {"pending"}, publish |-> {"valid"},
            rollback |-> {"pending", "valid", "invalid"}]

\* Reading the status; create_import inserts at once.
Check(k) ==
  /\ k \in commands /\ k.step = "check"
  /\ IF k.what = "upload"
     THEN /\ imports' = [f \in DOMAIN imports \cup {k.file} |->
                           IF f = k.file THEN "pending" ELSE imports[f]]
          /\ Moves(k, "done", {})
     ELSE /\ imports' = imports
          /\ IF k.file \in DOMAIN imports /\ imports[k.file] \in Allowed[k.what]
             THEN Moves(k, "write", {}) ELSE Moves(k, "failed", {})
  /\ UNCHANGED <<versions, given, panel, faults>>

\* A publish holds the row of its import from its first write to its commit.
Locked(k) == \E o \in commands \ {k} : o.step = "commit" /\ o.file = k.file

\* A write to a row that is gone fails.  A rollback deletes what it finds.
Write(k) ==
  /\ k \in commands /\ k.step = "write" /\ ~Locked(k)
  /\ CASE k.what = "rollback" ->
            /\ imports' = [f \in DOMAIN imports \ {k.file} |-> imports[f]]
            /\ Moves(k, "done", {})
       [] k.file \notin DOMAIN imports ->
            imports' = imports /\ Moves(k, "failed", {})
       [] k.what = "validate" ->
            /\ imports' = [imports EXCEPT ![k.file] = Checked(k.file)]
            /\ Moves(k, "done", {})
       [] OTHER ->
            imports' = imports /\ Moves(k, "commit", Published)
  /\ UNCHANGED <<versions, given, panel, faults>>

Superseded(saw) ==
  [v \in DOMAIN versions |->
     IF v \in saw THEN [versions[v] EXCEPT !.status = "superseded"] ELSE versions[v]]

\* Mutated: no unique index, so the second of two publications, which does
\* not see the version of the first, commits as well.
CommitAnyway(k) ==
  /\ k \in commands /\ k.step = "commit"
  /\ imports' = [imports EXCEPT ![k.file] = "published"]
  /\ versions' = [v \in 1 .. Cardinality(DOMAIN versions) + 1 |->
                    IF v \in DOMAIN versions THEN Superseded(k.saw)[v]
                    ELSE [of |-> k.file, status |-> "published"]]
  /\ Moves(k, "done", {})
  /\ UNCHANGED <<given, panel, faults>>

\* atomic_publish_catalog_version and the commit: the version that was
\* published when the statement began is superseded.  Where another became
\* published since, the unique index refuses and nothing is written.
Commit(k) ==
  /\ k \in commands /\ k.step = "commit"
  /\ IF Published \subseteq k.saw
     THEN /\ imports' = [imports EXCEPT ![k.file] = "published"]
          /\ versions' = [v \in 1 .. Cardinality(DOMAIN versions) + 1 |->
                            IF v \in DOMAIN versions THEN Superseded(k.saw)[v]
                            ELSE [of |-> k.file, status |-> "published"]]
          /\ Moves(k, "done", {})
     ELSE /\ UNCHANGED <<imports, versions>>
          /\ Moves(k, "failed", {})
  /\ UNCHANGED <<given, panel, faults>>

\* A handler dies before its commit, or its answer is lost after it.
Dies(k) ==
  /\ Fault
  /\ k \in commands /\ k.step \in {"check", "write", "commit", "done"}
  /\ Moves(k, "failed", {})
  /\ UNCHANGED <<imports, versions, given, panel>>

\* The page's timeout passes: it shows an error while the handler goes on.
GivesUp(k) ==
  /\ Fault
  /\ k \in commands /\ k.step \in {"check", "write", "commit"} /\ k.live
  /\ panel' = [panel EXCEPT ![k.tab].phase = "error"]
  /\ commands' = (commands \ {k}) \cup {[k EXCEPT !.live = FALSE]}
  /\ UNCHANGED <<imports, versions, given>>

EndsUnseen(k) ==
  /\ k \in commands /\ ~k.live /\ k.step \in {"done", "failed"}
  /\ commands' = commands \ {k}
  /\ UNCHANGED <<imports, versions, given, panel, faults>>

ImportsNext ==
  \/ \E t \in Panels :
       \/ \E f \in Files : Upload(t, f)
       \/ Validate(t) \/ Publish(t) \/ Discard(t)
  \/ \E k \in commands :
       \/ Check(k) \/ Write(k) \/ Commit(k) \/ Dies(k) \/ GivesUp(k) \/ EndsUnseen(k)
       \/ Succeeded(k) \/ RefreshFails(k) \/ RowsFail(k) \/ RowsRead(k) \/ Failed(k)

ImportsSpec == ImportsInit /\ [][ImportsNext]_importVars

-----------------------------------------------------------------------------
(* Properties *)

\* Once a catalogue was published there is always exactly one version for
\* the storefront (repository.py:66-84 tells how a publish once left none),
\* with any publications, discards and deaths of handlers between.
CatalogStaysOnline == DOMAIN versions # {} => Cardinality(Published) = 1

\* "Only imports that have not been published can be rolled back"
\* (merchant_catalog.py:396): a publication commits between the check of a
\* rollback and its delete.
PublishedIsKept ==
  \A v \in DOMAIN versions : versions[v].of \in DOMAIN imports

\* An import "goes through ... published" once (models.py:198): two tabs
\* both read it valid, and the second publication waits for the first only
\* to make a second catalogue of the same rows.
PublishedOnce ==
  \A v, w \in DOMAIN versions : versions[v].of = versions[w].of => v = w

\* The rows in the panel are those of the import above them.
RowsOfTheImport ==
  \A t \in Panels : panel[t].rows # "none" => panel[t].rows = panel[t].file

=============================================================================
