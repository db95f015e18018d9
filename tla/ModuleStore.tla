---------------------------- MODULE ModuleStore ----------------------------
(***************************************************************************)
(* src/src/wasm/module_store.cpp: deployed modules as files, one directory   *)
(* per name with module.wasm and manifest.json, and the index_ over them.    *)
(* A file operation is a step, so the process can die between any two.       *)
(***************************************************************************)
EXTENDS Naturals, FiniteSets

CONSTANTS
  Savers,      \* the threads that call Save and Remove
  Names,       \* module names
  Installed,   \* the files that are there from an earlier life
  NoFile       \* no such file

VARIABLES
  files,         \* name -> [wasm, manifest] on the disk
  index,         \* index_: name -> [version, code], for the names it has
  store_mutex,   \* mutex_: who holds it
  saving         \* each thread's Save: its next step, and what it saves

storeVars == <<files, index, store_mutex, saving>>

NoFiles == [wasm |-> NoFile, manifest |-> NoFile]
NotSaving == [at |-> "none"]
Nobody == "nobody"

(* Sha256Hex: a digest stands for the code it was computed from.  A manifest *)
(* that was cut short does not parse.                                        *)
Manifest(m) == [version |-> m.version, sha256 |-> m.code]
Torn == [version |-> 0, sha256 |-> NoFile]

\* A module.wasm whose end is missing: the digest of no code.
Cut == "cut"

-----------------------------------------------------------------------------
(* Initialize: what is indexed has a manifest that parses, a module.wasm and *)
(* the digest that the manifest gives.                                       *)

\* Mutant: the digest is not compared.
IndexedUnverified(n) == files[n].manifest \notin {NoFile, Torn} /\ files[n].wasm # NoFile

Indexed(n) ==
  /\ files[n].manifest \notin {NoFile, Torn}
  /\ files[n].wasm # NoFile
  /\ files[n].manifest.sha256 = files[n].wasm

Index == [n \in {m \in Names : Indexed(m)} |->
            [version |-> files[n].manifest.version, code |-> files[n].wasm]]

StoreInit ==
  /\ files = Installed
  /\ index = Index
  /\ store_mutex = Nobody
  /\ saving = [t \in Savers |-> NotSaving]

StoreInitialize ==
  /\ index' = Index
  /\ store_mutex' = Nobody
  /\ saving' = [t \in Savers |-> NotSaving]
  /\ UNCHANGED files

-----------------------------------------------------------------------------
(* Save.  Its caller goes on when saving[t].at is "saved" or "failed".       *)
Saves(t, at) == saving[t].at = at
SaveStep(t, at) == saving' = [saving EXCEPT ![t].at = at]

SaveBegin(t, n, m) ==
  /\ Saves(t, "none") /\ store_mutex = Nobody
  /\ store_mutex' = t
  /\ saving' = [saving EXCEPT ![t] = [at |-> "tmp", name |-> n, code |-> m.code,
                                      version |-> m.version]]
  /\ UNCHANGED <<files, index>>

SaveFails(t) == SaveStep(t, "failed") /\ store_mutex' = Nobody

\* The directory and the temporary file, and the rename: nothing that
\* Initialize looks at before the rename.  What the stream still buffers is
\* written by its destructor, and nobody looks whether that worked.
SaveRename(t) ==
  /\ Saves(t, "tmp")
  /\ \/ /\ \E wasm \in {saving[t].code, Cut} :
             files' = [files EXCEPT ![saving[t].name].wasm = wasm]
        /\ SaveStep(t, "truncate") /\ UNCHANGED store_mutex
     \/ SaveFails(t) /\ UNCHANGED files
  /\ UNCHANGED index

\* The manifest is opened with trunc and written in place.
SaveTruncate(t) ==
  /\ Saves(t, "truncate")
  /\ \/ /\ files' = [files EXCEPT ![saving[t].name].manifest = Torn]
        /\ SaveStep(t, "manifest") /\ UNCHANGED store_mutex
     \/ SaveFails(t) /\ UNCHANGED files
  /\ UNCHANGED index

\* The destructor again: Save may succeed with a manifest that is cut short.
SaveManifest(t) ==
  /\ Saves(t, "manifest")
  /\ store_mutex' = Nobody
  /\ \/ /\ \E manifest \in {Manifest(saving[t]), Torn} :
             files' = [files EXCEPT ![saving[t].name].manifest = manifest]
        /\ index' = [n \in DOMAIN index \union {saving[t].name} |->
                       IF n = saving[t].name
                       THEN [version |-> saving[t].version, code |-> saving[t].code] ELSE index[n]]
        /\ SaveStep(t, "saved")
     \/ SaveStep(t, "failed") /\ UNCHANGED <<files, index>>

SaveNext(t) == SaveRename(t) \/ SaveTruncate(t) \/ SaveManifest(t)

SaveReturns(t, at) ==
  /\ Saves(t, at)
  /\ saving' = [saving EXCEPT ![t] = NotSaving]
  /\ UNCHANGED <<files, index, store_mutex>>

\* Remove: under the mutex; remove_all may fail, with a warning, before, between
\* or after the two files.
Remove(n) ==
  /\ store_mutex = Nobody
  /\ index' = [m \in DOMAIN index \ {n} |-> index[m]]
  /\ files' \in {files, [files EXCEPT ![n].wasm = NoFile],
                 [files EXCEPT ![n].manifest = NoFile], [files EXCEPT ![n] = NoFiles]}
  /\ UNCHANGED <<store_mutex, saving>>

=============================================================================
