------------------------------ MODULE BundleStore ------------------------------
(***************************************************************************)
(* The bundles in the database and the search of a worker for the bundles  *)
(* that one bundle needs.  BundleManager uploads bundles on the control    *)
(* server, one at a time; DependencyManager.resolveDependencies asks the   *)
(* database one question after the other on a worker, so that an upload    *)
(* may come in between.  Names of bundles and packages are numbers, in the *)
(* order in which a TreeSet sorts them.  A TreeSet compares names alone,   *)
(* so the versions of packages play no part.                               *)
(***************************************************************************)
EXTENDS Naturals, SequencesExt

CONSTANTS
    Names, Versions,   \* a bundle is a name and a version
    Packages,
    None,              \* null
    Libraries          \* the bundles there are; one library is chosen at first

Bundles == Names \X Versions
Manifests == [imports : SUBSET Packages, exports : SUBSET Packages]

ASSUME BundleStoreAssumption ==
    /\ Names \subseteq Nat /\ Packages \subseteq Nat \ {0}
    /\ None \notin Manifests \cup Bundles
    /\ Libraries \subseteq [Bundles -> SUBSET Manifests]

\* An entry of the table of exporters: the versions of every bundle that is in it.
Entries == [Names -> Seq(Versions)]
NoEntry == [n \in Names |-> <<>>]

VARIABLES
    library,     \* the manifests with which a bundle is uploaded
    \* the database
    files,       \* the collection of bundle files: a bundle's manifest
    table,       \* the table of exporters: a package's entry
    \* uploadBundle
    uploading,   \* the bundle that is being uploaded
    manifest,    \* its manifest
    saved,       \* its file is in the database
    exporting,   \* the packages for which updateExporter has not run yet
    removed,     \* the entry that createUpdatedProviderEntry has removed
    \* resolveDependencies
    pc,          \* the question that is asked next
    root,        \* the bundle whose dependencies are resolved
    toResolve, resolved,
    needed,      \* ret of resolve, neededBundles of orderDependencies
    ordered,     \* orderedBundles
    at,          \* the package, or the place in neededBundles, of the loop
    provider,    \* the bundle that is asked about
    abort, modified

database == <<library, files, table>>
uploadVars == <<uploading, manifest, saved, exporting, removed>>
loopVars == <<at, provider, abort, modified>>
searchVars == <<pc, root, toResolve, resolved, needed, ordered, loopVars>>
vars == <<database, uploadVars, searchVars>>

Resolving == {"next", "exports", "imports", "end"}
Ordering == {"order", "orderExports"}
Ended == {"done", "failed"}

TypeOK ==
    /\ library \in [Bundles -> SUBSET Manifests]
    /\ files \in [Bundles -> Manifests \cup {None}]
    /\ table \in [Packages -> Entries]
    /\ uploading \in Bundles \cup {None}
    /\ manifest \in Manifests \cup {None}
    /\ saved \in BOOLEAN
    /\ exporting \subseteq Packages
    /\ removed \in Entries
    /\ pc \in {"idle", "rootImports", "rootExports"} \cup Resolving \cup Ordering \cup Ended
    /\ root \in Bundles \cup {None}
    /\ toResolve \subseteq Packages /\ resolved \subseteq Packages
    /\ needed \in Seq(Bundles) /\ ordered \in Seq(Bundles)
    /\ at \in Nat
    /\ provider \in Bundles \cup {None}
    /\ abort \in BOOLEAN /\ modified \in BOOLEAN

Init ==
    /\ library \in Libraries
    /\ files = [b \in Bundles |-> None]
    /\ table = [p \in Packages |-> NoEntry]
    /\ uploading = None /\ manifest = None /\ saved = FALSE
    /\ exporting = {} /\ removed = NoEntry
    /\ pc = "idle" /\ root = None
    /\ toResolve = {} /\ resolved = {} /\ needed = <<>> /\ ordered = <<>>
    /\ at = 0 /\ provider = None /\ abort = TRUE /\ modified = FALSE

-----------------------------------------------------------------------------
(* The database.                                                           *)

\* getProviders: of several versions with one name the TreeSet keeps the first.
Providers(p) == {<<n, table[p][n][1]>> : n \in {n \in Names : table[p][n] # <<>>}}

\* exportedBy: a bundle that is not there exports nothing.  (An export without a
\* single version, which parseManifest takes for any version, would make it throw.)
ExportedBy(b) == IF files[b] = None THEN {} ELSE files[b].exports

\* getDependencies, of a bundle that is there; else it throws.
Dependencies(b) == files[b].imports

-----------------------------------------------------------------------------
(* BundleManager.                                                          *)

\* uncheckedUpload: an older file of the same descriptor is removed first.
BeginUpload(b, m) ==
    /\ uploading = None
    /\ m \in library[b]
    /\ uploading' = b /\ manifest' = m
    /\ files' = [files EXCEPT ![b] = None]
    /\ UNCHANGED <<library, table, saved, exporting, removed, searchVars>>

SaveFile ==
    /\ uploading # None /\ ~ saved
    /\ files' = [files EXCEPT ![uploading] = manifest]
    /\ exporting' = manifest.exports
    /\ saved' = TRUE
    /\ UNCHANGED <<library, table, uploading, manifest, removed, searchVars>>

\* updateExporter and the upload return.
FinishUpload ==
    /\ saved /\ exporting = {}
    /\ uploading' = None /\ manifest' = None /\ saved' = FALSE
    /\ UNCHANGED <<database, exporting, removed, searchVars>>

\* updateExporter goes through the packages in their order.
NextExport(p) == saved /\ removed = NoEntry /\ p \in exporting /\ \A q \in exporting : p <= q

\* Mutant of AlreadyProvided: any provider ends the loop.
AnybodyProvides(p) ==
    /\ NextExport(p)
    /\ Providers(p) # {}
    /\ exporting' = {}
    /\ UNCHANGED <<database, uploading, manifest, saved, removed, searchVars>>

\* A provider of the bundle's name ends the loop over the packages.
AlreadyProvided(p) ==
    /\ NextExport(p)
    /\ \E b \in Providers(p) : b[1] = uploading[1]
    /\ exporting' = {}
    /\ UNCHANGED <<database, uploading, manifest, saved, removed, searchVars>>

\* Mutant of InsertEntry: the name is put into the list of versions.
InsertName(p) ==
    /\ NextExport(p)
    /\ table[p] = NoEntry
    /\ table' = [table EXCEPT ![p][uploading[1]] = <<uploading[1]>>]
    /\ exporting' = exporting \ {p}
    /\ UNCHANGED <<library, files, uploading, manifest, saved, removed, searchVars>>

InsertEntry(p) ==
    /\ NextExport(p)
    /\ table[p] = NoEntry
    /\ table' = [table EXCEPT ![p][uploading[1]] = <<uploading[2]>>]
    /\ exporting' = exporting \ {p}
    /\ UNCHANGED <<library, files, uploading, manifest, saved, removed, searchVars>>

\* createUpdatedProviderEntry removes the entry and then inserts it again, with
\* the new version if the bundle's name was in it (which AlreadyProvided has
\* excluded), else as it was.
RemoveEntry(p) ==
    /\ NextExport(p)
    /\ table[p] # NoEntry
    /\ \A b \in Providers(p) : b[1] # uploading[1]
    /\ removed' = IF table[p][uploading[1]] = <<>> THEN table[p]
                  ELSE [table[p] EXCEPT ![uploading[1]] = Append(@, uploading[2])]
    /\ table' = [table EXCEPT ![p] = NoEntry]
    /\ UNCHANGED <<library, files, uploading, manifest, saved, exporting, searchVars>>

ReinsertEntry(p) ==
    /\ removed # NoEntry
    /\ p \in exporting /\ \A q \in exporting : p <= q
    /\ table' = [table EXCEPT ![p] = removed]
    /\ removed' = NoEntry
    /\ exporting' = exporting \ {p}
    /\ UNCHANGED <<library, files, uploading, manifest, saved, searchVars>>

Upload ==
    \/ \E b \in Bundles : \E m \in Manifests : BeginUpload(b, m)
    \/ SaveFile \/ FinishUpload
    \/ \E p \in Packages : AlreadyProvided(p) \/ InsertEntry(p) \/ RemoveEntry(p) \/ ReinsertEntry(p)

-----------------------------------------------------------------------------
(* DependencyManager.resolveDependencies, one step per question.           *)

StartSearch(b) ==
    /\ pc = "idle"
    /\ pc' = "rootImports"
    /\ root' = b
    /\ UNCHANGED <<database, uploadVars, toResolve, resolved, needed, ordered, loopVars>>

\* A bundle that getDependencies does not find ends the search.
RootImports ==
    /\ pc = "rootImports"
    /\ IF files[root] = None THEN pc' = "failed" /\ UNCHANGED toResolve
       ELSE pc' = "rootExports" /\ toResolve' = Dependencies(root)
    /\ UNCHANGED <<database, uploadVars, root, resolved, needed, ordered, loopVars>>

RootExports ==
    /\ pc = "rootExports"
    /\ resolved' = ExportedBy(root)
    /\ pc' = IF toResolve = {} THEN "done" ELSE "next"
    /\ UNCHANGED <<database, uploadVars, root, toResolve, needed, ordered, loopVars>>

\* resolve: the packages that its loop comes to after at and does not skip.
Unresolved == {p \in toResolve \ resolved : at < p}

NoProvider(p) ==
    /\ pc = "next"
    /\ p \in Unresolved /\ \A q \in Unresolved : p <= q
    /\ Providers(p) = {}
    /\ pc' = "failed"
    /\ UNCHANGED <<database, uploadVars, root, toResolve, resolved, needed, ordered, loopVars>>

\* Mutant of FirstProvider: a provider is added whether it is in needed or not.
AddProvider(p, b) ==
    /\ pc = "next"
    /\ p \in Unresolved /\ \A q \in Unresolved : p <= q
    /\ b \in Providers(p) /\ \A c \in Providers(p) : b[1] <= c[1]
    /\ needed' = Append(needed, b)
    /\ at' = p /\ provider' = b
    /\ pc' = "exports"
    /\ UNCHANGED <<database, uploadVars, root, toResolve, resolved, ordered, abort, modified>>

\* The first provider is taken.
FirstProvider(p, b) ==
    /\ pc = "next"
    /\ p \in Unresolved /\ \A q \in Unresolved : p <= q
    /\ b \in Providers(p) /\ \A c \in Providers(p) : b[1] <= c[1]
    /\ needed' = IF Contains(needed, b) THEN needed ELSE Append(needed, b)
    /\ at' = p /\ provider' = b
    /\ pc' = "exports"
    /\ UNCHANGED <<database, uploadVars, root, toResolve, resolved, ordered, abort, modified>>

ProviderExports ==
    LET exports == ExportedBy(provider)
    IN  /\ pc = "exports" /\ pc' = "imports"
        /\ toResolve' = toResolve \ exports /\ resolved' = resolved \cup exports
        /\ modified' = (toResolve \cap exports # {}) /\ abort' = (abort /\ exports = {})
        /\ UNCHANGED <<database, uploadVars, root, needed, ordered, at, provider>>

\* The loop ends after a removal.  Else it goes on, where the iterator throws if
\* there is a next package and the set has grown.
ProviderImports ==
    /\ pc = "imports"
    /\ IF files[provider] = None THEN pc' = "failed" /\ UNCHANGED toResolve
       ELSE LET new == Dependencies(provider) \ resolved
            IN  /\ toResolve' = toResolve \cup new
                /\ pc' = IF modified \/ \A p \in toResolve : p <= at THEN "end"
                         ELSE IF new \subseteq toResolve THEN "next" ELSE "failed"
    /\ UNCHANGED <<database, uploadVars, root, resolved, needed, ordered, loopVars>>

\* Mutant of EndOfLoop: the packages resolved so far are kept for the order.
EndOfLoopKeepResolved ==
    /\ pc = "end" \/ (pc = "next" /\ Unresolved = {})
    /\ abort' = TRUE /\ modified' = FALSE /\ provider' = None
    /\ \/ toResolve # {} /\ abort /\ pc' = "failed" /\ UNCHANGED at
       \/ toResolve # {} /\ ~ abort /\ pc' = "next" /\ at' = 0
       \/ toResolve = {} /\ pc' = "order" /\ at' = 1
    /\ UNCHANGED <<database, uploadVars, root, toResolve, resolved, needed, ordered>>

\* Mutant of EndOfLoop: resolve calls itself although nothing has changed.
EndOfLoopAgain ==
    /\ pc = "end" \/ (pc = "next" /\ Unresolved = {})
    /\ abort' = TRUE /\ modified' = FALSE /\ provider' = None
    /\ \/ toResolve # {} /\ pc' = "next" /\ at' = 0 /\ UNCHANGED resolved
       \/ toResolve = {} /\ pc' = "order" /\ at' = 1 /\ resolved' = {}
    /\ UNCHANGED <<database, uploadVars, root, toResolve, needed, ordered>>

\* The loop is over: resolve fails, calls itself or returns, and then
\* orderDependencies starts with a set of its own.
EndOfLoop ==
    /\ pc = "end" \/ (pc = "next" /\ Unresolved = {})
    /\ abort' = TRUE /\ modified' = FALSE /\ provider' = None
    /\ \/ toResolve # {} /\ abort /\ pc' = "failed" /\ UNCHANGED <<resolved, at>>
       \/ toResolve # {} /\ ~ abort /\ pc' = "next" /\ at' = 0 /\ UNCHANGED resolved
       \/ toResolve = {} /\ pc' = "order" /\ at' = 1 /\ resolved' = {}
    /\ UNCHANGED <<database, uploadVars, root, toResolve, needed, ordered>>

\* orderDependencies: the bundle at this place can be loaded if what it imports
\* is there; else the next one is tried.
OrderImports ==
    /\ pc = "order" /\ at <= Len(needed)
    /\ \/ files[needed[at]] = None /\ pc' = "failed" /\ UNCHANGED at
       \/ /\ files[needed[at]] # None
          /\ IF Dependencies(needed[at]) \subseteq resolved
             THEN pc' = "orderExports" /\ UNCHANGED at
             ELSE at' = at + 1 /\ UNCHANGED pc
    /\ UNCHANGED <<database, uploadVars, root, toResolve, resolved, needed, ordered, provider, abort, modified>>

OrderExports ==
    /\ pc = "orderExports"
    /\ ordered' = Append(ordered, needed[at])
    /\ resolved' = resolved \cup ExportedBy(needed[at])
    /\ needed' = RemoveAt(needed, at)
    /\ pc' = "order" /\ at' = 1
    /\ UNCHANGED <<database, uploadVars, root, toResolve, provider, abort, modified>>

EndOfOrder ==
    /\ pc = "order" /\ at > Len(needed)
    /\ pc' = IF needed = <<>> THEN "done" ELSE "failed"
    /\ UNCHANGED <<database, uploadVars, root, toResolve, resolved, needed, ordered, loopVars>>

\* A result or an exception; the variables of the next call are new.
Return ==
    /\ pc \in Ended
    /\ pc' = "idle" /\ root' = None
    /\ toResolve' = {} /\ resolved' = {} /\ needed' = <<>> /\ ordered' = <<>>
    /\ at' = 0 /\ provider' = None /\ abort' = TRUE /\ modified' = FALSE
    /\ UNCHANGED <<database, uploadVars>>

Search ==
    \/ RootImports \/ RootExports
    \/ \E p \in Packages : NoProvider(p) \/ \E b \in Bundles : FirstProvider(p, b)
    \/ ProviderExports \/ ProviderImports \/ EndOfLoop
    \/ OrderImports \/ OrderExports \/ EndOfOrder

Next == Upload \/ Search \/ Return \/ \E b \in Bundles : StartSearch(b)

\* A search that has started goes on; nothing has to be uploaded.
Spec == Init /\ [][Next]_vars /\ WF_vars(Search)

-----------------------------------------------------------------------------
(* What the search promises.                                               *)

Imports(b) == UNION {m.imports : m \in library[b]}
Exports(b) == UNION {m.exports : m \in library[b]}

\* A descriptor stands for one manifest: it is uploaded again unchanged.
Stable == \A b \in Bundles : \A m1, m2 \in library[b] : m1 = m2

\* All versions of a bundle export the same packages.
SameExports == \A n \in Names : \A v, w \in Versions :
    library[<<n, v>>] # {} /\ library[<<n, w>>] # {} => Exports(<<n, v>>) = Exports(<<n, w>>)

\* If the result of resolveDependencies is loaded in its order, every bundle
\* finds what it imports in the bundles before it, and the root in all of them,
\* whatever is uploaded again during the search.
ResultLoads ==
    pc = "done" /\ Stable =>
        /\ \A i \in DOMAIN ordered : \A p \in Imports(ordered[i]) :
               \E j \in DOMAIN ordered : j < i /\ p \in Exports(ordered[j])
        /\ \A p \in Imports(root) :
               p \in Exports(root) \/ \E j \in DOMAIN ordered : p \in Exports(ordered[j])

\* The result names no bundle twice, also when a provider's file disappears and
\* comes back between two questions about it.
NoBundleTwice ==
    pc = "done" => \A i, j \in DOMAIN ordered : ordered[i] = ordered[j] => i = j

\* When no upload is under way, every package that a stored bundle exports has a
\* provider, so a search does not fail for want of one that is there.
ExportsAreFound ==
    uploading = None /\ Stable /\ SameExports =>
        \A b \in Bundles : files[b] # None => \A p \in files[b].exports : Providers(p) # {}

\* resolveDependencies returns or throws: neither the recursion of resolve nor
\* the loop of orderDependencies goes on for ever.
EverySearchEnds == Stable /\ pc = "rootImports" ~> pc \in Ended
=============================================================================
