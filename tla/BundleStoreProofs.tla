--------------------------- MODULE BundleStoreProofs ---------------------------
(* The search of BundleStore for any library and any number of names: its     *)
(* result can be loaded in its order.                                         *)
EXTENDS BundleStore, SequenceTheorems, TLAPS

\* What is stored, or about to be, are manifests of the library.
FilesOfLibrary ==
    /\ \A b \in Bundles : files[b] # None => files[b] \in library[b]
    /\ uploading # None => manifest \in library[uploading]

\* Being in a list, and being exported by a bundle of it.
Listed(b, list) == \E i \in DOMAIN list : list[i] = b
ExportedIn(p, list) == \E i \in DOMAIN list : p \in Exports(list[i])

\* What the root imports is resolved, or will be, by the bundles found so far.
RootIsCovered ==
    /\ pc \in {"idle", "rootImports", "rootExports"} => needed = <<>>
    /\ pc \in {"idle", "rootImports", "rootExports"} \cup Resolving => ordered = <<>>
    /\ pc \notin {"idle", "failed"} => root \in Bundles
    /\ pc = "rootExports" => Imports(root) \subseteq toResolve
    /\ pc \in Resolving => Imports(root) \subseteq toResolve \cup resolved
    /\ pc \in Resolving => \A p \in resolved : p \in Exports(root) \/ ExportedIn(p, needed)
    /\ pc \in {"exports", "imports"} => provider \in Bundles /\ Listed(provider, needed)
    /\ pc \in Ordering \cup {"done"} => \A p \in Imports(root) :
           p \in Exports(root) \/ ExportedIn(p, needed) \/ ExportedIn(p, ordered)

\* The bundles that have been ordered can be loaded in their order.
OrderLoads ==
    /\ pc \in Ordering => at >= 1 /\ \A p \in resolved : ExportedIn(p, ordered)
    /\ pc = "orderExports" => at <= Len(needed) /\ Imports(needed[at]) \subseteq resolved
    /\ pc = "done" => needed = <<>>
    /\ \A i \in DOMAIN ordered : \A p \in Imports(ordered[i]) :
           \E j \in DOMAIN ordered : j < i /\ p \in Exports(ordered[j])

\* The inductive invariant of the search, beside the types.
SearchInv == FilesOfLibrary /\ (Stable => RootIsCovered /\ OrderLoads)

-----------------------------------------------------------------------------
(* Lists of bundles.                                                       *)

\* A list that grows at its end keeps its elements.
LEMMA AppendedList ==
    ASSUME NEW S, NEW s \in Seq(S), NEW e \in S
    PROVE  /\ Append(s, e) \in Seq(S)
           /\ DOMAIN Append(s, e) = 1 .. Len(s) + 1
           /\ \A i \in DOMAIN s : i \in DOMAIN Append(s, e) /\ Append(s, e)[i] = s[i]
           /\ Append(s, e)[Len(s) + 1] = e
  BY AppendProperties, LenProperties

\* A list that loses the element at i: what stood behind it moves up.
LEMMA RemovedAt ==
    ASSUME NEW S, NEW s \in Seq(S), NEW i \in DOMAIN s
    PROVE  /\ RemoveAt(s, i) \in Seq(S)
           /\ DOMAIN RemoveAt(s, i) = 1 .. Len(s) - 1
           /\ \A k \in 1 .. Len(s) - 1 : RemoveAt(s, i)[k] = IF k < i THEN s[k] ELSE s[k + 1]
<1> DEFINE a == SubSeq(s, 1, i - 1)
           z == SubSeq(s, i + 1, Len(s))
<1>1. Len(s) \in Nat /\ DOMAIN s = 1 .. Len(s)
  BY LenProperties
<1>2. a \in Seq(S) /\ Len(a) = i - 1 /\ \A j \in 1 .. i - 1 : a[j] = s[j]
  BY <1>1, SubSeqProperties
<1>3. z \in Seq(S) /\ Len(z) = Len(s) - i /\ \A j \in 1 .. Len(s) - i : z[j] = s[i + j]
  BY <1>1, SubSeqProperties
<1>4. RemoveAt(s, i) = a \o z
  BY DEF RemoveAt
<1>. HIDE DEF a, z
<1>5. a \o z \in Seq(S) /\ Len(a \o z) = Len(a) + Len(z) /\ Len(a) + Len(z) = Len(s) - 1
  BY <1>1, <1>2, <1>3, ConcatProperties
<1>6. DOMAIN RemoveAt(s, i) = 1 .. Len(s) - 1
  BY <1>4, <1>5, LenProperties
<1>7. \A k \in 1 .. Len(a) + Len(z) : (a \o z)[k] = IF k <= Len(a) THEN a[k] ELSE z[k - Len(a)]
  BY <1>2, <1>3, ConcatProperties
<1>8. ASSUME NEW k \in 1 .. Len(s) - 1, k < i PROVE (a \o z)[k] = s[k]
  BY <1>1, <1>2, <1>5, <1>7, <1>8
<1>9. ASSUME NEW k \in 1 .. Len(s) - 1, ~ (k < i) PROVE (a \o z)[k] = s[k + 1]
  <2>1. k \in 1 .. Len(a) + Len(z) /\ ~ (k <= Len(a)) /\ k - Len(a) \in 1 .. Len(s) - i
    BY <1>1, <1>2, <1>5, <1>9
  <2>2. (a \o z)[k] = z[k - Len(a)]
    BY <1>7, <2>1
  <2>3. z[k - Len(a)] = s[i + (k - Len(a))]
    BY <1>3, <2>1
  <2>4. i + (k - Len(a)) = k + 1
    BY <1>1, <1>2, <1>9
  <2> QED
    BY <2>2, <2>3, <2>4
<1> QED
  BY <1>4, <1>5, <1>6, <1>8, <1>9

\* It keeps all the others.
LEMMA ShortenedList ==
    ASSUME NEW S, NEW s \in Seq(S), NEW i \in DOMAIN s
    PROVE  /\ RemoveAt(s, i) \in Seq(S)
           /\ \A j \in DOMAIN s : j # i => \E k \in DOMAIN RemoveAt(s, i) : RemoveAt(s, i)[k] = s[j]
<1>1. Len(s) \in Nat /\ DOMAIN s = 1 .. Len(s)
  BY LenProperties
<1>2. ASSUME NEW j \in DOMAIN s, j # i
      PROVE  \E k \in DOMAIN RemoveAt(s, i) : RemoveAt(s, i)[k] = s[j]
  <2>1. CASE j < i
    <3>1. j \in 1 .. Len(s) - 1
      BY <1>1, <2>1
    <3> QED
      BY <2>1, <3>1, RemovedAt
  <2>2. CASE j > i
    <3>1. j - 1 \in 1 .. Len(s) - 1 /\ ~ (j - 1 < i) /\ (j - 1) + 1 = j
      BY <1>1, <2>2
    <3>2. RemoveAt(s, i)[j - 1] = s[(j - 1) + 1]
      BY <3>1, RemovedAt
    <3> QED
      BY <3>1, <3>2, RemovedAt
  <2> QED
    BY <1>1, <1>2, <2>1, <2>2
<1> QED
  BY <1>2, RemovedAt

-----------------------------------------------------------------------------
(* The types.                                                              *)

\* The places of the upload and of the search at which a variable is not null.
NotNull ==
    /\ uploading # None => manifest # None
    /\ saved => uploading # None
    /\ pc \in {"rootImports", "rootExports"} => root # None
    /\ pc \in {"exports", "imports"} => provider # None
    /\ pc = "order" => at >= 1
    /\ pc = "orderExports" => at \in DOMAIN needed

\* The types, inductive together with the places.
TypeInv == TypeOK /\ NotNull

\* The initial state has the types.
LEMMA InitTyped == Init => TypeInv
<1> SUFFICES ASSUME Init PROVE TypeInv
  OBVIOUS
<1>1. NoEntry \in Entries
  BY EmptySeq DEF NoEntry, Entries
<1>2. library \in [Bundles -> SUBSET Manifests]
  BY BundleStoreAssumption DEF Init
<1>3. needed \in Seq(Bundles) /\ ordered \in Seq(Bundles)
  BY EmptySeq DEF Init
<1>4. TypeOK
  BY <1>1, <1>2, <1>3 DEF Init, TypeOK
<1>5. NotNull
  BY DEF Init, NotNull
<1> QED
  BY <1>4, <1>5 DEF TypeInv

\* A name and a version of a bundle, and the entries it occurs in.
LEMMA EntryTyped ==
    ASSUME NEW b \in Bundles, NEW e \in Entries
    PROVE  /\ b[1] \in Names /\ b[2] \in Versions
           /\ NoEntry \in Entries
           /\ [e EXCEPT ![b[1]] = <<b[2]>>] \in Entries
           /\ [e EXCEPT ![b[1]] = Append(@, b[2])] \in Entries
<1>1. b[1] \in Names /\ b[2] \in Versions
  BY DEF Bundles
<1>2. <<b[2]>> \in Seq(Versions)
  BY <1>1
<1>3. Append(e[b[1]], b[2]) \in Seq(Versions)
  BY <1>1, AppendProperties DEF Entries
<1>4. NoEntry \in Entries
  BY EmptySeq DEF NoEntry, Entries
<1>5. [e EXCEPT ![b[1]] = <<b[2]>>] \in Entries
  BY <1>1, <1>2 DEF Entries
<1>6. [e EXCEPT ![b[1]] = Append(e[b[1]], b[2])] \in Entries
  BY <1>1, <1>3 DEF Entries
<1> QED
  BY <1>1, <1>4, <1>5, <1>6

\* Every step of an upload keeps the types.
LEMMA UploadTyped == TypeInv /\ Upload => TypeInv'
<1> SUFFICES ASSUME TypeInv, Upload PROVE TypeInv'
  OBVIOUS
<1>0. TypeOK /\ NotNull
  BY DEF TypeInv
<1>s. ASSUME UNCHANGED <<library, searchVars>>,
             files' \in [Bundles -> Manifests \cup {None}],
             table' \in [Packages -> Entries],
             uploading' \in Bundles \cup {None},
             manifest' \in Manifests \cup {None},
             saved' \in BOOLEAN,
             exporting' \subseteq Packages,
             removed' \in Entries,
             uploading' # None => manifest' # None,
             saved' => uploading' # None
      PROVE  TypeInv'
  BY <1>0, <1>s DEF TypeInv, TypeOK, NotNull, searchVars, loopVars
<1>1. ASSUME NEW b \in Bundles, NEW m \in Manifests, BeginUpload(b, m) PROVE TypeInv'
  BY <1>0, <1>1, <1>s, BundleStoreAssumption DEF BeginUpload, TypeOK, NotNull
<1>2. CASE SaveFile
  <2>1. uploading \in Bundles /\ manifest \in Manifests
    BY <1>0, <1>2 DEF SaveFile, TypeOK, NotNull
  <2>2. manifest.exports \subseteq Packages
    BY <2>1 DEF Manifests
  <2>3. files' \in [Bundles -> Manifests \cup {None}]
    BY <1>0, <1>2, <2>1 DEF SaveFile, TypeOK
  <2> QED
    BY <1>0, <1>2, <1>s, <2>1, <2>2, <2>3 DEF SaveFile, TypeOK, NotNull
<1>3. CASE FinishUpload
  BY <1>0, <1>3, <1>s DEF FinishUpload, database, TypeOK, NotNull
<1>4. ASSUME NEW p \in Packages, AlreadyProvided(p) PROVE TypeInv'
  BY <1>0, <1>4, <1>s DEF AlreadyProvided, database, TypeOK, NotNull
<1>5. ASSUME NEW p \in Packages, InsertEntry(p) PROVE TypeInv'
  <2>1. uploading \in Bundles
    BY <1>0, <1>5 DEF InsertEntry, NextExport, TypeOK, NotNull
  <2>2. [table[p] EXCEPT ![uploading[1]] = <<uploading[2]>>] \in Entries
    BY <1>0, <2>1, EntryTyped DEF TypeOK
  <2>3. table' = [table EXCEPT ![p] = [table[p] EXCEPT ![uploading[1]] = <<uploading[2]>>]]
    BY <1>5 DEF InsertEntry
  <2>4. table' \in [Packages -> Entries]
    BY <1>0, <2>2, <2>3 DEF TypeOK
  <2> QED
    BY <1>0, <1>5, <1>s, <2>4 DEF InsertEntry, TypeOK, NotNull
<1>6. ASSUME NEW p \in Packages, RemoveEntry(p) PROVE TypeInv'
  <2>1. uploading \in Bundles /\ table[p] \in Entries
    BY <1>0, <1>6 DEF RemoveEntry, NextExport, TypeOK, NotNull
  <2>2. removed' \in Entries
    BY <1>6, <2>1, EntryTyped DEF RemoveEntry
  <2>3. table' \in [Packages -> Entries]
    BY <1>0, <1>6, <2>1, EntryTyped DEF RemoveEntry, TypeOK
  <2> QED
    BY <1>0, <1>6, <1>s, <2>2, <2>3 DEF RemoveEntry, TypeOK, NotNull
<1>7. ASSUME NEW p \in Packages, ReinsertEntry(p) PROVE TypeInv'
  <2>1. NoEntry \in Entries
    BY EmptySeq DEF NoEntry, Entries
  <2> QED
    BY <1>0, <1>7, <1>s, <2>1 DEF ReinsertEntry, TypeOK, NotNull
<1> QED
  BY <1>1, <1>2, <1>3, <1>4, <1>5, <1>6, <1>7 DEF Upload

\* Every step of a search, its begin and its end keep the types.
LEMMA SearchTyped ==
    TypeInv /\ (Search \/ Return \/ \E b \in Bundles : StartSearch(b)) => TypeInv'
<1> SUFFICES ASSUME TypeInv, Search \/ Return \/ \E b \in Bundles : StartSearch(b) PROVE TypeInv'
  OBVIOUS
<1>0. TypeOK /\ NotNull
  BY DEF TypeInv
<1>s. ASSUME UNCHANGED <<database, uploadVars>>,
             pc' \in {"idle", "rootImports", "rootExports"} \cup Resolving \cup Ordering \cup Ended,
             root' \in Bundles \cup {None},
             toResolve' \subseteq Packages, resolved' \subseteq Packages,
             needed' \in Seq(Bundles), ordered' \in Seq(Bundles),
             at' \in Nat, provider' \in Bundles \cup {None},
             abort' \in BOOLEAN, modified' \in BOOLEAN,
             pc' \in {"rootImports", "rootExports"} => root' # None,
             pc' \in {"exports", "imports"} => provider' # None,
             pc' = "order" => at' >= 1,
             pc' = "orderExports" => at' \in DOMAIN needed'
      PROVE  TypeInv'
  BY <1>0, <1>s DEF TypeInv, TypeOK, NotNull, database, uploadVars
<1>e. ASSUME NEW b \in Bundles
      PROVE  /\ ExportedBy(b) \subseteq Packages
             /\ files[b] # None => files[b].imports \subseteq Packages
  BY <1>0 DEF TypeOK, ExportedBy, Manifests
<1> USE DEF TypeOK, NotNull, loopVars, Resolving, Ordering, Ended
<1>1. ASSUME NEW b \in Bundles, StartSearch(b) PROVE TypeInv'
  BY <1>0, <1>1, <1>s, BundleStoreAssumption DEF StartSearch
<1>2. CASE RootImports
  <2>1. root \in Bundles
    BY <1>0, <1>2 DEF RootImports, Dependencies
  <2>2. toResolve' \subseteq Packages
    BY <1>0, <1>2, <1>e, <2>1 DEF RootImports, Dependencies
  <2> QED
    BY <1>0, <1>2, <1>s, <2>1, <2>2 DEF RootImports, Dependencies
<1>3. CASE RootExports
  <2>1. root \in Bundles
    BY <1>0, <1>3 DEF RootExports
  <2>2. resolved' \subseteq Packages
    BY <1>3, <1>e, <2>1 DEF RootExports
  <2> QED
    BY <1>0, <1>3, <1>s, <2>2 DEF RootExports
<1>4. ASSUME NEW p \in Packages, NoProvider(p) PROVE TypeInv'
  BY <1>0, <1>4, <1>s DEF NoProvider
<1>5. ASSUME NEW p \in Packages, NEW b \in Bundles, FirstProvider(p, b) PROVE TypeInv'
  <2>1. needed' \in Seq(Bundles)
    BY <1>0, <1>5, AppendProperties DEF FirstProvider
  <2>2. p \in Nat /\ b # None
    BY BundleStoreAssumption
  <2> QED
    BY <1>0, <1>5, <1>s, <2>1, <2>2 DEF FirstProvider
<1>6. CASE ProviderExports
  <2>0. provider \in Bundles
    BY <1>0, <1>6 DEF ProviderExports
  <2>1. ExportedBy(provider) \subseteq Packages
    BY <1>e, <2>0
  <2> QED
    BY <1>0, <1>6, <1>s, <2>1 DEF ProviderExports
<1>7. CASE ProviderImports
  <2>1. provider \in Bundles
    BY <1>0, <1>7 DEF ProviderImports, Dependencies
  <2>2. toResolve' \subseteq Packages
    BY <1>0, <1>7, <1>e, <2>1 DEF ProviderImports, Dependencies
  <2> QED
    BY <1>0, <1>7, <1>s, <2>1, <2>2 DEF ProviderImports, Dependencies
<1>8. CASE EndOfLoop
  <2>1. /\ pc' \in {"failed", "next", "order"} /\ (pc' = "order" => at' = 1)
        /\ at' \in Nat /\ resolved' \subseteq Packages
    BY <1>0, <1>8 DEF EndOfLoop
  <2>2. /\ abort' = TRUE /\ modified' = FALSE /\ provider' = None
        /\ UNCHANGED <<database, uploadVars, root, toResolve, needed, ordered>>
    BY <1>8 DEF EndOfLoop
  <2>3. /\ pc' \in {"idle", "rootImports", "rootExports"} \cup Resolving \cup Ordering \cup Ended
        /\ pc' \notin {"rootImports", "rootExports", "exports", "imports", "orderExports"}
        /\ pc' = "order" => at' >= 1
    BY <2>1
  <2>4. /\ root' \in Bundles \cup {None} /\ provider' \in Bundles \cup {None}
        /\ toResolve' \subseteq Packages
        /\ needed' \in Seq(Bundles) /\ ordered' \in Seq(Bundles)
        /\ abort' \in BOOLEAN /\ modified' \in BOOLEAN
    BY <1>0, <2>2
  <2>5. UNCHANGED <<database, uploadVars>>
    BY <2>2
  <2> HIDE DEF TypeOK, NotNull, Resolving, Ordering, Ended
  <2> QED
    BY <1>s, <2>1, <2>3, <2>4, <2>5
<1>9. CASE OrderImports
  <2>1. at \in DOMAIN needed /\ at \in Nat /\ at + 1 \in Nat /\ at + 1 >= 1
    BY <1>0, <1>9, LenProperties DEF OrderImports, Dependencies
  <2> QED
    BY <1>0, <1>9, <1>s, <2>1 DEF OrderImports, Dependencies
<1>10. CASE OrderExports
  <2>1. at \in DOMAIN needed /\ needed[at] \in Bundles
    BY <1>0, <1>10, ElementOfSeq, LenProperties DEF OrderExports
  <2>2. needed' \in Seq(Bundles)
    BY <1>0, <1>10, <2>1, ShortenedList DEF OrderExports
  <2>3. ordered' \in Seq(Bundles)
    BY <1>0, <1>10, <2>1, AppendProperties DEF OrderExports
  <2>4. resolved' \subseteq Packages
    BY <1>0, <1>10, <1>e, <2>1 DEF OrderExports
  <2> QED
    BY <1>0, <1>10, <1>s, <2>2, <2>3, <2>4 DEF OrderExports
<1>11. CASE EndOfOrder
  BY <1>0, <1>11, <1>s DEF EndOfOrder
<1>12. CASE Return
  BY <1>0, <1>12, <1>s, EmptySeq DEF Return
<1> QED
  BY <1>1, <1>2, <1>3, <1>4, <1>5, <1>6, <1>7, <1>8, <1>9, <1>10, <1>11, <1>12 DEF Search

\* Every step keeps the types.
LEMMA NextTyped == TypeInv /\ [Next]_vars => TypeInv'
<1>1. TypeInv /\ UNCHANGED vars => TypeInv'
  BY DEF TypeInv, TypeOK, NotNull, vars, database, uploadVars, searchVars, loopVars
<1> QED
  BY <1>1, UploadTyped, SearchTyped DEF Next

\* The variables of BundleStore always have their types.
THEOREM TypesAlways == Spec => []TypeOK
<1>1. TypeInv /\ [Next]_vars => TypeInv'
  BY NextTyped
<1>2. TypeInv => TypeOK
  BY DEF TypeInv
<1> QED
  BY InitTyped, <1>1, <1>2, PTL DEF Spec

-----------------------------------------------------------------------------
(* The result.                                                             *)

\* The files in the database stay manifests of the library.
LEMMA UploadFiles == TypeInv /\ FilesOfLibrary /\ Upload => FilesOfLibrary'
<1> SUFFICES ASSUME TypeInv, FilesOfLibrary, Upload PROVE FilesOfLibrary'
  OBVIOUS
<1>0. TypeOK /\ NotNull
  BY DEF TypeInv
<1>1. ASSUME NEW b \in Bundles, NEW m \in Manifests, BeginUpload(b, m) PROVE FilesOfLibrary'
  BY <1>0, <1>1 DEF BeginUpload, FilesOfLibrary, TypeOK
<1>2. CASE SaveFile
  BY <1>0, <1>2 DEF SaveFile, FilesOfLibrary, TypeOK
<1>3. CASE FinishUpload
  BY <1>3 DEF FinishUpload, FilesOfLibrary, database
<1>4. ASSUME NEW p \in Packages,
             AlreadyProvided(p) \/ InsertEntry(p) \/ RemoveEntry(p) \/ ReinsertEntry(p)
      PROVE  FilesOfLibrary'
  BY <1>4 DEF AlreadyProvided, InsertEntry, RemoveEntry, ReinsertEntry, FilesOfLibrary, database
<1> QED
  BY <1>1, <1>2, <1>3, <1>4 DEF Upload

\* What the database answers about a bundle is what the library says of it.
LEMMA AnswerOfLibrary ==
    ASSUME FilesOfLibrary, NEW b \in Bundles
    PROVE  /\ ExportedBy(b) \subseteq Exports(b)
           /\ Stable /\ files[b] # None => files[b].imports = Imports(b)
  BY DEF FilesOfLibrary, Stable, ExportedBy, Exports, Imports

\* Nothing that the result depends on is changed by an upload.
LEMMA UploadKeepsSearch ==
    RootIsCovered /\ OrderLoads /\ UNCHANGED <<library, searchVars>> => (RootIsCovered /\ OrderLoads)'
  BY DEF RootIsCovered, OrderLoads, searchVars, loopVars, Imports, Exports, ExportedIn, Listed

\* The same invariants of the next state, with the library as it was.
LEMMA NextCovered ==
    ASSUME library' = library,
           pc' \in {"idle", "rootImports", "rootExports"} => needed' = <<>>,
           pc' \in {"idle", "rootImports", "rootExports"} \cup Resolving => ordered' = <<>>,
           pc' \notin {"idle", "failed"} => root' \in Bundles,
           pc' = "rootExports" => Imports(root') \subseteq toResolve',
           pc' \in Resolving => Imports(root') \subseteq toResolve' \cup resolved',
           pc' \in Resolving => \A p \in resolved' : p \in Exports(root') \/ ExportedIn(p, needed'),
           pc' \in {"exports", "imports"} => provider' \in Bundles /\ Listed(provider', needed'),
           pc' \in Ordering \cup {"done"} => \A p \in Imports(root') :
               p \in Exports(root') \/ ExportedIn(p, needed') \/ ExportedIn(p, ordered')
    PROVE  RootIsCovered'
  BY DEF RootIsCovered, Imports, Exports, ExportedIn, Listed, Resolving, Ordering

\* ... and that of the order.
LEMMA NextLoads ==
    ASSUME library' = library,
           pc' \in Ordering => at' >= 1 /\ \A p \in resolved' : ExportedIn(p, ordered'),
           pc' = "orderExports" => at' <= Len(needed') /\ Imports(needed'[at']) \subseteq resolved',
           pc' = "done" => needed' = <<>>,
           \A i \in DOMAIN ordered' : \A p \in Imports(ordered'[i]) :
               \E j \in DOMAIN ordered' : j < i /\ p \in Exports(ordered'[j])
    PROVE  OrderLoads'
  BY DEF OrderLoads, Imports, Exports, ExportedIn, Ordering

\* A step of a search keeps the invariants of its result.
LEMMA SearchKeepsResult ==
    ASSUME TypeInv, FilesOfLibrary, Stable, RootIsCovered, OrderLoads,
           Search \/ Return \/ \E b \in Bundles : StartSearch(b)
    PROVE  RootIsCovered' /\ OrderLoads'
<1>0. TypeOK /\ NotNull
  BY DEF TypeInv
<1>l. library' = library
  BY DEF Search, StartSearch, RootImports, RootExports, NoProvider, FirstProvider,
     ProviderExports, ProviderImports, EndOfLoop, OrderImports, OrderExports, EndOfOrder,
     Return, database
<1> USE DEF loopVars, Resolving, Ordering
<1>1. ASSUME NEW b \in Bundles, StartSearch(b) PROVE RootIsCovered' /\ OrderLoads'
  <2>1. pc = "idle" /\ pc' = "rootImports" /\ root' = b /\ UNCHANGED <<needed, ordered>>
    BY <1>1 DEF StartSearch
  <2>2. needed = <<>> /\ ordered = <<>>
    BY <2>1 DEF RootIsCovered
  <2>3. RootIsCovered'
    BY <1>l, <2>1, <2>2, NextCovered
  <2> QED
    BY <1>l, <2>1, <2>3, NextLoads DEF OrderLoads
<1>2. CASE RootImports
  <2>1. /\ pc = "rootImports" /\ pc' \in {"failed", "rootExports"}
        /\ UNCHANGED <<root, needed, ordered>>
        /\ pc' = "rootExports" => files[root] # None /\ toResolve' = files[root].imports
    BY <1>2 DEF RootImports, Dependencies
  <2>2. root \in Bundles /\ needed = <<>> /\ ordered = <<>>
    BY <2>1 DEF RootIsCovered
  <2>3. pc' = "rootExports" => Imports(root') \subseteq toResolve'
    BY <2>1, <2>2, AnswerOfLibrary
  <2>4. RootIsCovered'
    BY <1>l, <2>1, <2>2, <2>3, NextCovered
  <2> QED
    BY <1>l, <2>1, <2>4, NextLoads DEF OrderLoads
<1>3. CASE RootExports
  <2>1. /\ pc = "rootExports" /\ pc' = (IF toResolve = {} THEN "done" ELSE "next")
        /\ UNCHANGED <<root, toResolve, needed, ordered>>
        /\ resolved' = ExportedBy(root)
    BY <1>3 DEF RootExports
  <2>2. /\ root \in Bundles /\ needed = <<>> /\ ordered = <<>>
        /\ Imports(root) \subseteq toResolve
    BY <2>1 DEF RootIsCovered
  <2>3. \A p \in resolved' : p \in Exports(root')
    BY <2>1, <2>2, AnswerOfLibrary
  <2>4. RootIsCovered'
    BY <1>l, <2>1, <2>2, <2>3, NextCovered
  <2> QED
    BY <1>l, <2>1, <2>2, <2>4, NextLoads DEF OrderLoads
<1>4. ASSUME NEW p \in Packages, NoProvider(p) PROVE RootIsCovered' /\ OrderLoads'
  <2>1. pc' = "failed" /\ UNCHANGED <<root, ordered>>
    BY <1>4 DEF NoProvider
  <2>2. RootIsCovered'
    BY <1>l, <2>1, NextCovered
  <2> QED
    BY <1>l, <2>1, <2>2, NextLoads DEF OrderLoads
<1>5. ASSUME NEW p \in Packages, NEW b \in Bundles, FirstProvider(p, b)
      PROVE  RootIsCovered' /\ OrderLoads'
  <2>1. /\ pc = "next" /\ pc' = "exports" /\ provider' = b
        /\ UNCHANGED <<root, toResolve, resolved, ordered>>
        /\ needed' = IF Contains(needed, b) THEN needed ELSE Append(needed, b)
    BY <1>5 DEF FirstProvider
  <2>2. needed \in Seq(Bundles) /\ DOMAIN needed = 1 .. Len(needed)
    BY <1>0, LenProperties DEF TypeOK
  <2>3. /\ Listed(b, needed')
        /\ \A i \in DOMAIN needed : i \in DOMAIN needed' /\ needed'[i] = needed[i]
    <3>1. CASE Contains(needed, b)
      BY <2>1, <2>2, <3>1 DEF Contains, Listed
    <3>2. CASE ~ Contains(needed, b)
      <4>1. needed' = Append(needed, b)
        BY <2>1, <3>2
      <4>2. Len(needed) + 1 \in DOMAIN needed' /\ needed'[Len(needed) + 1] = b
        BY <2>2, <4>1, AppendedList, LenProperties
      <4> QED
        BY <2>2, <4>1, <4>2, AppendedList DEF Listed
    <3> QED
      BY <3>1, <3>2
  <2>4. \A q \in resolved' : q \in Exports(root') \/ ExportedIn(q, needed')
    BY <2>1, <2>3 DEF RootIsCovered, ExportedIn
  <2>5. RootIsCovered'
    BY <1>l, <2>1, <2>3, <2>4, NextCovered DEF RootIsCovered
  <2> QED
    BY <1>l, <2>1, <2>5, NextLoads DEF OrderLoads
<1>6. CASE ProviderExports
  <2>1. /\ pc = "exports" /\ pc' = "imports"
        /\ UNCHANGED <<root, needed, ordered, provider>>
        /\ toResolve' = toResolve \ ExportedBy(provider)
        /\ resolved' = resolved \cup ExportedBy(provider)
    BY <1>6 DEF ProviderExports
  <2>2. \A p \in ExportedBy(provider) : ExportedIn(p, needed)
    BY <2>1, AnswerOfLibrary DEF RootIsCovered, Listed, ExportedIn
  <2>3. \A p \in resolved' : p \in Exports(root') \/ ExportedIn(p, needed')
    BY <2>1, <2>2 DEF RootIsCovered
  <2>4. Imports(root') \subseteq toResolve' \cup resolved'
    BY <2>1 DEF RootIsCovered
  <2>5. RootIsCovered'
    BY <1>l, <2>1, <2>3, <2>4, NextCovered DEF RootIsCovered
  <2> QED
    BY <1>l, <2>1, <2>5, NextLoads DEF OrderLoads
<1>7. CASE ProviderImports
  <2>1. /\ pc = "imports" /\ pc' \in {"failed", "end", "next"}
        /\ UNCHANGED <<root, resolved, needed, ordered, provider>>
        /\ toResolve \subseteq toResolve'
    BY <1>7 DEF ProviderImports, Dependencies
  <2>2. RootIsCovered'
    BY <1>l, <2>1, NextCovered DEF RootIsCovered
  <2> QED
    BY <1>l, <2>1, <2>2, NextLoads DEF OrderLoads
<1>8. CASE EndOfLoop
  <2>1. /\ pc \in {"end", "next"}
        /\ UNCHANGED <<root, toResolve, needed, ordered>>
        /\ \/ pc' = "failed"
           \/ pc' = "next" /\ resolved' = resolved
           \/ pc' = "order" /\ toResolve = {} /\ at' = 1 /\ resolved' = {}
    BY <1>8 DEF EndOfLoop
  <2>2. pc' = "order" => \A p \in Imports(root) : p \in Exports(root) \/ ExportedIn(p, needed)
    BY <2>1 DEF RootIsCovered
  <2>3. RootIsCovered'
    BY <1>l, <2>1, <2>2, NextCovered DEF RootIsCovered
  <2> QED
    BY <1>l, <2>1, <2>3, NextLoads DEF OrderLoads
<1>9. CASE OrderImports
  <2>1. /\ pc = "order" /\ at <= Len(needed)
        /\ UNCHANGED <<root, resolved, needed, ordered>>
        /\ \/ pc' = "failed"
           \/ pc' = "order" /\ at' = at + 1
           \/ /\ pc' = "orderExports" /\ at' = at
              /\ files[needed[at]] # None /\ files[needed[at]].imports \subseteq resolved
    BY <1>9 DEF OrderImports, Dependencies
  <2>2. at \in DOMAIN needed /\ needed[at] \in Bundles /\ at \in Nat
    BY <1>0, <2>1, LenProperties, ElementOfSeq DEF TypeOK, NotNull
  <2>3. pc' = "orderExports" => Imports(needed[at]) \subseteq resolved
    BY <2>1, <2>2, AnswerOfLibrary
  <2>4. RootIsCovered'
    BY <1>l, <2>1, NextCovered DEF RootIsCovered
  <2>5. pc' \in Ordering => at' >= 1
    BY <1>0, <2>1, <2>2 DEF NotNull
  <2>6. pc' # "done"
    BY <2>1
  <2>7. \A p \in resolved' : ExportedIn(p, ordered')
    BY <2>1 DEF OrderLoads
  <2>8. pc' = "orderExports" => at' <= Len(needed') /\ Imports(needed'[at']) \subseteq resolved'
    BY <2>1, <2>3
  <2>9. \A i \in DOMAIN ordered' : \A p \in Imports(ordered'[i]) :
               \E j \in DOMAIN ordered' : j < i /\ p \in Exports(ordered'[j])
    BY <2>1 DEF OrderLoads
  <2> QED
    BY <1>l, <2>4, <2>5, <2>6, <2>7, <2>8, <2>9, NextLoads
<1>10. CASE OrderExports
  <2>1. /\ pc = "orderExports" /\ pc' = "order" /\ at' = 1 /\ UNCHANGED root
        /\ ordered' = Append(ordered, needed[at])
        /\ resolved' = resolved \cup ExportedBy(needed[at])
        /\ needed' = RemoveAt(needed, at)
    BY <1>10 DEF OrderExports
  <2>2. /\ at \in DOMAIN needed /\ needed[at] \in Bundles
        /\ needed \in Seq(Bundles) /\ ordered \in Seq(Bundles)
        /\ DOMAIN ordered = 1 .. Len(ordered) /\ Len(ordered) \in Nat
    BY <1>0, <2>1, LenProperties, ElementOfSeq DEF TypeOK, NotNull
  <2>3. /\ DOMAIN ordered' = 1 .. Len(ordered) + 1
        /\ \A i \in DOMAIN ordered : i \in DOMAIN ordered' /\ ordered'[i] = ordered[i]
        /\ Len(ordered) + 1 \in DOMAIN ordered'
        /\ ordered'[Len(ordered) + 1] = needed[at]
    BY <2>1, <2>2, AppendedList
  <2>4. \A j \in DOMAIN needed : j # at => \E k \in DOMAIN needed' : needed'[k] = needed[j]
    BY <2>1, <2>2, ShortenedList
  <2>5. \A p : ExportedIn(p, ordered) => ExportedIn(p, ordered')
    BY <2>3 DEF ExportedIn
  <2>6. \A p \in Exports(needed[at]) : ExportedIn(p, ordered')
    BY <2>3 DEF ExportedIn
  <2>7. \A p : ExportedIn(p, needed) => ExportedIn(p, needed') \/ ExportedIn(p, ordered')
    <3> SUFFICES ASSUME NEW p, NEW j \in DOMAIN needed, p \in Exports(needed[j])
                 PROVE  ExportedIn(p, needed') \/ ExportedIn(p, ordered')
      BY DEF ExportedIn
    <3>1. CASE j = at
      BY <2>6, <3>1
    <3>2. CASE j # at
      BY <2>4, <3>2 DEF ExportedIn
    <3> QED
      BY <3>1, <3>2
  <2>8. \A p \in Imports(root') :
            p \in Exports(root') \/ ExportedIn(p, needed') \/ ExportedIn(p, ordered')
    BY <2>1, <2>5, <2>7 DEF RootIsCovered
  <2>9. RootIsCovered'
    BY <1>l, <2>1, <2>8, NextCovered DEF RootIsCovered
  <2>10. \A p \in resolved' : ExportedIn(p, ordered')
    <3>1. \A p \in resolved : ExportedIn(p, ordered)
      BY <2>1 DEF OrderLoads
    <3>2. \A p \in ExportedBy(needed[at]) : p \in Exports(needed[at])
      BY <2>2, AnswerOfLibrary
    <3> QED
      BY <2>1, <2>5, <2>6, <3>1, <3>2
  <2>11. ASSUME NEW i \in DOMAIN ordered', NEW p \in Imports(ordered'[i])
         PROVE  \E j \in DOMAIN ordered' : j < i /\ p \in Exports(ordered'[j])
    <3>1. CASE i \in DOMAIN ordered
      <4>1. PICK j \in DOMAIN ordered : j < i /\ p \in Exports(ordered[j])
        BY <2>3, <2>11, <3>1 DEF OrderLoads
      <4> QED
        BY <2>3, <4>1
    <3>2. CASE i \notin DOMAIN ordered
      <4>1. i = Len(ordered) + 1
        BY <2>2, <2>3, <3>2
      <4>2. p \in resolved
        BY <2>1, <2>3, <2>11, <4>1 DEF OrderLoads
      <4>3. PICK j \in DOMAIN ordered : p \in Exports(ordered[j])
        BY <2>1, <4>2 DEF OrderLoads, ExportedIn
      <4>4. j < i
        BY <2>2, <4>1, <4>3
      <4> QED
        BY <2>3, <4>3, <4>4
    <3> QED
      BY <3>1, <3>2
  <2>12. \A i \in DOMAIN ordered' : \A p \in Imports(ordered'[i]) :
               \E j \in DOMAIN ordered' : j < i /\ p \in Exports(ordered'[j])
    BY <2>11
  <2> QED
    BY <1>l, <2>1, <2>9, <2>10, <2>12, NextLoads
<1>11. CASE EndOfOrder
  <2>1. /\ pc = "order" /\ pc' \in {"done", "failed"} /\ (pc' = "done" => needed = <<>>)
        /\ UNCHANGED <<root, needed, ordered>>
    BY <1>11 DEF EndOfOrder
  <2>2. RootIsCovered'
    BY <1>l, <2>1, NextCovered DEF RootIsCovered
  <2> QED
    BY <1>l, <2>1, <2>2, NextLoads DEF OrderLoads
<1>12. CASE Return
  <2>1. pc' = "idle" /\ needed' = <<>> /\ ordered' = <<>>
    BY <1>12 DEF Return
  <2>2. RootIsCovered'
    BY <1>l, <2>1, NextCovered
  <2> QED
    BY <1>l, <2>1, <2>2, NextLoads
<1> QED
  BY <1>1, <1>2, <1>3, <1>4, <1>5, <1>6, <1>7, <1>8, <1>9, <1>10, <1>11, <1>12 DEF Search

\* Whatever is uploaded meanwhile, the bundles that resolveDependencies returns
\* can be loaded in their order, for every library without changing manifests.
THEOREM ResultLoadsAlways == Spec => []ResultLoads
<1>1. Init => SearchInv
  BY DEF Init, SearchInv, FilesOfLibrary, RootIsCovered, OrderLoads, Resolving, Ordering
<1>2. TypeInv /\ SearchInv /\ [Next]_vars => SearchInv'
  <2> SUFFICES ASSUME TypeInv, SearchInv, [Next]_vars PROVE SearchInv'
    OBVIOUS
  <2>1. CASE Upload
    <3>1. UNCHANGED <<library, searchVars>>
      BY <2>1 DEF Upload, BeginUpload, SaveFile, FinishUpload, AlreadyProvided, InsertEntry,
         RemoveEntry, ReinsertEntry, database
    <3>2. Stable' => Stable
      BY <3>1 DEF Stable
    <3> QED
      BY <2>1, <3>1, <3>2, UploadFiles, UploadKeepsSearch DEF SearchInv
  <2>2. CASE UNCHANGED vars
    <3>1. UNCHANGED <<library, searchVars>> /\ UNCHANGED <<files, uploading, manifest>>
      BY <2>2 DEF vars, database, uploadVars
    <3>2. Stable' => Stable
      BY <3>1 DEF Stable
    <3>3. FilesOfLibrary'
      BY <3>1 DEF SearchInv, FilesOfLibrary
    <3> QED
      BY <3>1, <3>2, <3>3, UploadKeepsSearch DEF SearchInv
  <2>3. CASE Search \/ Return \/ \E b \in Bundles : StartSearch(b)
    <3>1. UNCHANGED <<database, uploadVars>>
      BY <2>3 DEF Search, StartSearch, RootImports, RootExports, NoProvider, FirstProvider,
         ProviderExports, ProviderImports, EndOfLoop, OrderImports, OrderExports, EndOfOrder,
         Return
    <3>2. Stable' => Stable
      BY <3>1 DEF Stable, database
    <3>3. FilesOfLibrary'
      BY <3>1 DEF SearchInv, FilesOfLibrary, database, uploadVars
    <3> QED
      BY <2>3, <3>2, <3>3, SearchKeepsResult DEF SearchInv
  <2> QED
    BY <2>1, <2>2, <2>3 DEF Next
<1>3. SearchInv => ResultLoads
  BY DEF SearchInv, RootIsCovered, OrderLoads, ResultLoads, ExportedIn, Ordering
<1>4. TypeInv /\ [Next]_vars => TypeInv'
  BY NextTyped
<1> QED
  BY InitTyped, <1>1, <1>2, <1>3, <1>4, PTL DEF Spec

-----------------------------------------------------------------------------
(* The result names no bundle twice.                                       *)

NoneTwice(list) == \A i, j \in DOMAIN list : list[i] = list[j] => i = j

\* Nothing is ordered before the search for providers is over, and a bundle is
\* in one of the two lists at most, and there once.
OnceEach ==
    /\ pc \in {"idle", "rootImports", "rootExports"} \cup Resolving => ordered = <<>>
    /\ NoneTwice(needed) /\ NoneTwice(ordered)
    /\ \A i \in DOMAIN needed, j \in DOMAIN ordered : needed[i] # ordered[j]

\* A step of a search, and whatever leaves the two lists alone, keep OnceEach.
LEMMA SearchOnceEach ==
    ASSUME TypeInv, OnceEach, Search \/ Return \/ \E b \in Bundles : StartSearch(b)
    PROVE  OnceEach'
<1>0. /\ needed \in Seq(Bundles) /\ ordered \in Seq(Bundles)
      /\ pc = "orderExports" => at \in DOMAIN needed
  BY DEF TypeInv, TypeOK, NotNull
<1> USE DEF Resolving
<1>1. ASSUME NEW p \in Packages, NEW b \in Bundles, FirstProvider(p, b) PROVE OnceEach'
  <2>1. /\ ordered = <<>> /\ ordered' = <<>> /\ pc' = "exports"
        /\ needed' = IF Contains(needed, b) THEN needed ELSE Append(needed, b)
    BY <1>1 DEF FirstProvider, OnceEach
  <2>2. CASE Contains(needed, b)
    BY <2>1, <2>2 DEF OnceEach, NoneTwice
  <2>3. CASE ~ Contains(needed, b)
    <3>1. /\ DOMAIN needed' = 1 .. Len(needed) + 1
          /\ \A i \in DOMAIN needed : needed'[i] = needed[i]
          /\ needed'[Len(needed) + 1] = b
      BY <1>0, <2>1, <2>3, AppendedList
    <3>2. \A i \in DOMAIN needed : needed[i] # b
      BY <1>0, <2>3, LenProperties DEF Contains
    <3>3. DOMAIN needed = 1 .. Len(needed) /\ Len(needed) \in Nat
      BY <1>0, LenProperties
    <3>4. NoneTwice(needed')
      BY <3>1, <3>2, <3>3 DEF OnceEach, NoneTwice
    <3> QED
      BY <2>1, <3>4 DEF OnceEach, NoneTwice
  <2> QED
    BY <2>2, <2>3
<1>2. CASE OrderExports
  <2>1. /\ pc' = "order" /\ at \in DOMAIN needed
        /\ ordered' = Append(ordered, needed[at])
        /\ needed' = RemoveAt(needed, at)
    BY <1>0, <1>2 DEF OrderExports
  <2>2. DOMAIN needed = 1 .. Len(needed) /\ Len(needed) \in Nat
    BY <1>0, LenProperties
  <2>3. DOMAIN ordered = 1 .. Len(ordered) /\ Len(ordered) \in Nat
    BY <1>0, LenProperties
  <2>4. needed[at] \in Bundles
    BY <1>0, <2>1, <2>2, ElementOfSeq
  <2>5. /\ DOMAIN ordered' = 1 .. Len(ordered) + 1
        /\ \A j \in DOMAIN ordered : ordered'[j] = ordered[j]
        /\ ordered'[Len(ordered) + 1] = needed[at]
    BY <1>0, <2>1, <2>4, AppendedList
  <2>6. /\ DOMAIN needed' = 1 .. Len(needed) - 1
        /\ \A k \in DOMAIN needed' : needed'[k] = IF k < at THEN needed[k] ELSE needed[k + 1]
    BY <1>0, <2>1, RemovedAt
  <2>7. NoneTwice(ordered')
    BY <2>1, <2>3, <2>5 DEF OnceEach, NoneTwice
  <2>8. NoneTwice(needed')
    BY <2>1, <2>2, <2>6 DEF OnceEach, NoneTwice
  <2>9. ASSUME NEW k \in DOMAIN needed' PROVE \E i \in DOMAIN needed : i # at /\ needed'[k] = needed[i]
    BY <2>1, <2>2, <2>6
  <2>10. \A k \in DOMAIN needed', j \in DOMAIN ordered' : needed'[k] # ordered'[j]
    BY <2>1, <2>3, <2>5, <2>9 DEF OnceEach, NoneTwice
  <2> QED
    BY <2>1, <2>7, <2>8, <2>10 DEF OnceEach
<1>3. CASE Return
  BY <1>3 DEF Return, OnceEach, NoneTwice
<1>4. CASE EndOfLoop \/ OrderImports \/ EndOfOrder
  <2>1. /\ UNCHANGED <<needed, ordered>>
        /\ pc' \in Resolving => pc \in Resolving
        /\ pc' \notin {"idle", "rootImports", "rootExports"}
    BY <1>4 DEF EndOfLoop, OrderImports, EndOfOrder
  <2> QED
    BY <2>1 DEF OnceEach, NoneTwice
<1>5. CASE RootImports \/ RootExports \/ ProviderExports \/ ProviderImports
           \/ (\E p \in Packages : NoProvider(p)) \/ \E b \in Bundles : StartSearch(b)
  <2>1. UNCHANGED <<needed, ordered>> /\ pc \in {"idle", "rootImports", "rootExports"} \cup Resolving
    BY <1>5 DEF StartSearch, RootImports, RootExports, NoProvider, ProviderExports, ProviderImports, loopVars
  <2> QED
    BY <2>1 DEF OnceEach, NoneTwice
<1> QED
  BY <1>1, <1>2, <1>3, <1>4, <1>5 DEF Search

\* Whatever is uploaded meanwhile, also when a provider disappears and comes back
\* between two questions, resolveDependencies returns no bundle twice.
THEOREM NoBundleTwiceAlways == Spec => []NoBundleTwice
<1>1. Init => OnceEach
  BY DEF Init, OnceEach, NoneTwice
<1>2. TypeInv /\ OnceEach /\ [Next]_vars => OnceEach'
  <2> SUFFICES ASSUME TypeInv, OnceEach, [Next]_vars PROVE OnceEach'
    OBVIOUS
  <2>1. CASE Upload \/ UNCHANGED vars
    <3>1. UNCHANGED <<pc, needed, ordered>>
      BY <2>1 DEF Upload, BeginUpload, SaveFile, FinishUpload, AlreadyProvided, InsertEntry,
         RemoveEntry, ReinsertEntry, searchVars, vars
    <3> QED
      BY <3>1 DEF OnceEach, NoneTwice
  <2> QED
    BY <2>1, SearchOnceEach DEF Next
<1>3. OnceEach => NoBundleTwice
  BY DEF OnceEach, NoneTwice, NoBundleTwice
<1>4. TypeInv /\ [Next]_vars => TypeInv'
  BY NextTyped
<1> QED
  BY InitTyped, <1>1, <1>2, <1>3, <1>4, PTL DEF Spec

-----------------------------------------------------------------------------
(* Every package that a stored bundle exports has a provider.               *)

ExportsOf(n) == UNION {Exports(<<n, v>>) : v \in Versions}

\* The package whose entry is being replaced, and having an entry or being about
\* to have it again.
IsNext(p) == p \in exporting /\ \A q \in exporting : p <= q
Provided(p) == table[p] # NoEntry \/ (removed # NoEntry /\ IsNext(p))

InTable(n) == removed[n] # <<>> \/ \E p \in Packages : table[p][n] # <<>>

\* The entries of the bundle that is being uploaded are under way: its name is
\* nowhere it has yet to be written.
BeingEntered(n) ==
    /\ saved /\ uploading[1] = n
    /\ removed[n] = <<>>
    /\ \A q \in exporting : table[q][n] = <<>>

\* The loop of updateExporter: what it has gone past has a provider; a name that
\* is in the table has been entered for everything its bundle exports, so that
\* the loop may end when it comes upon it.
ExporterInv ==
    /\ ~ saved => exporting = {} /\ removed = NoEntry
    /\ removed # NoEntry => \E p \in Packages : IsNext(p)
    /\ saved => /\ files[uploading] = manifest
                /\ exporting \subseteq manifest.exports
                /\ \A p \in manifest.exports \ exporting : Provided(p)
    /\ \A b \in Bundles : files[b] # None /\ b # uploading => \A p \in files[b].exports : Provided(p)
    /\ \A n \in Names : InTable(n) => BeingEntered(n) \/ \A p \in ExportsOf(n) : Provided(p)

\* All versions export what the manifest of one of them says.
LEMMA ExportsOfName ==
    ASSUME TypeInv, FilesOfLibrary, Stable, SameExports, uploading # None
    PROVE  /\ uploading \in Bundles /\ uploading[1] \in Names /\ uploading[2] \in Versions
           /\ manifest \in Manifests /\ manifest.exports \subseteq Packages
           /\ ExportsOf(uploading[1]) = manifest.exports
<1>1. uploading \in Bundles /\ manifest \in library[uploading] /\ manifest \in Manifests
  BY DEF TypeInv, TypeOK, NotNull, FilesOfLibrary
<1>2. PICK n \in Names, v \in Versions : uploading = <<n, v>>
  BY <1>1 DEF Bundles
<1>3. Exports(uploading) = manifest.exports
  BY <1>1 DEF Stable, Exports
<1>4. \A w \in Versions : Exports(<<n, w>>) \subseteq Exports(<<n, v>>)
  <2> SUFFICES ASSUME NEW w \in Versions, library[<<n, w>>] # {}
               PROVE  Exports(<<n, w>>) \subseteq Exports(<<n, v>>)
    BY DEF Exports
  <2> QED
    BY <1>1, <1>2 DEF SameExports
<1>5. ExportsOf(n) = Exports(<<n, v>>)
  BY <1>4 DEF ExportsOf
<1> QED
  BY <1>1, <1>2, <1>3, <1>5 DEF Manifests

LEMMA ExportsTyped ==
    ASSUME TypeInv
    PROVE  \A k \in Names : \A q \in ExportsOf(k) : q \in Packages
<1>1. ASSUME NEW b \in Bundles PROVE Exports(b) \subseteq Packages
  <2>1. \A m \in library[b] : m.exports \subseteq Packages
    BY DEF TypeInv, TypeOK, Manifests
  <2> QED
    BY <2>1 DEF Exports
<1>2. \A k \in Names, v \in Versions : <<k, v>> \in Bundles
  BY DEF Bundles
<1>3. \A k \in Names, v \in Versions : Exports(<<k, v>>) \subseteq Packages
  BY <1>1, <1>2
<1> QED
  BY <1>3 DEF ExportsOf

\* A step of an upload keeps ExporterInv.
LEMMA UploadExporter ==
    ASSUME TypeInv, FilesOfLibrary, Stable, SameExports, ExporterInv, Upload
    PROVE  ExporterInv'
<1>0. /\ table \in [Packages -> Entries] /\ removed \in Entries
      /\ files \in [Bundles -> Manifests \cup {None}]
      /\ exporting \subseteq Packages /\ Packages \subseteq Nat
      /\ saved \in BOOLEAN /\ (saved => uploading # None)
  BY BundleStoreAssumption DEF TypeInv, TypeOK, NotNull
<1>l. library' = library
  BY DEF Upload, BeginUpload, SaveFile, FinishUpload, AlreadyProvided, InsertEntry, RemoveEntry,
     ReinsertEntry, database
<1>e. \A n : ExportsOf(n)' = ExportsOf(n)
  BY <1>l DEF ExportsOf, Exports
<1>1. ASSUME NEW b \in Bundles, NEW m \in Manifests, BeginUpload(b, m) PROVE ExporterInv'
  <2>1. /\ uploading = None /\ ~ saved /\ uploading' = b
        /\ files' = [files EXCEPT ![b] = None]
        /\ UNCHANGED <<table, saved, exporting, removed>>
    BY <1>0, <1>1 DEF BeginUpload
  <2>2. \A p : Provided(p)' = Provided(p)
    BY <2>1 DEF Provided, IsNext
  <2>3. \A c \in Bundles : files'[c] # None /\ c # b => c # uploading /\ files'[c] = files[c]
    BY <1>0, <2>1, BundleStoreAssumption
  <2>4. \A c \in Bundles : files'[c] # None /\ c # uploading' => \A p \in files'[c].exports : Provided(p)'
    BY <2>1, <2>2, <2>3 DEF ExporterInv
  <2>5. \A n \in Names : InTable(n)' => BeingEntered(n)' \/ \A p \in ExportsOf(n)' : Provided(p)'
    BY <1>e, <2>1, <2>2 DEF ExporterInv, InTable, BeingEntered
  <2> QED
    BY <2>1, <2>4, <2>5 DEF ExporterInv, IsNext
<1>2. CASE SaveFile
  <2>1. /\ uploading # None /\ ~ saved /\ saved'
        /\ files' = [files EXCEPT ![uploading] = manifest]
        /\ exporting' = manifest.exports
        /\ UNCHANGED <<table, uploading, manifest, removed>>
        /\ removed = NoEntry
    BY <1>2 DEF SaveFile, ExporterInv
  <2>2. \A p : Provided(p)' = Provided(p)
    BY <2>1 DEF Provided, IsNext
  <2>3. /\ files'[uploading] = manifest
        /\ \A c \in Bundles : c # uploading => files'[c] = files[c]
    BY <1>0, <2>1, ExportsOfName
  <2>4. \A n \in Names : InTable(n)' => \A p \in ExportsOf(n)' : Provided(p)'
    BY <1>e, <2>1, <2>2 DEF ExporterInv, InTable, BeingEntered
  <2> QED
    BY <2>1, <2>2, <2>3, <2>4 DEF ExporterInv
<1>3. CASE FinishUpload
  <2>1. /\ saved /\ exporting = {} /\ uploading # None /\ uploading' = None /\ ~ saved'
        /\ UNCHANGED <<files, table, exporting, removed>>
        /\ removed = NoEntry
    BY <1>0, <1>3 DEF FinishUpload, database, ExporterInv, IsNext
  <2>2. \A p : Provided(p)' = Provided(p)
    BY <2>1 DEF Provided, IsNext
  <2>3. \A p \in manifest.exports : Provided(p)
    BY <2>1 DEF ExporterInv
  <2>4. \A c \in Bundles : files[c] # None => \A p \in files[c].exports : Provided(p)
    BY <2>1, <2>3 DEF ExporterInv
  <2>5. \A n \in Names : InTable(n) => \A p \in ExportsOf(n) : Provided(p)
    BY <2>1, <2>3, ExportsOfName DEF ExporterInv, BeingEntered
  <2>6. \A n \in Names : InTable(n)' => \A p \in ExportsOf(n)' : Provided(p)'
    BY <1>e, <2>1, <2>2, <2>5 DEF InTable
  <2> QED
    BY <2>1, <2>2, <2>4, <2>6 DEF ExporterInv
<1>4. ASSUME NEW p \in Packages, AlreadyProvided(p) PROVE ExporterInv'
  <2>1. /\ saved /\ removed = NoEntry /\ p \in exporting /\ exporting' = {}
        /\ UNCHANGED <<files, table, uploading, manifest, saved, removed>>
        /\ \E b \in Providers(p) : b[1] = uploading[1]
    BY <1>4 DEF AlreadyProvided, NextExport, database
  <2>2. uploading # None /\ uploading[1] \in Names /\ ExportsOf(uploading[1]) = manifest.exports
    BY <1>0, <2>1, ExportsOfName
  <2>3. table[p][uploading[1]] # <<>>
    BY <2>1 DEF Providers
  <2>4. \A q \in ExportsOf(uploading[1]) : Provided(q)
    BY <2>1, <2>2, <2>3 DEF ExporterInv, InTable, BeingEntered
  <2>5. \A q : Provided(q)' = Provided(q)
    BY <2>1 DEF Provided
  <2>6. \A n \in Names : InTable(n)' => BeingEntered(n)' \/ \A q \in ExportsOf(n)' : Provided(q)'
    BY <1>e, <2>1, <2>5 DEF ExporterInv, InTable, BeingEntered
  <2> QED
    BY <2>1, <2>2, <2>4, <2>5, <2>6 DEF ExporterInv
<1>5. ASSUME NEW p \in Packages, InsertEntry(p) PROVE ExporterInv'
  <2> DEFINE n == uploading[1]
             v == uploading[2]
  <2>1. /\ saved /\ removed = NoEntry /\ IsNext(p) /\ table[p] = NoEntry
        /\ table' = [table EXCEPT ![p][n] = <<v>>]
        /\ exporting' = exporting \ {p}
        /\ UNCHANGED <<files, uploading, manifest, saved, removed>>
    BY <1>5 DEF InsertEntry, NextExport, IsNext
  <2>2. uploading # None /\ n \in Names /\ ExportsOf(n) = manifest.exports
    BY <1>0, <2>1, ExportsOfName
  <2>3. /\ \A q \in Packages : q # p => table'[q] = table[q]
        /\ table'[p][n] = <<v>>
        /\ \A k \in Names : k # n => table'[p][k] = table[p][k]
    BY <1>0, <2>1, <2>2 DEF Entries
  <2>4. table'[p] # NoEntry
    BY <2>2, <2>3 DEF NoEntry
  <2>5. \A q \in Packages : Provided(q) => Provided(q)'
    BY <2>1, <2>3, <2>4 DEF Provided
  <2>6. Provided(p)'
    BY <2>4 DEF Provided
  <2>7. \A k \in Names : \A q \in ExportsOf(k) : q \in Packages
    BY ExportsTyped
  <2>8. ASSUME NEW k \in Names, k # n, InTable(k)'
        PROVE  \A q \in ExportsOf(k)' : Provided(q)'
    <3>1. InTable(k)
      BY <2>1, <2>3, <2>8 DEF InTable
    <3> QED
      BY <1>e, <2>5, <2>7, <2>8, <3>1 DEF ExporterInv, BeingEntered
  <2>9. BeingEntered(n)' \/ \A q \in ExportsOf(n)' : Provided(q)'
    <3>1. CASE InTable(n) /\ ~ BeingEntered(n)
      BY <1>e, <2>1, <2>2, <2>5, <2>7, <3>1 DEF ExporterInv
    <3>2. CASE ~ InTable(n) \/ BeingEntered(n)
      <4>1. \A q \in exporting : table[q][n] = <<>>
        BY <1>0, <2>2, <3>2 DEF InTable, BeingEntered
      <4>2. removed[n] = <<>>
        BY <2>1, <2>2 DEF NoEntry
      <4> QED
        BY <1>0, <2>1, <2>3, <4>1, <4>2 DEF BeingEntered
    <3> QED
      BY <3>1, <3>2
  <2>10. \A q \in manifest.exports \ exporting' : Provided(q)'
    BY <2>1, <2>2, <2>5, <2>6, <2>7 DEF ExporterInv
  <2>11. \A b \in Bundles : files[b] # None /\ b # uploading => \A q \in files[b].exports : Provided(q)'
    BY <1>0, <2>5 DEF ExporterInv, Manifests
  <2> QED
    BY <2>1, <2>8, <2>9, <2>10, <2>11 DEF ExporterInv
<1>6. ASSUME NEW p \in Packages, RemoveEntry(p) PROVE ExporterInv'
  <2> DEFINE n == uploading[1]
  <2>1. /\ saved /\ removed = NoEntry /\ IsNext(p) /\ table[p] # NoEntry
        /\ \A b \in Providers(p) : b[1] # n
        /\ removed' = IF table[p][n] = <<>> THEN table[p] ELSE [table[p] EXCEPT ![n] = Append(@, uploading[2])]
        /\ table' = [table EXCEPT ![p] = NoEntry]
        /\ UNCHANGED <<files, uploading, manifest, saved, exporting>>
    BY <1>6 DEF RemoveEntry, NextExport, IsNext
  <2>2. uploading # None /\ n \in Names
    BY <1>0, <2>1, ExportsOfName
  <2>3. table[p][n] = <<>> /\ removed' = table[p]
    <3>1. ASSUME table[p][n] # <<>> PROVE FALSE
      <4>1. <<n, table[p][n][1]>> \in Providers(p)
        BY <2>2, <3>1 DEF Providers
      <4> QED
        BY <2>1, <4>1
    <3> QED
      BY <2>1, <3>1
  <2>4. /\ \A q \in Packages : q # p => table'[q] = table[q]
        /\ table'[p] = NoEntry
    BY <1>0, <2>1
  <2>5. \A q \in Packages : Provided(q) => Provided(q)'
    BY <2>1, <2>3, <2>4 DEF Provided, IsNext
  <2>6. \A k \in Names : \A q \in ExportsOf(k) : q \in Packages
    BY ExportsTyped
  <2>7. \A k \in Names : InTable(k)' => InTable(k)
    BY <1>0, <2>3, <2>4 DEF InTable, NoEntry
  <2>8. \A k \in Names : BeingEntered(k) => BeingEntered(k)'
    BY <1>0, <2>1, <2>2, <2>3, <2>4 DEF BeingEntered, NoEntry
  <2>9. \A k \in Names : InTable(k)' => BeingEntered(k)' \/ \A q \in ExportsOf(k)' : Provided(q)'
    BY <1>e, <2>5, <2>6, <2>7, <2>8 DEF ExporterInv
  <2>10. \A q \in manifest.exports \ exporting : Provided(q)'
    BY <1>0, <2>1, <2>2, <2>5, ExportsOfName DEF ExporterInv
  <2>11. \A b \in Bundles : files[b] # None /\ b # uploading => \A q \in files[b].exports : Provided(q)'
    BY <1>0, <2>5 DEF ExporterInv, Manifests
  <2> QED
    BY <2>1, <2>9, <2>10, <2>11 DEF ExporterInv, IsNext
<1>7. ASSUME NEW p \in Packages, ReinsertEntry(p) PROVE ExporterInv'
  <2>1. /\ removed # NoEntry /\ IsNext(p) /\ saved
        /\ table' = [table EXCEPT ![p] = removed]
        /\ removed' = NoEntry
        /\ exporting' = exporting \ {p}
        /\ UNCHANGED <<files, uploading, manifest, saved>>
    BY <1>7 DEF ReinsertEntry, IsNext, ExporterInv
  <2>2. uploading # None
    BY <1>0, <2>1
  <2>4. /\ \A q \in Packages : q # p => table'[q] = table[q]
        /\ table'[p] = removed
    BY <1>0, <2>1
  <2>5. \A q \in Packages : Provided(q) => Provided(q)'
    <3>1. \A q \in Packages : IsNext(q) => q = p
      BY <1>0, <2>1 DEF IsNext
    <3> QED
      BY <2>1, <2>4, <3>1 DEF Provided
  <2>6. \A k \in Names : \A q \in ExportsOf(k) : q \in Packages
    BY ExportsTyped
  <2>7. \A k \in Names : InTable(k)' => InTable(k)
    BY <1>0, <2>1, <2>4 DEF InTable, NoEntry
  <2>8. \A k \in Names : BeingEntered(k) => BeingEntered(k)'
    BY <1>0, <2>1, <2>4 DEF BeingEntered, NoEntry
  <2>9. \A k \in Names : InTable(k)' => BeingEntered(k)' \/ \A q \in ExportsOf(k)' : Provided(q)'
    BY <1>e, <2>5, <2>6, <2>7, <2>8 DEF ExporterInv
  <2>10. \A q \in manifest.exports \ exporting' : Provided(q)'
    BY <1>0, <2>1, <2>2, <2>4, <2>5, ExportsOfName DEF ExporterInv, Provided
  <2>11. \A b \in Bundles : files[b] # None /\ b # uploading => \A q \in files[b].exports : Provided(q)'
    BY <1>0, <2>5 DEF ExporterInv, Manifests
  <2> QED
    BY <2>1, <2>9, <2>10, <2>11 DEF ExporterInv
<1> QED
  BY <1>1, <1>2, <1>3, <1>4, <1>5, <1>6, <1>7 DEF Upload

\* For every library whose manifests do not change and whose versions export the
\* same packages: when no upload is under way, whatever a stored bundle exports
\* has a provider, however the uploads before ended their loops.
THEOREM ExportsAreFoundAlways == Spec => []ExportsAreFound
<1> DEFINE Inv == FilesOfLibrary /\ (Stable /\ SameExports => ExporterInv)
<1>1. Init => Inv
  <2> SUFFICES ASSUME Init PROVE FilesOfLibrary /\ ExporterInv
    OBVIOUS
  <2>1. \A n \in Names : ~ InTable(n)
    BY DEF Init, InTable, NoEntry
  <2> QED
    BY <2>1 DEF Init, FilesOfLibrary, ExporterInv
<1>2. TypeInv /\ Inv /\ [Next]_vars => Inv'
  <2> SUFFICES ASSUME TypeInv, Inv, [Next]_vars PROVE Inv'
    OBVIOUS
  <2>1. CASE Upload
    <3>1. library' = library
      BY <2>1 DEF Upload, BeginUpload, SaveFile, FinishUpload, AlreadyProvided, InsertEntry,
         RemoveEntry, ReinsertEntry, database
    <3>2. (Stable /\ SameExports)' => Stable /\ SameExports
      BY <3>1 DEF Stable, SameExports, Exports
    <3> QED
      BY <2>1, <3>2, UploadFiles, UploadExporter
  <2>2. CASE UNCHANGED vars \/ Search \/ Return \/ \E b \in Bundles : StartSearch(b)
    <3>1. UNCHANGED <<library, files, table, uploading, manifest, saved, exporting, removed>>
      BY <2>2 DEF Search, StartSearch, RootImports, RootExports, NoProvider, FirstProvider,
         ProviderExports, ProviderImports, EndOfLoop, OrderImports, OrderExports, EndOfOrder,
         Return, vars, database, uploadVars
    <3>2. (Stable /\ SameExports)' => Stable /\ SameExports
      BY <3>1 DEF Stable, SameExports, Exports
    <3>3. FilesOfLibrary'
      BY <3>1 DEF FilesOfLibrary
    <3>4. ExporterInv => ExporterInv'
      BY <3>1 DEF ExporterInv, InTable, BeingEntered, Provided, IsNext, ExportsOf, Exports
    <3> QED
      BY <3>2, <3>3, <3>4
  <2> QED
    BY <2>1, <2>2 DEF Next
<1>3. TypeInv /\ Inv => ExportsAreFound
  <2> SUFFICES ASSUME TypeInv, ExporterInv, uploading = None,
                      NEW b \in Bundles, files[b] # None, NEW p \in files[b].exports
               PROVE  Providers(p) # {}
    BY DEF ExportsAreFound
  <2>1. ~ saved /\ files \in [Bundles -> Manifests \cup {None}] /\ table \in [Packages -> Entries]
    BY DEF TypeInv, TypeOK, NotNull
  <2>2. p \in Packages
    BY <2>1 DEF Manifests
  <2>3. b # uploading
    BY BundleStoreAssumption
  <2>4. table[p] # NoEntry
    BY <2>1, <2>3 DEF ExporterInv, Provided
  <2>5. PICK n \in Names : table[p][n] # <<>>
    BY <2>1, <2>2, <2>4 DEF Entries, NoEntry
  <2> QED
    BY <2>5 DEF Providers
<1>4. TypeInv /\ [Next]_vars => TypeInv'
  BY NextTyped
<1> QED
  BY InitTyped, <1>1, <1>2, <1>3, <1>4, PTL DEF Spec
=============================================================================
