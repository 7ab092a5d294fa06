----------------------------- MODULE MCBundleStore -----------------------------
(* Small libraries: lines of imports, cycles, two exporters, two versions.  *)
EXTENDS BundleStore

M(i, e) == {[imports |-> i, exports |-> e]}

MCLibrary(f) == [b \in Bundles |-> IF b \in DOMAIN f THEN f[b] ELSE {}]

\* A root that needs a bundle with two packages, which needs another one.
Line == MCLibrary(<<1, 1>> :> M({1, 2}, {}) @@ <<2, 1>> :> M({3}, {1, 2}) @@ <<3, 1>> :> M({}, {3}))

\* The second and the third bundle need each other.
Circle == MCLibrary(<<1, 1>> :> M({1}, {}) @@ <<2, 1>> :> M({2}, {1}) @@ <<3, 1>> :> M({1}, {2}))

\* Two versions of a bundle, and another one that exports a package of theirs.
Rivals == MCLibrary(<<1, 1>> :> M({1, 2}, {3}) @@ <<2, 1>> :> M({}, {1}) @@ <<3, 1>> :> M({3}, {1, 2})
                    @@ <<3, 2>> :> M({}, {1, 2}))

\* The second bundle is uploaded again with another package, and in a version
\* with both.
Changing == MCLibrary(<<1, 1>> :> M({1}, {}) @@ <<2, 1>> :> M({}, {1}) \cup M({}, {2}) @@ <<2, 2>> :> M({}, {1, 2}))

MCLibraries == {Line, Circle, Rivals, Changing}
=============================================================================
