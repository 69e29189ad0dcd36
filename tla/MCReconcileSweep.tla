-------------------------- MODULE MCReconcileSweep --------------------------
(* Small instances of the nightly sweep. *)
EXTENDS ReconcileSweep, TLC

CONSTANTS p1, p2, a, b, other, n, f, x, y, doc, k, l

\* Two images that share a platform, and a document that is no image index.
MCManifests == x :> {k} @@ y :> {k, l}
MCForeign == {<<b, p2>>}

Live(d) == [content |-> d, yanked |-> FALSE, ephemeral |-> FALSE]
With(missing, damaged) ==
    [d \in Digest |-> IF d \in missing THEN "absent" ELSE IF d \in damaged THEN "damaged" ELSE "sound"]

P(row, row2, objects) ==
    [root |-> [repository |-> a, tags |-> n :> row @@ f :> row2, desc |-> {doc}],
     objects |-> objects]
Q(r) == [root |-> [repository |-> r, tags |-> n :> NoRow @@ f :> Live(y), desc |-> {}],
         objects |-> With({}, {})]
Broken == [root |-> Malformed, objects |-> With({}, {})]
Empty == [root |-> NoRoot, objects |-> With({x, y, doc}, {})]

MCTrees == {
    \* Two rows of one package that share a manifest.
    p1 :> P(Live(x), Live(y), With({}, {})) @@ p2 :> Empty,
    \* A description that is missing, and a package in a repository not its own.
    p1 :> P(Live(x), NoRow, With({doc}, {})) @@ p2 :> Q(b),
    \* A yanked row and an ephemeral one whose objects are gone or damaged.
    p1 :> P([Live(x) EXCEPT !.yanked = TRUE], [Live(y) EXCEPT !.ephemeral = TRUE],
           With({x}, {y, doc})) @@ p2 :> Broken,
    \* A row of a document, and a package that left the allowed hosts.
    p1 :> P(Live(doc), NoRow, With({}, {})) @@ p2 :> Q(other) }
MCFirstServes == a :> (n :> x @@ f :> y) @@ b :> (n :> None @@ f :> y)
                 @@ other :> (n :> None @@ f :> None)
=============================================================================
