---------------------------- MODULE MCIndexGate ----------------------------
(* Small instances of the index and its gate. *)
EXTENDS IndexGate, TLC

CONSTANTS p, q, pub, priv, v, x, y, doc, k, l

\* Two images that share a platform, and a document that is no image index.
MCManifests == x :> {k} @@ y :> {k, l}
MCForeign == {<<pub, q>>}

\* One package with a row, a description and an object nothing refers to.
MCFirstTree ==
    p :> [root |-> [repository |-> pub,
                    tags |-> v :> [content |-> x, yanked |-> FALSE, ephemeral |-> FALSE],
                    desc |-> {doc}],
          objects |-> [d \in Digest |-> "sound"]]
    @@ q :> Unserved
MCFirstServes == pub :> (v :> x) @@ priv :> (v :> None)
=============================================================================
