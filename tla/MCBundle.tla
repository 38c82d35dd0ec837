------------------------------ MODULE MCBundle ------------------------------
(* Two runs of a source store, and bundles of them that were merged, cut or   *)
(* damaged elsewhere.  Run r1 holds a line with a secret and an over-limit     *)
(* payload that names an artifact with one; r2's commit has r1's as parent.  In *)
(* the source, r1 has a second checkpoint, whose state names another commit: a  *)
(* bundle that left the state out brought it in.                               *)
EXTENDS Bundle

CONSTANTS a, b

Symmetry == Permutations({a, b})

MCRuns == {"r1", "r2"}
State1 == [run |-> "r1", id |-> "c_1", commit |-> "commit1", seq |-> 3]
Stale1 == [run |-> "r1", id |-> "c_2", commit |-> "commit2", seq |-> 4]
State2 == [run |-> "r2", id |-> "c_1", commit |-> "commit2", seq |-> 1]
C1 == [run |-> "r1", id |-> "c_1", commit |-> "commit1", seq |-> 3, state |-> "state1"]
Next1 == [run |-> "r1", id |-> "c_2", commit |-> "commit1", seq |-> 4, state |-> "stale1"]
C2 == [run |-> "r2", id |-> "c_1", commit |-> "commit2", seq |-> 1, state |-> "state2"]

Blob(kind, text, links, state) == [kind |-> kind, text |-> text, links |-> links, state |-> state]
MCBlobContent ==
  [state1 |-> Blob("state", "clean", {}, State1),
   stale1 |-> Blob("state", "clean", {}, Stale1),
   state2 |-> Blob("state", "clean", {}, State2),
   payload |-> Blob("payload", "clean", {"artifact"}, NoState),
   artifact |-> Blob("artifact", "secret", {}, NoState)]
MCBlobs == {"state1", "stale1", "state2", "payload", "artifact"}

Object(type, refs, text) == [type |-> type, refs |-> refs, text |-> text, excluded |-> FALSE]
To(sha, type) == [sha |-> sha, type |-> type]
MCObjectContent ==
  [commit1 |-> Object("commit", {To("tree", "tree")}, "clean"),
   commit2 |-> Object("commit", {To("tree", "tree"), To("commit1", "commit")}, "clean"),
   tree |-> Object("tree", {To("blob", "blob")}, "clean"),
   blob |-> Object("blob", {}, "secret")]
MCObjects == {"commit1", "commit2", "tree", "blob"}

Body(text, payload, checkpoint) ==
  [text |-> text, links |-> {}, payload |-> payload, checkpoint |-> checkpoint]
MCBodyContent ==
  [note |-> Body("secret", NoBlob, NoCheckpoint),
   big |-> Body("clean", "payload", NoCheckpoint),
   checkpoint1 |-> Body("clean", NoBlob, C1),
   checkpoint2 |-> Body("clean", NoBlob, C2),
   restated |-> Body("clean", NoBlob, Next1),
   odd |-> Body("clean", NoBlob, [C2 EXCEPT !.commit = "tree"]),
   borrowed |-> Body("clean", NoBlob, [C2 EXCEPT !.state = "state1"]),
   later |-> Body("secret", NoBlob, NoCheckpoint),
   unsafe |-> Body("clean", NoBlob, NoCheckpoint)]
MCBodies == {"note", "big", "checkpoint1", "checkpoint2", "restated", "odd", "borrowed", "later", "unsafe"}

Log1 == Seal("r1", Seal("r1", Seal("r1", <<>>, "note"), "big"), "checkpoint1")
SourceLog1 == Seal("r1", Log1, "restated")
Log2 == Seal("r2", <<>>, "checkpoint2")
Ref(run, commit) == [run |-> run, id |-> "c_1", sha |-> commit]
Id(run) == [run |-> run, id |-> "c_1"]

Whole ==
  [dirs |-> MCRuns, records |-> [r1 |-> "clean", r2 |-> "secret"],
   ledgers |-> [r1 |-> SourceLog1, r2 |-> Log2],
   refs |-> {Ref("r1", "commit1"), [Ref("r1", "commit1") EXCEPT !.id = "c_2"], Ref("r2", "commit2")},
   blobs |-> {"state1", "stale1", "state2", "payload", "artifact"},
   objects |-> {"commit1", "commit2", "tree", "blob"}]
MCStores == {Whole}

Target(run, checkpoint) == [run |-> run, checkpoint |-> checkpoint]
MCTargets == {Target("r1", "c_1"), Target("r1", "all"), Target("r2", "all")}

Option(workspace, ledger, artifacts, unsafe) ==
  [workspace |-> workspace, ledger |-> ledger, artifacts |-> artifacts, unsafe |-> unsafe]
MCOptions == {Option(TRUE, TRUE, FALSE, TRUE), Option(TRUE, TRUE, TRUE, FALSE),
              Option(FALSE, TRUE, TRUE, FALSE), Option(TRUE, FALSE, TRUE, FALSE)}

\* Bundles from elsewhere: each run, both in either order, and damaged ones.
Bytes(sha, text) == [of |-> sha, text |-> text]
ObjectsOfOne ==
  [commit1 |-> Bytes("commit1", "clean"), tree |-> Bytes("tree", "clean"),
   blob |-> Bytes("blob", "secret")]
BlobsOfOne ==
  [state1 |-> Bytes("state1", "clean"), payload |-> Bytes("payload", "clean"),
   artifact |-> Bytes("artifact", "secret")]
One ==
  [manifest |-> [runs |-> <<"r1">>, checkpoints |-> {Id("r1")},
                 blobs |-> {"state1", "payload", "artifact"},
                 refs |-> {Ref("r1", "commit1")}, unsafe |-> TRUE],
   foreign |-> FALSE, records |-> [r1 |-> "clean"], ledgers |-> [r1 |-> Log1],
   blobs |-> BlobsOfOne, objects |-> ObjectsOfOne, refs |-> {Ref("r1", "commit1")}]
Two ==
  [manifest |-> [runs |-> <<"r2">>, checkpoints |-> {Id("r2")}, blobs |-> {"state2"},
                 refs |-> {Ref("r2", "commit2")}, unsafe |-> TRUE],
   foreign |-> FALSE, records |-> [r2 |-> "secret"], ledgers |-> [r2 |-> Log2],
   blobs |-> [state2 |-> Bytes("state2", "clean")],
   objects |-> [commit2 |-> Bytes("commit2", "clean"), tree |-> Bytes("tree", "clean"),
                blob |-> Bytes("blob", "secret")],
   refs |-> {Ref("r2", "commit2")}]
Both(runs) ==
  [manifest |-> [runs |-> runs, checkpoints |-> {Id("r1"), Id("r2")},
                 blobs |-> {"state1", "payload", "artifact", "state2"},
                 refs |-> {Ref("r1", "commit1"), Ref("r2", "commit2")}, unsafe |-> TRUE],
   foreign |-> FALSE, records |-> One.records @@ Two.records, ledgers |-> One.ledgers @@ Two.ledgers,
   blobs |-> One.blobs @@ Two.blobs, objects |-> One.objects @@ Two.objects,
   refs |-> {Ref("r1", "commit1"), Ref("r2", "commit2")}]

WithRef(bundle, ref) == [bundle EXCEPT !.refs = {ref}, !.manifest.refs = {ref}]

MCReceived ==
  [both |-> Both(<<"r1", "r2">>), swapped |-> Both(<<"r2", "r1">>),
   one |-> One, two |-> Two,
   odd |-> [WithRef(Two, Ref("r2", "tree")) EXCEPT
              !.ledgers.r2 = Seal("r2", <<>>, "odd"),
              !.blobs = [artifact |-> Bytes("artifact", "secret")], !.manifest.blobs = {"artifact"},
              !.objects = [tree |-> Bytes("tree", "clean"), blob |-> Bytes("blob", "secret")]],
   borrowed |-> [Two EXCEPT !.ledgers.r2 = Seal("r2", <<>>, "borrowed"),
                            !.blobs = <<>>, !.manifest.blobs = {}],
   no_payload |-> [One EXCEPT !.blobs = [state1 |-> Bytes("state1", "clean")],
                              !.manifest.blobs = {"state1"}],
   no_state |-> [One EXCEPT !.blobs = [payload |-> Bytes("payload", "clean")],
                            !.manifest.blobs = {"payload"}],
   no_tree |-> [One EXCEPT !.objects = [commit1 |-> Bytes("commit1", "clean")]],
   moved |-> WithRef(One, Ref("r1", "commit2")),
   short |-> [One EXCEPT !.ledgers.r1 = SubSeq(@, 1, 2)],
   headless |-> [One EXCEPT !.ledgers.r1 = Tail(@)],
   edited |-> [One EXCEPT !.ledgers.r1[1].text = "marker"],
   redacted |-> [One EXCEPT !.objects.blob.text = "marker"],
   foreign |-> [One EXCEPT !.foreign = TRUE]]
=============================================================================
