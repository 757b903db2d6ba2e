------------------------------- MODULE MCS3Push -------------------------------
(***************************************************************************)
(* Instances of S3Push for TLC.                                            *)
(***************************************************************************)
EXTENDS S3Push, TLC

CONSTANTS s1, s2, c1, c2, c3, c4, k1, o1, o2, p1, p2

\* A trailer feed: the key is the basename, the object has one content or another.
OneSlotTwoContents == {<<s1, c1>>, <<s1, c2>>}
\* A manifest feed: two manifests carry the same manifest_id.
TwoManifestsOneKey == {<<s1, c1>>, <<s2, c2>>}
\* The same, and the partner may also overwrite the first manifest.
TwoManifestsOverwritten == TwoManifestsOneKey \cup {<<s1, c2>>}
\* The same, and two defective versions of the first manifest, which declare the
\* same parts; the second manifest has a defective version with other parts.
WithDefectiveManifests == TwoManifestsOverwritten \cup {<<s1, c3>>, <<s1, c4>>, <<s2, c3>>}
\* One object, sent once or again.
OneUpload == {<<s1, c1>>}

SameKey == [u \in Uploads |-> k1]
ObjectOfSlot == [u \in Uploads |-> IF u[1] = s1 THEN {o1} ELSE {o2}]
AllComplete == [c \in Content |-> "complete"]
LastUnreadable == [c \in Content |-> IF c \in {c1, c2} THEN "complete" ELSE "unreadable"]
SecondUnreadable == [c \in Content |-> IF c = c2 THEN "unreadable" ELSE "complete"]

RunSymmetry == Permutations(Run)

================================================================================
