------------------------------ MODULE MCSftpPull ------------------------------
(***************************************************************************)
(* Instances of SftpPull for TLC.                                          *)
(***************************************************************************)
EXTENDS SftpPull, TLC

CONSTANTS s1, s2, c1, c2, k1, k2, f1, p1, p2

\* Two files, one file and its correction, or one file.
TwoFiles == {<<s1, c1>>, <<s2, c2>>}
OneCorrected == {<<s1, c1>>, <<s1, c2>>}
OneFile == {<<s1, c1>>}

\* The basename is the key of a trailer or timer file, the id of a manifest is
\* that of both its versions.
ByName(uploads) == [u \in uploads |-> IF u[1] = s1 THEN k1 ELSE k2]
AllComplete == [c \in Content |-> "complete"]
FirstIncomplete == [c \in Content |-> IF c = c1 THEN "incomplete" ELSE "complete"]

\* The names and byte counts of what lies on the remote.
Part1 == <<f1, 1>>
SomeObjects == {<<s1, 1>>, <<s1, 2>>, <<s2, 2>>, Part1}

NoParts == [c \in Content |-> {}]
OnePart == [c \in Content |-> {Part1}]
\* A manifest that does not parse and one with a part it declares otherwise.
SecondFlawed == [c \in Content |-> IF c = c1 THEN {} ELSE {Part1}]
SecondUnreadable == [c \in Content |-> IF c = c1 THEN "complete" ELSE "unreadable"]
AllUnreadable == [c \in Content |-> "unreadable"]

AFeed(mode, uploads, verdict, sends, runs) ==
  [mode |-> mode, uploads |-> uploads, key |-> ByName(uploads), verdict |-> verdict,
   declares |-> NoParts, flawed |-> NoParts, expected |-> FALSE, operator |-> FALSE,
   maxSent |-> sends, maxPulls |-> runs, until |-> 1]

\* A corrected file, a file still written to, a manifest before its part that
\* may be replaced by a flawed one, two defective manifests of one name, an
\* operator's pulls, two files beyond the byte budget, and an expected
\* delivery.
SomeFeeds ==
  {AFeed("trailer", OneCorrected, FirstIncomplete, 2, 2),
   AFeed("timer", OneCorrected, AllComplete, 2, 2),
   [AFeed("manifest", OneCorrected, SecondUnreadable, 2, 2)
      EXCEPT !.declares = OnePart, !.flawed = SecondFlawed],
   [AFeed("manifest", OneCorrected, AllUnreadable, 2, 2)
      EXCEPT !.declares = SecondFlawed, !.flawed = SecondFlawed],
   [AFeed("trailer", OneFile, AllComplete, 1, 2) EXCEPT !.operator = TRUE, !.until = 4],
   AFeed("trailer", TwoFiles, AllComplete, 2, 1),
   [AFeed("trailer", OneFile, AllComplete, 1, 1) EXCEPT !.expected = TRUE]}

Sizes == [c \in Content |-> IF c = c1 THEN 1 ELSE 2]

RunSymmetry == Permutations(Run)

================================================================================
