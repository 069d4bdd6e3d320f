----------------------------- MODULE MCVariables -----------------------------
EXTENDS Variables

\* Two strings, longer and shorter than an int, the lengths of both, and the longer
\* one without its end.
MCContents == {"ab", "abcd", "abc", "3", "5"}
MCTexts == {"ab", "abcd"}
MCBytes ==
  [c \in MCContents |-> IF c = "ab" THEN 3 ELSE IF c = "abcd" THEN 5 ELSE 4]
MCAsInt == [c \in MCContents |-> IF c = "3" THEN 3 ELSE IF c = "5" THEN 5 ELSE 9]
MCLengthOf == [t \in MCTexts |-> IF t = "ab" THEN "3" ELSE "5"]
MCParts == [c \in MCContents |-> IF c = "abcd" THEN {"abc"} ELSE {}]
===============================================================================
