---------------------------- MODULE MCJsonLibrary ----------------------------
(* Texts: a few documents with every prefix and every change of one token,   *)
(* and all texts of at most three tokens.                                    *)
EXTENDS JsonLibrary

MCStrings == {"a", "A"}
MCLower == [s \in MCStrings |-> "a"]

Tokens == {"literal", "a", "[", "]", "{", "}", ",", ":"}
Documents ==
    {<<"[", "literal", ",", "[", "a", "]", "]">>,
     <<"[", "[", "]", ",", "{", "}", "]", "literal">>,
     <<"{", "a", ":", "number", ",", "A", ":", "[", "literal", "]", "}">>,
     <<"{", "a", ":", "{", "A", ":", "a", "}", "}">>}
Changed(t) == {[t EXCEPT ![k] = x] : k \in DOMAIN t, x \in Tokens}
MCLaterTexts == {<<"[", "a", ",", "}">>, <<"{", "a", ":", "[", "]", "}">>}
MCTexts == Documents \cup UNION {Changed(t) : t \in Documents}
               \cup UNION {{SubSeq(t, 1, n) : n \in 0 .. Len(t)} : t \in Documents}
               \cup UNION {[1 .. n -> Tokens] : n \in 1 .. 3}
               \cup MCLaterTexts
=============================================================================
