--------------------------- MODULE MCPolicySearch ---------------------------
(* Instances of PolicySearch for TLC, with the lengths of the program and   *)
(* lists scaled down.                                                       *)
EXTENDS PolicySearch

HeadingLine(n) == [kind |-> "heading", level |-> n]
BlankLine == [kind |-> "blank"]
Line(lengths) == [kind |-> "text", lengths |-> lengths]

(* Lines that fit, that end a buffer exactly or one character short of it,  *)
(* that have to be split between sentences, more than once, and a sentence  *)
(* that is too long for a chunk.                                            *)
SomeLines ==
    {HeadingLine(n) : n \in 1..3} \cup {BlankLine}
      \cup {Line(<<300>>), Line(<<299, 300>>), Line(<<600>>), Line(<<590, 20, 590>>),
            Line(<<250, 250, 250, 250>>), Line(<<700, 10>>)}

ShortTexts == UNION {[1..n -> SomeLines] : n \in 0..4}

(* Four paragraphs, of which each retriever lists three.                    *)
Paragraph == <<Line(<<300>>), BlankLine>>
FourParagraphs == Paragraph \o Paragraph \o Paragraph \o Paragraph

Searched == {FourParagraphs}
PolicyTexts == ShortTexts \cup Searched
=============================================================================
