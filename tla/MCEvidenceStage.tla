--------------------------- MODULE MCEvidenceStage ---------------------------
(* Small documents for EvidenceStage.  The one that is ingested holds one    *)
(* paragraph twice and a table whose first column is merged; its execution   *)
(* text is cut into five overlapping chunks.                                *)
EXTENDS EvidenceStage, TLC

CONSTANTS gPara, gSpan, gTable, gCell

Plain(text) ==
    [text |-> text, level |-> 0, list |-> FALSE, label |-> None, number |-> None,
     figures |-> <<>>, math |-> <<>>, mentions |-> <<>>]

Picture == [value |-> <<"f">>, stored |-> TRUE]

MCParagraphs ==
    {Plain(<<>>), Plain(<<"w1", "w2">>),
     [Plain(<<"h">>) EXCEPT !.level = 1],
     [Plain(<<"h">>) EXCEPT !.level = 1, !.math = <<(<<"x">>)>>],
     [Plain(<<"Figure:", "f">>) EXCEPT !.label = "figure", !.number = 1],
     [Plain(<<"t">>) EXCEPT !.label = "table", !.number = 1],
     [Plain(<<"w1", "w2">>) EXCEPT !.label = "style", !.list = TRUE],
     [Plain(<<"w1", "w2">>) EXCEPT !.figures = <<Picture>>, !.mentions = <<1>>],
     [Plain(<<"-", "h">>) EXCEPT !.figures = <<Picture, [Picture EXCEPT !.stored = FALSE]>>],
     [Plain(<<"h">>) EXCEPT !.list = TRUE]}

Cell(text, span, merge) == [text |-> text, span |-> span, merge |-> merge, nested |-> FALSE]
RowOf(cells) == [cells |-> cells, offset |-> 0, header |-> FALSE]
Merges == {"none", "restart", "continue"}
Text(merge, word) == IF merge = "continue" THEN <<>> ELSE <<word>>

MCRows ==
    {RowOf(<<Cell(Text(m, "a"), 0, m), Cell(Text(n, "b"), 0, n)>>) : m \in Merges, n \in Merges}
    \cup {RowOf(<<Cell(Text(m, "a"), s, m)>>) : s \in {0, 2}, m \in Merges}
    \cup {RowOf(<<Cell(<<>>, 0, "continue"), [Cell(<<"c">>, 0, "none") EXCEPT !.nested = n]>>) :
             n \in BOOLEAN}
    \cup {RowOf(<<Cell(<<>>, 1, "continue"), Cell(<<"b">>, 0, "none")>>),
          [RowOf(<<Cell(<<"a">>, 0, "none")>>) EXCEPT !.offset = 1],
          [RowOf(<<Cell(<<"a">>, 0, "none"), Cell(<<"b">>, 0, "none")>>) EXCEPT !.header = TRUE]}

MCCorpus == <<(<<"w1", "w2">>), <<"w1", "w2">>,
              <<"|", "a", "|", "b", "|">>, <<"---">>, <<"|", "|", "c", "|">>>>

FigureLines == <<(<<"w1", "w2">>), <<"Figure:", "f">>, <<"Figure:", "f">>>>
MCTexts == {MCCorpus, FigureLines \o FigureLines}

MCChunks == 1..5
MCSource == <<(<<0, 4>>), <<4, 9>>, <<6, 18>>, <<9, 17>>, <<2, 6>>>>
MCAttributed == {1, 2, 5}

MCGolds == {gPara, gSpan, gTable, gCell}
MCLocator ==
    gPara :> [type |-> "object", obj |-> <<"block", 2>>]
    @@ gSpan :> [type |-> "span", obj |-> <<"block", 2>>, span |-> <<3, 5>>]
    @@ gTable :> [type |-> "object", obj |-> <<"table", 1>>]
    @@ gCell :> [type |-> "cell", obj |-> <<"cell", 1, 1>>]

MCQuotes == gPara :> <<3, 5>> @@ gSpan :> <<3, 5>> @@ gTable :> <<6, 18>> @@ gCell :> <<7, 8>>
MCQuoted ==
    [c \in MCChunks |-> {g \in MCGolds : \/ Holds(MCSource[c], MCQuotes[g])
                                         \/ MCQuotes[g] = <<3, 5>> /\ Holds(MCSource[c], <<0, 2>>)}]
MCUnique == {gCell}
=============================================================================
