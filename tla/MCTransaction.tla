---------------------------- MODULE MCTransaction ---------------------------
EXTENDS Transaction

\* A plain message that is cut in three chunks, one of text and an
\* attachment, one whose parts are in a multipart, and one with two attachments.
MCMessages == {
    <<"h.text", "eoh", "text", "dots", "text", "text">>,
    <<"h.multi", "eoh", "o", "p.text", "eoh", "text", "o", "p.att", "eoh", "text", "text", "text", "o--">>,
    <<"h.multi", "eoh", "o", "p.multi", "eoh", "i", "p.att", "eoh", "text", "i", "p.text", "eoh", "text",
      "i--", "o--", "text">>,
    <<"h.multi", "eoh", "o", "p.att", "eoh", "text", "o", "p.att", "eoh", "text", "text", "o--">> }

MCOptions == {[stuffed |-> TRUE, dot |-> TRUE], [stuffed |-> FALSE, dot |-> FALSE]}
\* The body is parsed or not, with a banner, without backpressure, or with files
\* of attachments that fail.
MCAsked(parse, filters, back, faults) == [parse |-> parse, filters |-> filters, back |-> back, faults |-> faults]
MCParsing == {MCAsked(FALSE, FALSE, FALSE, {}), MCAsked(TRUE, FALSE, FALSE, {}),
              MCAsked(TRUE, TRUE, TRUE, {}), MCAsked(TRUE, FALSE, TRUE, {"tmpfile", "file"})}
MCSpool   == {-1, 7}
=============================================================================
