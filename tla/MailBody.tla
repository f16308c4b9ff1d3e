------------------------------ MODULE MailBody ------------------------------
(***************************************************************************)
(* The body parser of mailbody.js, as operators on its state.              *)
(*                                                                         *)
(* A line is a record of its kind and number.  Bodies nest, and only the   *)
(* last child of each takes lines: the state is the chain of open bodies,  *)
(* outermost first.  The root's boundary is "o", a nested one's "i".  What *)
(* a line of headers says of its part is in its kind.                      *)
(***************************************************************************)
EXTENDS Naturals, Sequences, SequencesExt, FiniteSetsExt

CONSTANT BufSize   \* lines of an attachment that fill buf

\* ct is what the part's content-type will be when its headers are parsed.
NewBody(state) == [state |-> state, ct |-> "text", held |-> <<>>, fill |-> <<>>]

Boundary(bodies, i) == IF i = 1 THEN "o" ELSE "i"
Begins(line, b) == line.kind \in {b, b \o "--"}
Closes(line)    == line.kind \in {"o--", "i--"}

\* A header line that sets the content-type.
CtOf(kind) == CASE kind \in {"h.multi", "p.multi"} -> "multi"
                [] kind = "p.att"                  -> "att"
                [] OTHER                           -> "text"
Declares(kind) == kind \in {"h.multi", "p.multi", "p.att", "p.text", "h.text"}

\* _empty_filter() and the filters parse_end() runs: a banner goes into text.
Filtered(body, filters) ==
    IF filters /\ body.ct = "text"
    THEN body.held \o <<[kind |-> "banner", n |-> 0]>>
    ELSE body.held

Result(bodies, out, events) == [bodies |-> bodies, out |-> out, events |-> events]

(* parse_end() of one body.  Its children are not ended. *)
EndOut(body, filters, line) ==
    IF filters \/ body.held = <<>> THEN Filtered(body, filters) \o line ELSE line
EndEvents(body) ==
    IF body.state # "attachment" THEN <<>>
    ELSE (IF body.fill = <<>> THEN <<>> ELSE <<[do |-> "data", what |-> body.fill]>>)
         \o <<[do |-> "end", what |-> <<>>]>>

(* parse_start(): what a part is, when its first line comes. *)
StartOf(ct) == CASE ct = "text"  -> "body"
                 [] ct = "multi" -> "multipart_preamble"
                 [] OTHER        -> "attachment"

(* The last body of the chain takes a line no boundary is in. *)
ParseLast(bodies, line, filters) ==
    LET d      == Len(bodies)
        b      == bodies[d]
        state  == IF b.state = "start" THEN StartOf(b.ct) ELSE b.state
        opened == IF b.state = "start" /\ state = "attachment"
                  THEN <<[do |-> "start", what |-> <<>>]>> ELSE <<>>
        put(nb) == [bodies EXCEPT ![d] = nb]
    IN  CASE state = "headers" ->
               Result(put(IF line.kind = "eoh" THEN [b EXCEPT !.state = "start"]
                          ELSE IF Declares(line.kind) THEN [b EXCEPT !.ct = CtOf(line.kind)] ELSE b),
                      <<line>>, <<>>)
          [] state = "body" ->
               Result(put([b EXCEPT !.state = state, !.held = Append(@, line)]),
                      IF filters THEN <<>> ELSE <<line>>, <<>>)
          [] state = "multipart_preamble" ->
               Result(IF line.kind = Boundary(bodies, d)
                      THEN Append(put([b EXCEPT !.state = "child"]), NewBody("headers"))
                      ELSE put([b EXCEPT !.state = state]),
                      <<line>>, <<>>)
          [] state = "attachment" ->
               LET full == Len(b.fill) + 1 > BufSize
               IN  Result(put([b EXCEPT !.state = state,
                                        !.fill = IF full THEN <<line.n>> ELSE Append(@, line.n)]),
                          <<line>>,
                          opened \o (IF full THEN <<[do |-> "data", what |-> b.fill]>> ELSE <<>>))
          [] OTHER -> Result(bodies, EndOut(b, filters, <<line>>), EndEvents(b))

(* parse_more(): parse_child() of each body looks for its own boundary     *)
(* first, from the root inwards, and ends its last child, and no deeper.   *)
ParseMore(bodies, line, filters) ==
    LET hits == {i \in DOMAIN bodies : bodies[i].state = "child" /\ Begins(line, Boundary(bodies, i))}
        i    == Min(hits)
        kept == SubSeq(bodies, 1, i)
    IN  IF hits = {} THEN ParseLast(bodies, line, filters)
        ELSE Result(IF Closes(line) THEN [kept EXCEPT ![i].state = "end"]
                    ELSE Append(kept, NewBody("headers")),
                    EndOut(bodies[i + 1], filters, <<line>>), EndEvents(bodies[i + 1]))

(* parse_end() of the root, when the message ends. *)
ParseEnd(bodies, filters) ==
    Result(bodies, EndOut(bodies[1], filters, <<>>), EndEvents(bodies[1]))
=============================================================================
