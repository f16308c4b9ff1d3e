----------------------------- MODULE Transaction ----------------------------
(***************************************************************************)
(* transaction.js: each line of DATA goes through the body parser, when a  *)
(* plugin asks for it, to the message stream; attachments go to the        *)
(* streams plugins get (attachment_stream.js), as plugins/attachment.js    *)
(* uses them, which may pause the connection.                              *)
(*                                                                         *)
(* An attachment that is stored: paused until its temporary file is there, *)
(* piped to it, unpacked when that file is closed.                         *)
(***************************************************************************)
EXTENDS MessageStream, MailBody

CONSTANTS Messages,  \* the messages a client may send: sequences of kinds of lines
          Parsing    \* values of [parse: body is parsed, filters: a banner is set,
                    \* back: stream.connection is set, for backpressure,
                    \* faults: a set of "tmpfile", "file", which may fail]

VARIABLES msg, nth,            \* the message, and how many lines of it came
          asked,               \* parse_body and body_filters
          header_pos, bodies,  \* lines of headers, and the open bodies
          att,                 \* attachment streams, in the order of the message
          conn_paused,         \* the connection is paused by one of them
          count, hook,         \* attachment_count, and the hook that waits for it
          result,              \* attachment_result: "none", "denysoft"; "thrown": the process ends
          gone                 \* the connection has reset the transaction

partVars == <<att, conn_paused, count, hook, result>>
vars == <<streamVars, msg, nth, asked, header_pos, bodies, partVars, gone>>

NewStream == [paused |-> TRUE, buffer |-> <<>>, end_emitted |-> FALSE,
              got |-> <<>>, ends |-> 0, ws |-> "none"]

Init == /\ StreamInit
        /\ msg \in Messages /\ nth = 0 /\ asked \in Parsing
        /\ header_pos = 0 /\ bodies = <<>>
        /\ att = <<>> /\ conn_paused = FALSE /\ count = 0 /\ hook = "none" /\ result = "none" /\ gone = FALSE

LineOf(i) == Line(msg[i], i)

------------------------------------------------------------------------------
(* Attachment streams. *)

\* emit('end'): the file it is piped to is ended.
Ended(s) == [s EXCEPT !.ends = @ + 1, !.ws = IF @ = "open" THEN "ended" ELSE @]

\* emit_data() and emit_end(); full says that the file asks for a pause.
Take(s, e, full) ==
    CASE e.do = "data" /\ s.paused -> [s EXCEPT !.buffer = Append(@, e.what)]
      [] e.do = "data"             -> [s EXCEPT !.got = @ \o e.what, !.paused = full]
      [] e.do = "end" /\ s.paused  -> [s EXCEPT !.end_emitted = TRUE]
      [] OTHER                     -> Ended(s)

\* Mistake: the end is emitted before what is buffered.
MistakeResumed(s, n, full) ==
    LET given == [s EXCEPT !.got = @ \o FlattenSeq(SubSeq(s.buffer, 1, n)), !.paused = full,
                           !.buffer = SubSeq(@, n + 1, Len(@))]
    IN  IF s.end_emitted THEN Ended(given) ELSE given

\* resume(): the first n of the buffer, after which a write may return false.
Resumed(s, n, full) ==
    LET given == [s EXCEPT !.got = @ \o FlattenSeq(SubSeq(s.buffer, 1, n)), !.paused = full,
                           !.buffer = SubSeq(@, n + 1, Len(@))]
    IN  IF given.buffer = <<>> /\ s.end_emitted THEN Ended(given) ELSE given

\* The ways resume() may go: a file that is piped to may ask for a pause.
Resumes(s) == {Resumed(s, Len(s.buffer), FALSE)}
              \cup {Resumed(s, n, TRUE) : n \in {m \in 1 .. Len(s.buffer) : s.ws = "open"}}

\* connection.resume(), and then pause() again if the stream asks for it.
PutStream(i, s) == /\ att' = [att EXCEPT ![i] = s]
                   /\ conn_paused' = (asked.back /\ s.paused)

\* The events of a line, for the last stream that was started.
Feed(events) ==
    LET starts == SelectSeq(events, LAMBDA e : e.do = "start")
        rest   == SelectSeq(events, LAMBDA e : e.do # "start")
        all    == att \o [i \in DOMAIN starts |-> NewStream]
        n      == Len(all)
    IN  IF events = <<>> THEN UNCHANGED partVars
        ELSE \E full \in BOOLEAN :
                LET s == FoldLeft(LAMBDA acc, e : Take(acc, e, full), all[n], rest)
                IN  /\ full => all[n].ws = "open" /\ s.got # all[n].got
                    /\ att' = [all EXCEPT ![n] = s]
                    /\ conn_paused' = (asked.back /\ (conn_paused \/ starts # <<>> \/ s.paused))
                    /\ count' = count + Len(starts)
                    /\ UNCHANGED <<hook, result>>

\* next() of the plugin: the hook that waits goes on when none is left.
Next_(left) == IF left = 0 /\ hook = "waits" THEN "passed" ELSE hook

\* The temporary file is there: pipe() and resume().
TmpFile ==
    /\ InTurn
    /\ \E i \in DOMAIN att :
        /\ att[i].ws = "none"
        /\ \E s \in Resumes([att[i] EXCEPT !.ws = "open", !.paused = FALSE]) : PutStream(i, s)
    /\ UNCHANGED <<streamVars, msg, nth, asked, header_pos, bodies, count, hook, result, gone>>

\* It is not: cleanup() closes a descriptor that is undefined, which throws
\* before the stream is resumed, with nobody to catch it.
NoTmpFile ==
    /\ "tmpfile" \in asked.faults /\ InTurn
    /\ \E i \in DOMAIN att : att[i].ws = "none"
    /\ count' = count - 1 /\ result' = "thrown"
    /\ UNCHANGED <<streamVars, msg, nth, asked, header_pos, bodies, att, conn_paused, hook, gone>>

\* 'error' of the file, which unpipes it; its 'close' is still to come.
FileFails ==
    /\ "file" \in asked.faults
    /\ \E i \in DOMAIN att :
        /\ att[i].ws \in {"open", "ended"}
        /\ att' = [att EXCEPT ![i].ws = "failed"]
        /\ count' = count - 1 /\ result' = "denysoft"
        /\ hook' = Next_(count - 1)
    /\ UNCHANGED <<streamVars, msg, nth, asked, header_pos, bodies, conn_paused, gone>>

\* 'drain' of the file, and its 'close', resume a stream that is paused.
FileDrains ==
    /\ \E i \in DOMAIN att :
        /\ att[i].ws = "open" /\ att[i].paused
        /\ \E s \in Resumes(att[i]) : PutStream(i, s)
    /\ UNCHANGED <<streamVars, msg, nth, asked, header_pos, bodies, count, hook, result, gone>>

FileCloses ==
    /\ \E i \in DOMAIN att :
        /\ att[i].ws \in {"ended", "failed"}
        /\ LET s == [att[i] EXCEPT !.ws = "closed"]
           IN  IF s.paused THEN \E t \in Resumes(s) : PutStream(i, t)
               ELSE att' = [att EXCEPT ![i] = s] /\ UNCHANGED conn_paused
    /\ UNCHANGED <<streamVars, msg, nth, asked, header_pos, bodies, count, hook, result, gone>>

\* unarchive_recursive() calls back.
Unpacked ==
    /\ \E i \in DOMAIN att :
        /\ att[i].ws = "closed"
        /\ att' = [att EXCEPT ![i].ws = "unpacked"]
        /\ count' = count - 1
        /\ hook' = Next_(count - 1)
    /\ UNCHANGED <<streamVars, msg, nth, asked, header_pos, bodies, conn_paused, result, gone>>

\* wait_for_attachment_hooks(), of data_post.
WaitForAttachments ==
    /\ w.done > 0 /\ hook = "none" /\ ~gone
    /\ hook' = IF count > 0 THEN "waits" ELSE "passed"
    /\ UNCHANGED <<streamVars, msg, nth, asked, header_pos, bodies, att, conn_paused, count, result, gone>>

------------------------------------------------------------------------------
(* Lines. *)

\* The client's next line, when the connection takes it.
Comes == ~gone /\ nth < Len(msg) /\ ~conn_paused /\ InTurn

\* The empty line after the headers: they are parsed.
HeadersEnd ==
    /\ Comes /\ header_pos = 0 /\ msg[nth + 1] = "eoh"
    /\ nth' = nth + 1
    /\ headers' = [i \in 1 .. nth |-> LineOf(i)]
    /\ header_pos' = nth
    /\ bodies' = IF asked.parse
                 THEN <<[NewBody("start") EXCEPT !.ct = CtOf(msg[nth])]>> ELSE <<>>
    /\ w' = AddLine(w, Pieces(LineOf(nth + 1)))
    /\ UNCHANGED <<r, immediates, buffer_max, finished, msg, asked, partVars, gone>>

HeaderLine ==
    /\ Comes /\ header_pos = 0 /\ msg[nth + 1] # "eoh"
    /\ nth' = nth + 1
    /\ w' = AddLine(w, Pieces(LineOf(nth + 1)))
    /\ UNCHANGED <<r, immediates, headers, buffer_max, finished, msg, asked, header_pos, bodies, partVars, gone>>

BodyLine ==
    /\ Comes /\ header_pos > 0
    /\ nth' = nth + 1
    /\ LET line == LineOf(nth + 1)
           res  == ParseMore(bodies, line, asked.filters)
       IN  IF asked.parse
           THEN bodies' = res.bodies /\ w' = AddLine(w, AllPieces(res.out)) /\ Feed(res.events)
           ELSE bodies' = bodies /\ w' = AddLine(w, Pieces(line)) /\ UNCHANGED partVars
    /\ UNCHANGED <<r, immediates, headers, buffer_max, finished, msg, asked, header_pos, gone>>

\* The dot: end_data().  The callback may pipe the message before it returns.
EndData ==
    /\ ~gone /\ nth = Len(msg) /\ ~w.end_called /\ ~conn_paused /\ InTurn
    /\ LET res  == ParseEnd(bodies, asked.filters)
           last == IF asked.parse THEN AddLine(w, AllPieces(res.out)) ELSE w
       IN  /\ IF asked.parse THEN Feed(res.events) ELSE UNCHANGED partVars
           /\ \E ok \in BOOLEAN : Writes(LAMBDA l : AddLineEnd(last, l, ok), immediates)
    /\ UNCHANGED <<headers, buffer_max, finished, msg, nth, asked, header_pos, bodies, gone>>

------------------------------------------------------------------------------

\* Mistake: the reset forgets the message stream.
MistakeReset ==
    /\ ~gone
    /\ \/ w.done > 0 /\ hook = "passed" /\ ~r.in_pipe
       \/ "hangup" \in Faults
    /\ gone' = TRUE
    /\ UNCHANGED <<streamVars, msg, nth, asked, header_pos, bodies, partVars>>

\* The connection resets the transaction, when the queue plugin has read the
\* message, or when the client leaves.
Reset ==
    /\ ~gone
    /\ \/ w.done > 0 /\ hook = "passed" /\ ~r.in_pipe
       \/ "hangup" \in Faults
    /\ gone' = TRUE
    /\ w' = Destroyed(w)
    /\ UNCHANGED <<r, immediates, headers, buffer_max, finished, msg, nth, asked, header_pos, bodies, partVars>>

Stream == StreamSteps /\ UNCHANGED <<msg, nth, asked, header_pos, bodies, partVars, gone>>
Plugin == ~gone /\ (Pipe \/ AddHeader) /\ UNCHANGED <<msg, nth, asked, header_pos, bodies, partVars, gone>>
Lines  == HeadersEnd \/ HeaderLine \/ BodyLine \/ EndData
Parts  == TmpFile \/ NoTmpFile \/ FileFails \/ FileDrains \/ FileCloses \/ Unpacked \/ WaitForAttachments

Next == result # "thrown" /\ (Stream \/ Plugin \/ Lines \/ Parts \/ Reset)

(* The client sends the whole message; disks, files and setImmediate() go  *)
(* on; a transaction is reset.  Weak fairness, with what enables each of   *)
(* the groups written out: TLC is slow to find it.                         *)
StreamReady == \/ immediates # <<>> \/ w.open_pending \/ w.flying # <<>>
               \/ r.paused /\ r.in_pipe
               \/ w.flying = <<>> /\ \E i \in DOMAIN r.rs : ~r.rs[i].paused
LinesReady  == ~gone /\ ~conn_paused /\ InTurn /\ ~w.end_called
PartsReady  == \/ \E i \in DOMAIN att : \/ att[i].ws = "none" /\ InTurn
                                        \/ att[i].ws = "open" /\ att[i].paused
                                        \/ att[i].ws \in {"ended", "failed", "closed"}
               \/ ~gone /\ w.done > 0 /\ hook = "none"

Fairness == \/ <>(result = "thrown")
            \/ /\ []<>~StreamReady \/ []<><<Stream>>_vars
               /\ []<>~LinesReady \/ []<><<Lines>>_vars
               /\ []<>~PartsReady \/ []<><<Parts>>_vars
               /\ WF_vars(Reset)

Spec     == Init /\ [][Next]_vars
FairSpec == Spec /\ Fairness

(***************************************************************************)
(* Properties                                                              *)
(***************************************************************************)

Boundaries == {"o", "o--", "i", "i--"}
Unbroken(i, j) == \A k \in i + 1 .. j - 1 : msg[k] \notin Boundaries

\* A text part ends before line i (or with the message): the banner's place.
TextEnds(i) == \E j \in 1 .. i - 1 : /\ Declares(msg[j]) /\ CtOf(msg[j]) = "text" /\ Unbroken(j, i)
                                     /\ \A k \in j + 1 .. i - 1 : ~Declares(msg[k])
Bannered(i) == IF asked.filters /\ (i > Len(msg) \/ msg[i] \in Boundaries) /\ TextEnds(i)
               THEN Pieces(Line("banner", 0)) ELSE <<>>

\* What a reader should get with opt of a message whose headers are hs.
Clean(line, opt) == IF line.kind = "dots" /\ ~opt.stuffed THEN [line EXCEPT !.kind = "text"] ELSE line
Whole(opt, hs) ==
    LET from == header_pos + 1
        body == [i \in 1 .. Len(msg) + 1 - from |->
                    Bannered(from + i) \o
                    (IF from + i > Len(msg) THEN <<>>
                     ELSE <<Piece(Clean(LineOf(from + i), opt), FALSE), Piece(LineOf(from + i), TRUE)>>)]
    IN  AllPieces(hs) \o Pieces(Blank) \o FlattenSeq(body) \o (IF opt.dot THEN Pieces(Dot) ELSE <<>>)

\* end_callback, which starts the data_post hooks, is called once.
EndsOnce == w.done =< 1

\* What a plugin or the queue reads back is what the client sent, with the
\* headers of that moment, in order and once, from memory or from the file,
\* wherever chunks are cut and however often and slowly it is read.
ReadsWhole ==
    /\ \A i \in DOMAIN finished : finished[i].out = Whole(finished[i].opt, finished[i].sent)
    /\ r.in_pipe => IsPrefix(r.out, Whole(r.opt, r.sent))

\* The lines of the k-th attachment.
PartLines(k) ==
    LET j   == CHOOSE i \in DOMAIN msg : msg[i] = "p.att" /\ Cardinality({l \in 1 .. i : msg[l] = "p.att"}) = k
        eoh == Min({i \in j .. Len(msg) : msg[i] = "eoh"})
        end == Min({i \in eoh .. Len(msg) : msg[i] \in Boundaries})
    IN  [i \in 1 .. end - eoh - 1 |-> eoh + i]

\* The stream of an attachment gives its lines in order and all of them before
\* its end, through any pauses, and data_post waits until all files are unpacked,
\* or knows that one failed and refuses the message (check_attachments).
AttachmentsWhole ==
    /\ \A k \in DOMAIN att : /\ IsPrefix(att[k].got, PartLines(k))
                             /\ att[k].ends > 0 => att[k].got = PartLines(k)
    /\ hook = "passed" /\ result = "none" => \A k \in DOMAIN att : att[k].ws = "unpacked"

\* A message that was sent ends, once, its attachments are waited for no longer
\* than they take, whoever reads it comes to its end, and no file is left, unless
\* an error nobody catches ends the process.
DataEnds == /\ []EndsOnce
            /\ \/ <>(result = "thrown")
               \/ /\ <>(w.done > 0 /\ hook = "passed")
                  /\ [](r.in_pipe => <>~r.in_pipe)
                  /\ <>[](gone /\ ~w.on_disk)
=============================================================================
