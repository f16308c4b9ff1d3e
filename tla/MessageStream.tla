--------------------------- MODULE MessageStream ----------------------------
(***************************************************************************)
(* messagestream.js: the lines of a message go through a chunk emitter to  *)
(* memory, or to a spool file when they are many, and are read back, with  *)
(* the headers as they are then, by one pipe() after the other.            *)
(*                                                                         *)
(* A line is two pieces, of which the last has the line feed.  A chunk is  *)
(* a sequence of pieces and may begin or end in the middle of a line.  w   *)
(* is the writing side, r the reading side, immediates what setImmediate() *)
(* has to call.  r.rs holds every read stream that still runs: the one     *)
(* this.rs names, if r.reads_file, is the last.                            *)
(***************************************************************************)
EXTENDS ChunkEmitter, Integers, SequencesExt, FiniteSets

CONSTANTS ChunkSize,   \* pieces that fill the write emitter, and a read of the file
          ReadSize,    \* pieces that fill the read emitter
          SpoolAfter,  \* values of spool_after: -1, or pieces
          Options,     \* options pipe() is called with
          Reads,       \* bound: how often the message is read
          Faults       \* "batch", "overtake", "hangup"

VARIABLES w, r, immediates, headers, buffer_max, finished

streamVars == <<w, r, immediates, headers, buffer_max, finished>>

Line(kind, n)  == [kind |-> kind, n |-> n]
Piece(line, lf) == [kind |-> line.kind, n |-> line.n, lf |-> lf]
Pieces(line) == <<Piece(line, FALSE), Piece(line, TRUE)>>
AllPieces(lines) == FlattenSeq([i \in DOMAIN lines |-> Pieces(lines[i])])
Blank == Line("eoh", 0)
Dot   == Line("enddot", 0)

NewWriter == [ce |-> <<>>, queue |-> <<>>, spooling |-> FALSE, fd |-> FALSE,
              open_pending |-> FALSE, write_pending |-> FALSE, end_called |-> FALSE,
              complete |-> FALSE, done |-> 0, flying |-> <<>>, file |-> <<>>,
              on_disk |-> FALSE]
NewReader == [ce |-> <<>>, in_pipe |-> FALSE, listening |-> FALSE, paused |-> FALSE,
              rs |-> <<>>, reads_file |-> FALSE,
              done |-> FALSE, eoh |-> FALSE, opt |-> [stuffed |-> TRUE, dot |-> TRUE],
              sent |-> <<>>, out |-> <<>>, reads |-> 0]

StreamInit == /\ w = NewWriter /\ r = NewReader
              /\ immediates = <<>> /\ headers = <<>> /\ finished = <<>>
              /\ buffer_max \in SpoolAfter

------------------------------------------------------------------------------
(* Writing. *)

Buffered(v) == Len(FlattenSeq(v.queue))

\* Have we completely finished writing all data?
Written(v) == v.end_called /\ (~v.spooling \/ v.queue = <<>>)

\* The end of _write(): end_callback, and the reader that waits.
Complete(v, listening) ==
    [w   |-> [v EXCEPT !.done = @ + 1, !.complete = TRUE],
     imm |-> IF listening /\ ~v.complete THEN <<"read">> ELSE <<>>]

(* _write(), with the data pushed already.  A write of a full chunk, or a  *)
(* slow one, returns false and is drained later; ok is the other case.     *)
WriteOut(v0, listening, ok) ==
    LET v     == [v0 EXCEPT !.spooling = @ \/ (buffer_max # -1 /\ Buffered(v0) > buffer_max)]
        chunk == Head(v.queue)
        sent  == [v EXCEPT !.queue = Tail(@), !.flying = @ \o chunk,
                           !.write_pending = ~(ok /\ Len(chunk) < ChunkSize)]
    IN  IF v0.open_pending \/ v0.write_pending THEN [w |-> v0, imm |-> <<>>]
        ELSE IF Written(v) THEN Complete(v, listening)
        ELSE IF \/ buffer_max = -1
                \/ Buffered(v) < buffer_max /\ ~v.spooling
                \/ v.queue = <<>>             THEN [w |-> v, imm |-> <<>>]
        ELSE IF ~v.fd                         THEN [w |-> [v EXCEPT !.open_pending = TRUE], imm |-> <<>>]
        ELSE IF ~sent.write_pending /\ Written(sent) THEN Complete(sent, listening)
        ELSE [w |-> sent, imm |-> <<>>]

Push(v, chunk) == [v EXCEPT !.queue = Append(@, chunk)]

\* add_line(): _write() for every chunk the emitter gives.
AddLine(v, pieces) ==
    FoldLeft(LAMBDA acc, chunk : WriteOut(Push(acc, chunk), FALSE, FALSE).w,
             [v EXCEPT !.ce = Filled(@, pieces, ChunkSize)],
             Emitted(v.ce, pieces, ChunkSize))

\* add_line_end().
AddLineEnd(v, listening, ok) ==
    LET ended == [v EXCEPT !.end_called = TRUE, !.ce = <<>>]
    IN  WriteOut(IF v.ce = <<>> THEN ended ELSE Push(ended, v.ce), listening, ok)

------------------------------------------------------------------------------
(* Reading. *)

LastLf(buf) == Max({i \in DOMAIN buf : buf[i].lf} \cup {0})

\* Mistake: the headers of the body are sent again.
MistakeSkipped(v, buf) == 0

\* process_buf(): lines up to the empty one are skipped, headers being sent.
Skipped(v, buf) ==
    LET eohs == {i \in 1 .. LastLf(buf) : buf[i].kind = "eoh" /\ buf[i].lf}
    IN  IF ~v.done \/ v.eoh THEN 0
        ELSE IF eohs = {} THEN LastLf(buf) ELSE Min(eohs)

\* A dot is taken off a line that is whole; what is left of buf goes as it is.
Unstuffed(p) == IF p.kind = "dots" /\ ~p.lf THEN [p EXCEPT !.kind = "text"] ELSE p
Processed(v, buf) ==
    LET from == Skipped(v, buf)
    IN  [i \in 1 .. Len(buf) - from |->
            IF v.opt.stuffed \/ from + i > LastLf(buf) THEN buf[from + i] ELSE Unstuffed(buf[from + i])]

\* read_ce.fill(), whose data events go to the destination while it listens.
Give(v, pieces) ==
    LET out == FlattenSeq(Emitted(v.ce, pieces, ReadSize))
    IN  [v EXCEPT !.ce = Filled(@, pieces, ReadSize),
                  !.out = IF v.listening THEN @ \o out ELSE @]

ProcessBuf(v, buf) ==
    [Give(v, Processed(v, buf)) EXCEPT
        !.eoh = @ \/ (v.done /\ Skipped(v, buf) > 0 /\ buf[Skipped(v, buf)].kind = "eoh")]

\* _read_finish(): what is held goes, and 'end', whose listeners clean up.
ReadFinish(v) ==
    LET g == Give(v, IF v.opt.dot THEN Pieces(Dot) ELSE <<>>)
    IN  [g EXCEPT !.out = IF g.listening THEN @ \o g.ce ELSE @, !.ce = <<>>,
                  !.in_pipe = FALSE, !.listening = FALSE]

\* _read(): headers first, the rest in a later turn, from memory or the file.
Read(v) ==
    IF v.paused \/ ~w.complete THEN [r |-> v, imm |-> <<>>]
    ELSE IF headers # <<>> /\ ~v.done
    THEN [r |-> Give([v EXCEPT !.done = TRUE, !.sent = headers], AllPieces(headers) \o Pieces(Blank)),
          imm |-> <<"read">>]
    ELSE IF w.queue # <<>>
    THEN [r |-> ReadFinish(FoldLeft(ProcessBuf, v, w.queue)), imm |-> <<>>]
    ELSE [r |-> [v EXCEPT !.rs = Append(@, [pos |-> 0, paused |-> FALSE]), !.reads_file = TRUE],
          imm |-> <<>>]

\* pipe(), up to the point where it may call _read().  A read stream that is
\* left from the last pipe() runs on, into the new emitter, and has no name.
Piped(v, opt) == [v EXCEPT !.in_pipe = TRUE, !.listening = TRUE, !.paused = FALSE, !.done = FALSE,
                           !.eoh = FALSE, !.reads_file = FALSE, !.ce = <<>>, !.out = <<>>, !.sent = <<>>,
                           !.opt = opt, !.reads = @ + 1]

\* pause(): of the read streams, only that of this.rs.
Paused(v) == [v EXCEPT !.paused = TRUE,
                       !.rs = IF v.reads_file THEN [@ EXCEPT ![Len(@)].paused = TRUE] ELSE @]

\* Data was emitted: the destination may ask for a pause.
Emits(v, v2) == v2.in_pipe /\ Len(v2.out) > Len(v.out)

(* What reading did becomes the next state; a finished read is recorded.   *)
Becomes(v, step) ==
    \E stop \in BOOLEAN :
        /\ stop => Emits(v, step)
        /\ r' = IF stop THEN Paused(step) ELSE step
        /\ finished' = IF v.listening /\ ~step.listening
                       THEN Append(finished, [out |-> step.out, opt |-> step.opt, sent |-> step.sent])
                       ELSE finished

\* An event may come before what setImmediate() has to call only in a batch.
InTurn == immediates = <<>> \/ "batch" \in Faults

------------------------------------------------------------------------------
(* Steps of the stream by itself. *)

\* A call of _write(), and of end_callback in it: a plugin may pipe() there,
\* and then listens before write_complete is set.
Writes(After(_), calls) ==
    \/ /\ w' = After(r.listening).w
       /\ immediates' = calls \o After(r.listening).imm
       /\ UNCHANGED r
    \/ /\ ~r.in_pipe /\ r.reads < Reads /\ After(TRUE).w.done > w.done
       /\ w' = After(TRUE).w
       /\ immediates' = calls \o After(TRUE).imm
       /\ \E opt \in Options : r' = Piped(r, opt)

RunImmediate ==
    /\ immediates # <<>>
    /\ \/ /\ Head(immediates) = "write"
          /\ \E ok \in BOOLEAN : Writes(LAMBDA l : WriteOut(w, l, ok), Tail(immediates))
          /\ UNCHANGED finished
       \/ /\ Head(immediates) = "read"
          /\ immediates' = Tail(immediates) \o Read(r).imm
          /\ Becomes(r, Read(r).r)
          /\ UNCHANGED w
    /\ UNCHANGED <<headers, buffer_max>>

\* 'open' of the spool file.
Opened ==
    /\ w.open_pending
    /\ w' = [w EXCEPT !.open_pending = FALSE, !.fd = TRUE, !.on_disk = TRUE]
    /\ immediates' = Append(immediates, "write")
    /\ UNCHANGED <<r, headers, buffer_max, finished>>

\* Mistake: the listener for 'drain' stays.
MistakeDrained ==
    /\ w.flying # <<>>
    /\ w' = [w EXCEPT !.file = @ \o w.flying, !.flying = <<>>, !.write_pending = FALSE]
    /\ immediates' = Append(immediates, "write")
    /\ UNCHANGED <<r, headers, buffer_max, finished>>

\* The disk has what was written; 'drain' if write() returned false.
Drained ==
    /\ w.flying # <<>>
    /\ w' = [w EXCEPT !.file = @ \o w.flying, !.flying = <<>>, !.write_pending = FALSE]
    /\ immediates' = IF w.write_pending THEN Append(immediates, "write") ELSE immediates
    /\ UNCHANGED <<r, headers, buffer_max, finished>>

\* A plugin reads the message; pipe() throws while another one does.
Pipe ==
    /\ w.done > 0 /\ ~r.in_pipe /\ r.reads < Reads
    /\ \E opt \in Options :
          LET v == Piped(r, opt)
          IN  /\ Becomes(v, Read(v).r)
              /\ immediates' = immediates \o Read(v).imm
    /\ UNCHANGED <<w, headers, buffer_max>>

\* 'data' or 'end' of a file that is read: all that were opened still run.
FromFile ==
    \E i \in DOMAIN r.rs :
        LET s    == r.rs[i]
            upto == Min({s.pos + ChunkSize, Len(w.file)})
            next == [r EXCEPT !.rs[i].pos = upto]
        IN  /\ ~s.paused
            /\ "overtake" \in Faults \/ w.flying = <<>>
            /\ Becomes(r, IF s.pos = Len(w.file)
                          THEN [ReadFinish(r) EXCEPT !.rs = RemoveAt(@, i)]
                          ELSE ProcessBuf(next, SubSeq(w.file, s.pos + 1, upto)))
            /\ UNCHANGED <<w, immediates, headers, buffer_max>>

\* The destination drains: resume().
Resume ==
    /\ r.paused /\ r.in_pipe /\ InTurn
    /\ LET v    == [r EXCEPT !.paused = FALSE]
           last == Len(r.rs)
           step == IF r.reads_file THEN [r |-> [v EXCEPT !.rs[last].paused = FALSE], imm |-> <<>>]
                   ELSE Read(v)
       IN  /\ Becomes(r, step.r)
           /\ immediates' = immediates \o step.imm
    /\ UNCHANGED <<w, headers, buffer_max>>

\* A plugin adds a header, between or during the reads.
AddHeader ==
    /\ w.done > 0
    /\ \A i \in DOMAIN headers : headers[i].kind # "added"
    /\ headers' = Append(headers, Line("added", 0))
    /\ UNCHANGED <<w, r, immediates, buffer_max, finished>>

\* destroy(): the file that is open is closed and unlinked; one that is being
\* opened is not there yet to be unlinked.
Destroyed(v) == [v EXCEPT !.on_disk = FALSE]

StreamSteps == RunImmediate \/ Opened \/ Drained \/ FromFile \/ Resume
=============================================================================
