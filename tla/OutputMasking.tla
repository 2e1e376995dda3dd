---------------------------- MODULE OutputMasking ----------------------------
(***************************************************************************)
(* What a step prints on its way to the log: lines are collected, workflow *)
(* commands are executed (internal/runner/workflow_commands.go), and the   *)
(* rest passes through a writer that hides the masks                       *)
(* (internal/runner/output.go).  Standard output and error have writers of *)
(* their own and share the masks and the command state.                    *)
(*                                                                         *)
(* Text is a sequence of symbols: "n" ends a line; a line that begins with *)
(* "M" is the command add-mask with the rest as its value, <<"S">> is      *)
(* stop-commands and <<"R">> the command that resumes them.  Commands that *)
(* only render text, problem matchers and the derived forms of a secret    *)
(* (base64, JSON...) are left out: a derived form is one more mask.        *)
(***************************************************************************)
EXTENDS Integers, Sequences, SequencesExt, FiniteSets

CONSTANTS
    Writers,            \* standard output and error
    Chunks,             \* what a process writes at once
    FirstMasks,         \* the masks a job begins with: a set of choices
    MaxCommandBytes,    \* maxWorkflowCommandBytes
    MaxMaskBytes,       \* maxMaskValueBytes
    BufferBytes,        \* maxOutputBufferBytes
    MaxText             \* bound: what the writers are given in all

VARIABLES
    written,    \* writer -> what the process wrote
    line,       \* writer -> [text, streaming]: the line collected so far
    passed,     \* writer -> what was passed on to be masked
    clear,      \* writer -> for each symbol of passed that left: is it shown?
    masks,      \* the masks, longest first
    known,      \* mask -> what each writer had passed when it was added
    stopped,    \* are commands stopped?
    broken,     \* the writers that refused a command for its length
    flushed,    \* the writers that are finished
    dropped     \* writer -> how many lines were executed and not printed

mvars == <<written, line, passed, clear, masks, known, stopped, broken, flushed, dropped>>

-----------------------------------------------------------------------------
(* outputMasker.                                                           *)

LongestFirst(ms, m) ==
    SelectSeq(ms, LAMBDA x : Len(x) >= Len(m)) \o <<m>> \o SelectSeq(ms, LAMBDA x : Len(x) < Len(m))

(* add.                                                                    *)
Ignored(ms, m) == m = <<>> \/ Len(m) > MaxMaskBytes \/ m \in Range(ms)
Added(ms, m) == IF Ignored(ms, m) THEN ms ELSE LongestFirst(ms, m)

Here(m, data, p) == Len(data) - p + 1 >= Len(m) /\ SubSeq(data, p, p + Len(m) - 1) = m

(* The mask that hides what begins at p: the first that is there.          *)
Hides(ms, data, p) ==
    LET there == {i \in DOMAIN ms : Here(ms[i], data, p)}
    IN IF there = {} THEN <<>> ELSE ms[CHOOSE i \in there : \A k \in there : i <= k]

(* What may leave: a mask might still begin in the rest.                   *)
LimitAll(ms, data, final) == Len(data)
Limit(ms, data, final) ==
    IF final \/ ms = <<>> THEN Len(data) ELSE Len(data) - Len(ms[1]) + 1

(* maskPrefix: for each symbol consumed, is it shown?                      *)
MaskPrefix(ms, data, final) ==
    LET step(acc, p) ==
          IF acc.hidden > 0 THEN [clear |-> Append(acc.clear, FALSE), hidden |-> acc.hidden - 1]
          ELSE LET m == Hides(ms, data, p)
               IN IF m = <<>> THEN [acc EXCEPT !.clear = Append(@, TRUE)]
                  ELSE [clear |-> Append(acc.clear, FALSE), hidden |-> Len(m) - 1]
        end == FoldLeft(step, [clear |-> <<>>, hidden |-> 0], [p \in 1..Limit(ms, data, final) |-> p])
    IN end.clear \o [i \in 1..end.hidden |-> FALSE]

(* maskingWriter: pass [passed, clear] with data in pieces that fit the    *)
(* buffer.                                                                 *)
Held(pass) == SubSeq(pass.passed, Len(pass.clear) + 1, Len(pass.passed))
Process(ms, pass, final) == [pass EXCEPT !.clear = @ \o MaskPrefix(ms, Held(pass), final)]

(* One round of Write's loop; rest is the data that is left.               *)
WriteRound(acc) ==
    LET room == BufferBytes - Len(Held(acc.pass))
        n == IF room < Len(acc.rest) THEN room ELSE Len(acc.rest)
    IN IF acc.rest = <<>> \/ acc.pass.failed THEN acc
       ELSE IF room = 0 THEN [acc EXCEPT !.pass.failed = TRUE]
       ELSE [pass |-> Process(masks, [acc.pass EXCEPT !.passed = @ \o SubSeq(acc.rest, 1, n)], FALSE),
             rest |-> SubSeq(acc.rest, n + 1, Len(acc.rest))]

(* Every round takes at least a byte, so that there are at most Len(data). *)
PassOn(pass, data) ==
    FoldLeft(LAMBDA acc, i : WriteRound(acc), [pass |-> pass, rest |-> data], data).pass

Pass(w) == [passed |-> passed[w], clear |-> clear[w], failed |-> FALSE]

-----------------------------------------------------------------------------
(* workflowCommandWriter.                                                  *)

IsCommand(text) == text # <<>> /\ text[1] \in {"M", "S"}
Stays == [masks |-> masks, stopped |-> stopped, print |-> TRUE]

(* processLine without its output: commandsStopped, handleCommand.         *)
Handle(text) ==
    CASE stopped -> [Stays EXCEPT !.stopped = text # <<"R">>]
      [] ~stopped /\ text # <<>> /\ text[1] = "M" ->
           [Stays EXCEPT !.masks = Added(masks, Tail(text)), !.print = FALSE]
      [] ~stopped /\ text = <<"S">> -> [Stays EXCEPT !.stopped = TRUE]
      [] OTHER -> Stays

Learn(added) ==
    known' = [m \in DOMAIN known \cup added |->
                IF m \in DOMAIN known THEN known[m] ELSE [w \in Writers |-> Len(passed[w])]]

(* writeUnmatched, once for each part.                                     *)
Emit(w, parts) ==
    LET pass == FoldLeft(PassOn, Pass(w), parts)
    IN /\ passed' = [passed EXCEPT ![w] = pass.passed]
       /\ clear' = [clear EXCEPT ![w] = pass.clear]

(* A process writes a chunk that ends at most one line; a longer write is  *)
(* several of these under one lock.                                        *)
NewText(w, chunk) ==
    /\ w \notin flushed \cup broken
    /\ FoldLeft(LAMBDA n, x : n + Len(written[x]), Len(chunk), SetToSeq(Writers)) <= MaxText
    /\ written' = [written EXCEPT ![w] = @ \o chunk]
    /\ UNCHANGED flushed

EndsLine(chunk) == Last(chunk) = "n"

EmptyLine == [text |-> <<>>, streaming |-> FALSE]

Long(text) == Len(text) > MaxCommandBytes
Refuses(w, text) == ~line[w].streaming /\ Long(text) /\ IsCommand(text)

(* A command that is too long fails the write, and stays collected.        *)
RefuseCommand(w, chunk) ==
    LET text == line[w].text \o (IF EndsLine(chunk) THEN Front(chunk) ELSE chunk)
    IN /\ Refuses(w, text)
       /\ NewText(w, chunk)
       /\ line' = [line EXCEPT ![w].text = text]
       /\ broken' = broken \cup {w}
       /\ UNCHANGED <<passed, clear, masks, known, stopped, dropped>>

(* Part of a line: it is collected until it is too long for a command.     *)
CollectPart(w, chunk) ==
    LET text == line[w].text \o chunk
    IN /\ ~EndsLine(chunk) /\ ~Refuses(w, text)
       /\ NewText(w, chunk)
       /\ IF line[w].streaming \/ Long(text)
          THEN Emit(w, <<text>>) /\ line' = [line EXCEPT ![w] = [text |-> <<>>, streaming |-> TRUE]]
          ELSE line' = [line EXCEPT ![w].text = text] /\ UNCHANGED <<passed, clear>>
       /\ UNCHANGED <<masks, known, stopped, broken, dropped>>

(* processLine.                                                            *)
ProcessLine(w, text) ==
    LET handled == Handle(text)
    IN /\ masks' = handled.masks
       /\ stopped' = handled.stopped
       /\ Learn(Range(handled.masks))
       /\ dropped' = IF handled.print THEN dropped ELSE [dropped EXCEPT ![w] = @ + 1]

(* The rest of a line: what is too long is passed on as it is.             *)
CollectLine(w, chunk) ==
    LET text == line[w].text \o Front(chunk)
        plain == line[w].streaming \/ Long(text)
    IN /\ EndsLine(chunk) /\ ~Refuses(w, text)
       /\ NewText(w, chunk)
       /\ IF plain \/ Handle(text).print THEN Emit(w, <<text, <<"n">> >>) ELSE UNCHANGED <<passed, clear>>
       /\ IF plain THEN UNCHANGED <<masks, known, stopped, dropped>> ELSE ProcessLine(w, text)
       /\ line' = [line EXCEPT ![w] = EmptyLine]
       /\ UNCHANGED broken

(* flush when the command has ended: the collected line counts as ended.   *)
FlushLeaves(w, text) ==
    IF text = <<>> THEN IF line[w].streaming THEN << <<"n">> >> ELSE <<>>
    ELSE IF Handle(text).print THEN <<text, <<"n">> >> ELSE <<>>

Flush(w) ==
    LET text == line[w].text
        pass == Process(Handle(text).masks, FoldLeft(PassOn, Pass(w), FlushLeaves(w, text)), TRUE)
    IN /\ w \notin flushed
       /\ passed' = [passed EXCEPT ![w] = pass.passed]
       /\ clear' = [clear EXCEPT ![w] = pass.clear]
       /\ IF text = <<>> THEN UNCHANGED <<masks, known, stopped, dropped>> ELSE ProcessLine(w, text)
       /\ line' = [line EXCEPT ![w] = EmptyLine]
       /\ flushed' = flushed \cup {w}
       /\ UNCHANGED <<written, broken>>

MaskingInit ==
    /\ written = [w \in Writers |-> <<>>]
    /\ line = [w \in Writers |-> EmptyLine]
    /\ passed = [w \in Writers |-> <<>>]
    /\ clear = [w \in Writers |-> <<>>]
    /\ \E first \in FirstMasks : masks = FoldLeft(Added, <<>>, first)
    /\ known = [m \in Range(masks) |-> [w \in Writers |-> 0]]
    /\ stopped = FALSE
    /\ broken = {}
    /\ flushed = {}
    /\ dropped = [w \in Writers |-> 0]

MaskingNext ==
    \E w \in Writers :
        \/ \E chunk \in Chunks : CollectPart(w, chunk) \/ CollectLine(w, chunk) \/ RefuseCommand(w, chunk)
        \/ Flush(w)

-----------------------------------------------------------------------------
(* However a process splits its output into writes, and whichever stream   *)
(* added the mask: no occurrence of a mask that begins after the mask was  *)
(* added is ever shown whole (maskPrefix keeps back what may grow).        *)
SecretNeverWhole ==
    \A w \in Writers : \A m \in DOMAIN known :
        \A p \in (known[m][w] + 1)..Len(passed[w]) :
            Here(m, passed[w], p) =>
                \E i \in p..(p + Len(m) - 1) : i > Len(clear[w]) \/ ~clear[w][i]

(* Nothing but masks is hidden, and nothing is lost: a hidden symbol is    *)
(* part of an occurrence of a mask, the buffer always has room for more,   *)
(* and a flushed writer has let everything out.                            *)
OnlySecretsHidden ==
    \A w \in Writers :
        /\ \A i \in DOMAIN clear[w] : ~clear[w][i] =>
             \E m \in DOMAIN known : \E p \in 1..i : p + Len(m) > i /\ Here(m, passed[w], p)
        /\ Len(passed[w]) - Len(clear[w]) < BufferBytes
        /\ w \in flushed => Len(clear[w]) = Len(passed[w])

(* The lines of a text, the last one ended if it is not.                   *)
Lines(text) ==
    LET closed == IF text = <<>> \/ Last(text) = "n" THEN text ELSE Append(text, "n")
        ends == {i \in DOMAIN closed : closed[i] = "n"}
        begin(e) == IF \E f \in ends : f < e
                    THEN 1 + (CHOOSE f \in ends : f < e /\ \A g \in ends : g < e => g <= f) ELSE 1
    IN [k \in 1..Cardinality(ends) |->
          LET e == CHOOSE x \in ends : Cardinality({y \in ends : y <= x}) = k
          IN SubSeq(closed, begin(e), e)]

(* Every line a process wrote is in its output, in order and once, except  *)
(* the ones that added a mask; writes, long lines and a missing last line  *)
(* end make no difference (Write, flush).                                  *)
LinesKept ==
    \A w \in flushed :
        LET ls == Lines(written[w])
        IN \E gone \in SUBSET {k \in DOMAIN ls : ls[k][1] = "M"} :
             /\ Cardinality(gone) = dropped[w]
             /\ passed[w] = FlattenSeq([k \in DOMAIN ls |-> IF k \in gone THEN <<>> ELSE ls[k]])
=============================================================================
