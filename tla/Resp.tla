-------------------------------- MODULE Resp --------------------------------
(***************************************************************************)
(* The RESP codec of package resp: the encoders of reply.go (ToBytes) and *)
(* the stream parser of parser.go (ParseStream / parse0, readLine,        *)
(* parseLine, parseArray, parseBulk), as pure operators over byte         *)
(* sequences.  A byte is a one-character string, except that "CR" and    *)
(* "LF" stand for '\r' and '\n'.                                          *)
(*                                                                         *)
(* Replies are records:                                                    *)
(*   [t |-> "status" | "error", s |-> bytes]                               *)
(*   [t |-> "int", n |-> integer]                                          *)
(*   [t |-> "bulk", arg |-> Arg]       (BulkReply)                         *)
(*   [t |-> "multi", args |-> <<Arg, ...>>]   (MultiBulkReply, Args # nil) *)
(*   [t |-> "multi", null |-> TRUE]     (MultiBulkReply with Args = nil)   *)
(*   [t |-> "nilptr"]                   (a nil *MultiBulkReply)            *)
(* where an Arg is [null |-> TRUE] (a nil []byte) or [null |-> FALSE,     *)
(* b |-> bytes].                                                           *)
(*                                                                         *)
(* What parse0 sends is a payload [k |-> "data", r |-> reply] or          *)
(* [k |-> "err", e |-> "eof" | "err"] (io.EOF or any other error); a      *)
(* runtime panic of the parsing goroutine is [k |-> "panic"] and ends the *)
(* stream.                                                                 *)
(***************************************************************************)
EXTENDS Integers, Sequences, SequencesExt, FiniteSetsExt

CONSTANTS
    ArgBytesMax,   \* longest argument enumerated
    Pipelines      \* bounds of the pipelines enumerated: <<commands, args each>>

CRLF == <<"CR", "LF">>

DigitChars == <<"0", "1", "2", "3", "4", "5", "6", "7", "8", "9">>

RECURSIVE Digits(_)
Digits(n) == IF n < 10 THEN <<DigitChars[n + 1]>>
             ELSE Digits(n \div 10) \o <<DigitChars[(n % 10) + 1]>>

\* strconv.Itoa / strconv.FormatInt(n, 10)
Itoa(n) == IF n < 0 THEN <<"-">> \o Digits(-n) ELSE Digits(n)

DigitValue == [c \in {DigitChars[i] : i \in 1..10} |->
                  CHOOSE v \in 0..9 : DigitChars[v + 1] = c]

\* strconv.Atoi / ParseInt(s, 10, 64): an optional sign, then one or more
\* decimal digits; anything else is an error.
Atoi(s) ==
    LET neg == s # <<>> /\ s[1] = "-"
        ds  == IF s # <<>> /\ s[1] \in {"+", "-"} THEN Tail(s) ELSE s
        abs == LET v[i \in 0..Len(ds)] ==
                       IF i = 0 THEN 0 ELSE 10 * v[i - 1] + DigitValue[ds[i]]
               IN v[Len(ds)]
    IN IF ds # <<>> /\ \A i \in 1..Len(ds) : ds[i] \in DOMAIN DigitValue
       THEN [ok |-> TRUE, val |-> IF neg THEN -abs ELSE abs]
       ELSE [ok |-> FALSE]

Arg(b) == [null |-> FALSE, b |-> b]
NilArg == [null |-> TRUE]

(***************************************************************************)
(* reply.go                                                                *)
(***************************************************************************)
\* The bulk string encoding MultiBulkReply.ToBytes and BulkReply.ToBytes
\* share: $-1 for nil, else $<len>, the bytes and CRLF.
ArgBytes(a) ==
    IF a.null THEN <<"$", "-", "1">> \o CRLF
    ELSE <<"$">> \o Itoa(Len(a.b)) \o CRLF \o a.b \o CRLF

ToBytes(r) ==
    CASE r.t = "status" -> <<"+">> \o r.s \o CRLF
      [] r.t = "error"  -> <<"-">> \o r.s \o CRLF
      [] r.t = "int"    -> <<":">> \o Itoa(r.n) \o CRLF
      [] r.t = "bulk"   -> ArgBytes(r.arg)
      [] r.t = "multi" /\ "null" \in DOMAIN r -> <<"*", "-", "1">> \o CRLF
      [] r.t = "multi"  -> <<"*">> \o Itoa(Len(r.args)) \o CRLF
                              \o FlattenSeq([i \in 1..Len(r.args) |-> ArgBytes(r.args[i])])

(***************************************************************************)
(* parser.go                                                               *)
(***************************************************************************)
\* readLine: ReadBytes('\n') fails with io.EOF when no '\n' is left; a
\* line not ending in "\r\n" is a protocol error; else the line without
\* its CRLF.
ReadLine(s) ==
    LET i == SelectInSeq(s, LAMBDA c : c = "LF")
    IN IF i = 0 THEN [st |-> "eof"]
       ELSE IF i > 1 /\ s[i - 1] = "CR"
       THEN [st |-> "ok", line |-> SubSeq(s, 1, i - 2), rest |-> SubSeq(s, i + 1, Len(s))]
       ELSE [st |-> "err"]

\* io.ReadFull of n bytes: io.EOF if none is left, ErrUnexpectedEOF if
\* some but fewer than n are.
ReadFull(s, n) ==
    IF Len(s) >= n THEN "ok" ELSE IF s = <<>> THEN "eof" ELSE "err"

Fail(st) == [st |-> st]
Done(r, rest) == [st |-> "ok", reply |-> r, rest |-> rest]

\* Mutant: the body is read as n bytes, without its trailing CRLF.
ParseBulkNoCrlf(header, s) ==
    LET a == Atoi(Tail(header))
    IN IF ~a.ok THEN Fail("err")
       ELSE IF a.val = -1 THEN Done([t |-> "bulk", arg |-> NilArg], s)
       ELSE IF a.val < 0 THEN Fail("panic")
       ELSE IF ReadFull(s, a.val) # "ok" THEN Fail(ReadFull(s, a.val))
       ELSE Done([t |-> "bulk", arg |-> Arg(SubSeq(s, 1, a.val))],
                 SubSeq(s, a.val + 1, Len(s)))

\* parseBulk: $-1 is the nil bulk; any other negative length panics
\* (make([]byte, n+2) with n+2 < 0, or body[n] with n = -2); else n+2
\* bytes are read and must end in CRLF.
ParseBulk(header, s) ==
    LET a == Atoi(Tail(header))
        n == a.val
    IN IF ~a.ok THEN Fail("err")
       ELSE IF n = -1 THEN Done([t |-> "bulk", arg |-> NilArg], s)
       ELSE IF n < 0 THEN Fail("panic")
       ELSE IF ReadFull(s, n + 2) # "ok" THEN Fail(ReadFull(s, n + 2))
       ELSE IF SubSeq(s, n + 1, n + 2) # CRLF THEN Fail("err")
       ELSE Done([t |-> "bulk", arg |-> Arg(SubSeq(s, 1, n))],
                 SubSeq(s, n + 3, Len(s)))

RECURSIVE ParseElems(_, _, _)

\* Mutant: the element loop stops at end of input and returns the
\* elements read so far.
ParseElemsStopAtEof(k, s, args) ==
    IF k = 0 THEN Done([t |-> "multi", args |-> args], s)
    ELSE LET l == ReadLine(s)
         IN IF l.st = "eof" THEN Done([t |-> "multi", args |-> args], s)
            ELSE IF l.st # "ok" THEN Fail(l.st)
            ELSE IF l.line = <<>> THEN Fail("panic")
            ELSE IF l.line[1] # "$" THEN Fail("err")
            ELSE LET b == ParseBulk(l.line, l.rest)
                 IN IF b.st # "ok" THEN b
                    ELSE ParseElems(k - 1, b.rest, Append(args, b.reply.arg))

\* The element loop of parseArray: every element line must start with
\* '$' (an empty line panics on line[0]).
ParseElems(k, s, args) ==
    IF k = 0 THEN Done([t |-> "multi", args |-> args], s)
    ELSE LET l == ReadLine(s)
         IN IF l.st # "ok" THEN Fail(l.st)
            ELSE IF l.line = <<>> THEN Fail("panic")
            ELSE IF l.line[1] # "$" THEN Fail("err")
            ELSE LET b == ParseBulk(l.line, l.rest)
                 IN IF b.st # "ok" THEN b
                    ELSE ParseElems(k - 1, b.rest, Append(args, b.reply.arg))

\* parseArray: *-1 returns (nil, nil), which parseLine hands on as a nil
\* *MultiBulkReply; another negative count panics in make.
ParseArray(header, s) ==
    LET a == Atoi(Tail(header))
    IN IF ~a.ok THEN Fail("err")
       ELSE IF a.val = -1 THEN Done([t |-> "nilptr"], s)
       ELSE IF a.val < 0 THEN Fail("panic")
       ELSE ParseElems(a.val, s, <<>>)

\* parseLine: dispatch on the first byte.
ParseLine(line, s) ==
    IF line = <<>> THEN Fail("err")
    ELSE CASE line[1] = "*" -> ParseArray(line, s)
           [] line[1] = "$" -> ParseBulk(line, s)
           [] line[1] = "+" -> Done([t |-> "status", s |-> Tail(line)], s)
           [] line[1] = "-" -> Done([t |-> "error", s |-> Tail(line)], s)
           [] line[1] = ":" -> LET a == Atoi(Tail(line))
                               IN IF a.ok THEN Done([t |-> "int", n |-> a.val], s)
                                  ELSE Fail("err")
           [] OTHER -> Fail("err")

\* parse0: read a line (io.EOF ends the stream without a payload, another
\* error is sent and ends it), parse it, send the payload, stop after an
\* error.
RECURSIVE ParseStream(_)
ParseStream(s) ==
    LET l == ReadLine(s)
    IN IF l.st = "eof" THEN <<>>
       ELSE IF l.st # "ok" THEN <<[k |-> "err", e |-> l.st]>>
       ELSE LET p == ParseLine(l.line, l.rest)
            IN IF p.st = "ok" THEN <<[k |-> "data", r |-> p.reply]>> \o ParseStream(p.rest)
               ELSE IF p.st = "panic" THEN <<[k |-> "panic"]>>
               ELSE <<[k |-> "err", e |-> p.st]>>

-----------------------------------------------------------------------------
(***************************************************************************)
(* The checking model: every pipeline of commands a client can send       *)
(* (arrays of bulk strings, as MultiBulkReply.ToBytes writes them, which   *)
(* is also what PeerClient.Do writes), with arguments over 'a', '\r' and  *)
(* '\n' so that a CRLF inside an argument occurs.                         *)
(***************************************************************************)
VARIABLE pipeline

Args == {NilArg} \cup {Arg(b) : b \in UNION {[1..n -> {"a", "CR", "LF"}] : n \in 0..ArgBytesMax}}

Commands(n) == UNION {[1..m -> Args] : m \in 0..n}

AllPipelines == UNION {[1..p[1] -> Commands(p[2])] : p \in Pipelines}

Command(args) == [t |-> "multi", args |-> args]

Wire(cmds) == FlattenSeq([i \in 1..Len(cmds) |-> ToBytes(Command(cmds[i]))])

Init == pipeline \in AllPipelines

\* The input is fixed; the behaviour is a single state.
Next == UNCHANGED pipeline

Spec == Init /\ [][Next]_pipeline

\* parse0 over the bytes of a pipeline sends each command, in order, and
\* ends at EOF: the length prefixes and the CRLF checks of parseBulk put
\* every argument back together, CRLF inside one included.
PipelineRoundTrip ==
    ParseStream(Wire(pipeline))
        = [i \in 1..Len(pipeline) |-> [k |-> "data", r |-> Command(pipeline[i])]]

\* A connection that closes part-way through a pipeline (the stream ends
\* after any byte) gets the commands it sent whole, in order, then at most
\* one error payload, and never a command it did not send or a panic.
TruncatedStreamKeepsWholeCommands ==
    LET w    == Wire(pipeline)
        ends == [i \in 1..Len(pipeline) |-> Len(Wire(SubSeq(pipeline, 1, i)))]
    IN \A cut \in 0..Len(w) - 1 :
        LET got   == ParseStream(SubSeq(w, 1, cut))
            whole == Cardinality({i \in 1..Len(pipeline) : ends[i] <= cut})
        IN /\ Len(got) \in {whole, whole + 1}
           /\ \A i \in 1..whole : got[i] = [k |-> "data", r |-> Command(pipeline[i])]
           /\ Len(got) = whole + 1 => got[Len(got)].k = "err"

=============================================================================
