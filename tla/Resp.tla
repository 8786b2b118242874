-------------------------------- MODULE Resp --------------------------------
(***************************************************************************)
(* The parser of requests (include/kvllay/resp.hpp): what parse_command     *)
(* makes of the bytes that have arrived so far.  A request is an array of   *)
(* strings with their lengths, or a line with words, quotes and escapes.    *)
(*                                                                         *)
(* Bytes are strings of one character; positions count from 1.              *)
(***************************************************************************)
EXTENDS Integers, FiniteSetsExt, SequencesExt

CONSTANTS Reserve,  \* what scratch_unescape_buf_ holds before it grows
          Garbage   \* an argument that has been overwritten

ASSUME ReserveAssumption == Reserve \in Nat

Digit == [d \in {"0", "1", "2", "3", "4", "5", "6", "7", "8", "9"} |->
            CASE d = "0" -> 0 [] d = "1" -> 1 [] d = "2" -> 2 [] d = "3" -> 3 [] d = "4" -> 4
              [] d = "5" -> 5 [] d = "6" -> 6 [] d = "7" -> 7 [] d = "8" -> 8 [] d = "9" -> 9]
Blank == {" ", "\t", "\r", "\n"}
Quote == {"\"", "'"}

\* The first place from i on where the bytes of t stand in b, or 0.
Find(b, t, i) ==
  LET places == {p \in i .. Len(b) - Len(t) + 1 : SubSeq(b, p, p + Len(t) - 1) = t}
  IN  IF places = {} THEN 0 ELSE Min(places)

CRLF == <<"\r", "\n">>

\* std::from_chars, when it takes all of b.
IsNumber(b) ==
  LET digits == IF b # <<>> /\ b[1] = "-" THEN Tail(b) ELSE b
  IN  digits # <<>> /\ ToSet(digits) \subseteq DOMAIN Digit

Value(ds) ==
  LET v[i \in 0 .. Len(ds)] == IF i = 0 THEN 0 ELSE 10 * v[i - 1] + Digit[ds[i]]
  IN  v[Len(ds)]

Number(b) == IF b[1] = "-" THEN 0 - Value(Tail(b)) ELSE Value(b)

Incomplete == [status |-> "incomplete"]
Error      == [status |-> "error"]

\* args, and in stale the places of arguments that may have been overwritten.
Success(args, stale, consumed) ==
  [status |-> "success", args |-> args, stale |-> stale, consumed |-> consumed]

-----------------------------------------------------------------------------
(* parse_resp_array.                                                       *)

\* One argument more than p has.
Item(b, p) ==
  LET cur == p.consumed + 1
      eol == Find(b, CRLF, cur)
      size == SubSeq(b, cur + 1, eol - 1)
      last == eol + 1 + Number(size)
  IN  IF cur > Len(b) THEN Incomplete
      ELSE IF b[cur] # "$" THEN Error
      ELSE IF eol = 0 THEN Incomplete
      ELSE IF ~IsNumber(size) THEN Error
      ELSE IF Number(size) < 0 THEN Success(Append(p.args, <<>>), {}, eol + 1)
      ELSE IF Len(b) < last + 2 THEN Incomplete
      ELSE IF SubSeq(b, last + 1, last + 2) # CRLF THEN Error
      ELSE Success(Append(p.args, SubSeq(b, eol + 2, last)), {}, last + 2)

\* n arguments more than p has.
Items(b, p, n) ==
  LET read[i \in 0 .. n] ==
        IF i = 0 THEN p
        ELSE IF read[i - 1].status = "success" THEN Item(b, read[i - 1]) ELSE read[i - 1]
  IN  read[n]

ParseArray(b) ==
  LET eol == Find(b, CRLF, 1)
      count == SubSeq(b, 2, eol - 1)
      first == Success(<<>>, {}, eol + 1)
  IN  IF eol = 0 THEN Incomplete
      ELSE IF ~IsNumber(count) THEN Error
      ELSE IF Number(count) < 0 THEN first
      ELSE Items(b, first, Number(count))

-----------------------------------------------------------------------------
(* parse_inline_command.                                                   *)

\* The words so far; the word under way and the quote that ends it; how much
\* scratch_unescape_buf_ holds; and for each word where it ends in there, or 0.
NoWords == [mode |-> "gap", words |-> <<>>, word |-> <<>>, quote |-> " ",
            escaped |-> FALSE, used |-> 0, ends |-> <<>>]

\* An escaped word lives in scratch_unescape_buf_, any other in the line.
Emitted(s) ==
  LET used == IF s.escaped THEN s.used + Len(s.word) ELSE s.used
  IN  [NoWords EXCEPT !.words = Append(s.words, s.word), !.used = used,
                      !.ends = Append(s.ends, IF s.escaped THEN used ELSE 0)]

\* Mutant: an escape in quotes is not undone.
ReadKeepsEscapes(s, ch) ==
  CASE s.mode = "gap" -> IF ch \in Blank THEN s
                         ELSE IF ch \in Quote THEN [s EXCEPT !.mode = "quoted", !.quote = ch]
                         ELSE [s EXCEPT !.mode = "bare", !.word = <<ch>>]
    [] s.mode = "bare" -> IF ch \in Blank THEN Emitted(s) ELSE [s EXCEPT !.word = Append(@, ch)]
    [] s.mode = "quoted" -> IF ch = s.quote THEN Emitted(s) ELSE [s EXCEPT !.word = Append(@, ch)]
    [] OTHER -> s

\* A quote starts a word only where a word may start, and ends it wherever it
\* stands; what follows is the next word.
ReadByte(s, ch) ==
  CASE s.mode = "gap" -> IF ch \in Blank THEN s
                         ELSE IF ch \in Quote THEN [s EXCEPT !.mode = "quoted", !.quote = ch]
                         ELSE [s EXCEPT !.mode = "bare", !.word = <<ch>>]
    [] s.mode = "bare" -> IF ch \in Blank THEN Emitted(s) ELSE [s EXCEPT !.word = Append(@, ch)]
    [] s.mode = "quoted" -> IF ch = s.quote THEN Emitted(s)
                            ELSE IF ch = "\\" THEN [s EXCEPT !.mode = "escape", !.escaped = TRUE]
                            ELSE [s EXCEPT !.word = Append(@, ch)]
    [] s.mode = "escape" -> [s EXCEPT !.mode = "quoted", !.word = Append(@, ch)]

\* At the end of the line an open word ends; a last backslash stands for itself.
Finished(s) ==
  CASE s.mode = "gap"    -> s
    [] s.mode = "escape" -> Emitted([s EXCEPT !.word = Append(@, "\\")])
    [] OTHER             -> Emitted(s)

Words(line) ==
  LET read[i \in 0 .. Len(line)] == IF i = 0 THEN NoWords ELSE ReadByte(read[i - 1], line[i])
  IN  Finished(read[Len(line)])

\* The first line end CR LF counts, wherever it is, else the first LF.  The
\* arguments are views: when scratch_unescape_buf_ grows, those taken from it
\* before are stale.
ParseInline(b) ==
  LET crlf == Find(b, CRLF, 1)
      end  == IF crlf # 0 THEN crlf ELSE Find(b, <<"\n">>, 1)
      read == Words(SubSeq(b, 1, end - 1))
      stale == {i \in DOMAIN read.ends : read.ends[i] # 0 /\ read.used > Reserve
                                           /\ read.ends[i] < read.used}
  IN  IF end = 0 THEN Incomplete
      ELSE Success(read.words, stale, IF crlf # 0 THEN end + 1 ELSE end)

ParseCommand(b) ==
  IF b = <<>> THEN Incomplete
  ELSE IF b[1] = "*" THEN ParseArray(b) ELSE ParseInline(b)
=============================================================================
