----------------------------- MODULE RespStream -----------------------------
(***************************************************************************)
(* Requests that arrive in pieces.  The read handler of a connection        *)
(* (event_loop.hpp) and the load of the log (aof.hpp) append what they get  *)
(* to a buffer and call parse_command until it asks for more.  The stream   *)
(* may end at any byte (a client that dies, a record that was only half     *)
(* written), and one byte of it may be wrong.                               *)
(***************************************************************************)
EXTENDS Resp

CONSTANTS Argument,   \* the arguments of requests: sequences of bytes
          MaxArgs,    \* bound on the arguments of a request
          MaxRequests \* bound on the requests of a stream

ASSUME BoundsAssumption == MaxArgs \in Nat \ {0} /\ MaxRequests \in Nat
ASSUME ArgumentAssumption == \A arg \in Argument : arg \in Seq(ToSet(arg))

VARIABLES requests,  \* history: what the client or the server wrote
          damaged,   \* history: the place of the wrong byte, 0 for none
          arrived,   \* history: how many bytes have arrived
          source,    \* "socket" or "file"
          input,     \* the bytes of requests that are still to come
          buffer,    \* read_buf from read_offset on, or parse_buffer
          mode,      \* "read", "parse", "closed"
          commands   \* what has been dispatched or replayed

history == <<requests, damaged>>
vars == <<history, arrived, source, input, buffer, mode, commands>>

-----------------------------------------------------------------------------
(* The writing side: Resp::array, or a client that types a line.           *)

DigitOf(k) == CHOOSE d \in DOMAIN Digit : Digit[d] = k

\* The decimal digits of n.
Digits(n) ==
  LET text[k \in 0 .. n] == IF k < 10 THEN <<DigitOf(k)>>
                            ELSE Append(text[k \div 10], DigitOf(k % 10))
  IN  text[n]

Bulk(arg) == <<"$">> \o Digits(Len(arg)) \o CRLF \o arg \o CRLF

AsArray(args) ==
  <<"*">> \o Digits(Len(args)) \o CRLF \o FlattenSeq([i \in DOMAIN args |-> Bulk(args[i])])

Quoted(arg) ==
  <<"\"">> \o FlattenSeq([i \in DOMAIN arg |->
                            IF arg[i] \in {"\"", "\\"} THEN <<"\\", arg[i]>> ELSE <<arg[i]>>])
    \o <<"\"">>

AsLine(args) ==
  FlattenSeq([i \in DOMAIN args |-> Quoted(args[i]) \o <<" ">>]) \o CRLF

\* A line cannot hold a line end.
Request ==
  LET arguments == SeqOf(Argument, MaxArgs) \ {<<>>}
      typed == {args \in arguments : \A i \in DOMAIN args : Find(args[i], <<"\n">>, 1) = 0}
  IN  [args : arguments, line : {FALSE}] \cup [args : typed, line : {TRUE}]

Encoded(r) == IF r.line THEN AsLine(r.args) ELSE AsArray(r.args)

Stream(rs) == FlattenSeq([i \in DOMAIN rs |-> Encoded(rs[i])])

Init ==
  /\ requests \in SeqOf(Request, MaxRequests)
  /\ source \in {"socket", "file"}
  /\ source = "file" => \A i \in DOMAIN requests : ~requests[i].line
  /\ LET stream == Stream(requests)
     IN \/ damaged = 0 /\ \E n \in 0 .. Len(stream) : input = SubSeq(stream, 1, n)
        \/ damaged \in DOMAIN stream /\ input = [stream EXCEPT ![damaged] = "x"]
  /\ arrived = 0 /\ buffer = <<>> /\ mode = "read" /\ commands = <<>>

-----------------------------------------------------------------------------
(* The reading side.                                                       *)

\* Any number of bytes may arrive at once.
Receive ==
  /\ mode = "read" /\ input # <<>>
  /\ \E n \in 1 .. Len(input) :
       /\ buffer' = buffer \o SubSeq(input, 1, n)
       /\ input' = SubSeq(input, n + 1, Len(input))
       /\ arrived' = arrived + n
  /\ mode' = "parse"
  /\ UNCHANGED <<history, source, commands>>

\* An argument in a stale view is what it was, or not.
Viewed(parsed) ==
  {parsed.args, [i \in DOMAIN parsed.args |-> IF i \in parsed.stale THEN Garbage ELSE parsed.args[i]]}

\* Mutant: the connection asks for more although bytes are left to parse.
ParseOnce ==
  LET parsed == ParseCommand(buffer)
  IN /\ mode = "parse" /\ parsed.status = "success"
     /\ \E args \in Viewed(parsed) : commands' = Append(commands, args)
     /\ buffer' = SubSeq(buffer, parsed.consumed + 1, Len(buffer))
     /\ mode' = "read"
     /\ UNCHANGED <<history, arrived, source, input>>

Parse ==
  LET parsed == ParseCommand(buffer)
  IN /\ mode = "parse" /\ parsed.status = "success"
     /\ \E args \in Viewed(parsed) : commands' = Append(commands, args)
     /\ buffer' = SubSeq(buffer, parsed.consumed + 1, Len(buffer))
     /\ UNCHANGED <<history, arrived, source, input, mode>>

AskForMore ==
  /\ mode = "parse" /\ ParseCommand(buffer).status = "incomplete"
  /\ mode' = "read"
  /\ UNCHANGED <<history, arrived, source, input, buffer, commands>>

\* A connection is closed; the load of the log forgets what it has and reads
\* on with the next bytes of the file.
Fail ==
  /\ mode = "parse" /\ ParseCommand(buffer).status = "error"
  /\ IF source = "socket" THEN mode' = "closed" /\ UNCHANGED buffer
     ELSE mode' = "read" /\ buffer' = <<>>
  /\ UNCHANGED <<history, arrived, source, input, commands>>

Next == Receive \/ Parse \/ AskForMore \/ Fail

Spec == Init /\ [][Next]_vars
-----------------------------------------------------------------------------
(* Properties.                                                             *)

\* Where the request i ends in the stream.
End(i) == Len(Stream(SubSeq(requests, 1, i)))

\* The requests that have arrived as they were written.
Intact ==
  Cardinality({i \in DOMAIN requests : End(i) <= arrived /\ (damaged # 0 => End(i) < damaged)})

\* More than one argument has escapes, and together they do not fit into
\* scratch_unescape_buf_.
Overflows(r) ==
  LET escaped == {i \in DOMAIN r.args : ToSet(r.args[i]) \cap {"\"", "\\"} # {}}
      size[i \in 0 .. Len(r.args)] ==
        IF i = 0 THEN 0 ELSE size[i - 1] + IF i \in escaped THEN Len(r.args[i]) ELSE 0
  IN  r.line /\ Cardinality(escaped) > 1 /\ size[Len(r.args)] > Reserve

Same(command, r) ==
  /\ Len(command) = Len(r.args)
  /\ \A j \in DOMAIN command : command[j] = r.args[j] \/ (command[j] = Garbage /\ Overflows(r))

\* Whatever pieces the bytes come in, and whatever bytes an argument holds:
\* the requests are dispatched as they were written, each once and in order, up
\* to a wrong byte; without one, nothing is dispatched before it is complete,
\* and no connection is closed.
RequestsInOrder ==
  /\ \A i \in 1 .. Min({Intact, Len(commands)}) : Same(commands[i], requests[i])
  /\ damaged = 0 => Len(commands) <= Intact /\ mode # "closed"

\* A request that has arrived does not wait for the bytes of the next one.
NothingWaits == mode \in {"read", "closed"} => Len(commands) >= Intact
=============================================================================
