----------------------------- MODULE AtDispatch -----------------------------
(***************************************************************************)
(* From TCP segments to commands (server.c, config.c).  A client sends     *)
(* lines, TCP hands them over in pieces of its own choosing, and each      *)
(* piece that begins with AT is parsed as if it were one line: it is       *)
(* copied, cut at the first CR or LF, split into words, and the first      *)
(* entry of the command table that the first word is a beginning of runs.  *)
(* What a command does is the business of the other modules.               *)
(*                                                                         *)
(* Text is a sequence of fragments, where it may be cut: "AT" where a line *)
(* begins, "SP" for a space, "CR", "LF", and pieces of words.  One of the  *)
(* pieces is the AT that a word like DATA has in it: to the server it is   *)
(* the same two bytes, and a segment that was cut before it is a line.     *)
(* The fragment behind an AT is one byte, which the parser skips: a space, *)
(* the CR, or the next byte of the word (so that no word holds ATAT).      *)
(***************************************************************************)
EXTENDS SequencesExt

\* Pieces of words, and the one of them that is AT again.
Pieces == STRING \ {"AT", "SP", "CR", "LF"}
MidAT  == "AT inside a word"

CONSTANTS
    Lines,     \* what clients send: sequences of words
    MAX_ARGS,  \* words a line is split into at most (65)
    MaxLines   \* bound: lines sent over one connection

ASSUME DispatchAssumption ==
    /\ MAX_ARGS \in Nat \ {0} /\ MaxLines \in Nat
    /\ Lines \subseteq Seq(Seq(Pieces) \ {<<>>})

VARIABLES
    sent,     \* the lines sent
    net,      \* the fragments of them that have not arrived
    taken,    \* how many lines have arrived, at least their beginning, or were lost
    arrived,  \* those of them that arrived
    whole,    \* so far each segment was one whole line
    ran,      \* what the parser found: the command, its arguments, the line, and
              \* whether it came from inside the line
    heap,     \* what the parser allocated and did not free
    remains,  \* the words left in the memory of the last line
    up        \* FALSE after a null pointer was followed

vars == <<sent, net, taken, arrived, whole, ran, heap, remains, up>>

-----------------------------------------------------------------------------
(******************************* The table *********************************)

config_commands ==
    << <<"R", "ES", "ET">>, <<"R", "ES", "TORE">>, <<"B", "AUD">>, <<"P", "ORT">>,
       <<"M", "ODE">>, <<"S", "TA">>, <<"AP">>, <<"AP", "NAME">>, <<"F", "LASH">>,
       <<"G", "PIO", "2">>, <<"M", "APA">>, <<"R", "ES", "ET", "DSP">>,
       <<"P", "ISCALED">>, <<"G", "PIO", "1", "5">>, <<"G", "PIO", "1", "6">>,
       <<"V", "ERSION">>, <<"R", "FPOWER">>, <<"I", "NFO">>, <<"H", "EAP">>,
       <<"C", "PU">>, <<"C", "HIPID">>, <<"F", "LASH", "ID">>,
       <<"F", "LASH", "SIZE">>, <<"R", "OM">>, <<"S", "WITCH">>, <<"O", "TA">>,
       <<"L", "OGALARM">>, <<"D", "EEP">> >>

UNKNOWN == <<"UNKNOWN COMMAND">>
NOTHING == <<>>

\* The first entry that begins with the word.
Dispatch_last(word) ==                                            \* mutant
    LET i == SelectLastInSeq(config_commands, LAMBDA name : IsPrefix(word, name))
    IN IF i = 0 THEN UNKNOWN ELSE config_commands[i]
Dispatch(word) ==
    LET i == SelectInSeq(config_commands, LAMBDA name : IsPrefix(word, name))
    IN IF i = 0 THEN UNKNOWN ELSE config_commands[i]

-----------------------------------------------------------------------------
(******************************* The parser ********************************)

\* The words of the first i fragments of a text, however many spaces are between them.
Words(text) ==
    LET words[i \in 0 .. Len(text)] ==
            IF i = 0 THEN <<>>
            ELSE IF text[i] = "SP" THEN words[i - 1]
            ELSE IF i > 1 /\ text[i - 1] # "SP"
                 THEN Append(Front(words[i - 1]), Append(Last(words[i - 1]), text[i]))
            ELSE Append(words[i - 1], <<text[i]>>)
    IN words

config_parse_args(text) ==
    LET words == Words(text)[Len(text)]
    IN SubSeq(words, 1, IF Len(words) < MAX_ARGS THEN Len(words) ELSE MAX_ARGS)

\* From the fourth byte to the first CR or LF.
Text_uncut(segment) ==                                            \* mutant
    SelectSeq(SubSeq(segment, 3, Len(segment)), LAMBDA f : f \notin {"CR", "LF"})
Text(segment) ==
    LET rest == SubSeq(segment, 3, Len(segment))
        end == SelectInSeq(rest, LAMBDA f : f \in {"CR", "LF"})
    IN SubSeq(rest, 1, IF end = 0 THEN Len(rest) ELSE end - 1)

\* The blocks of a parse: the copy of the segment, the array and a copy of each word.
Blocks(n) == {<<"lbuf">>, <<"argv">>} \cup {<<"argument", i>> : i \in 0 .. n - 1}

\* config_parse has counted the command out of argc; config_parse_args_free takes
\* argv[0] to argv[argc].
Freed_below_argc(n) ==                                            \* mutant
    LET argc == IF n = 0 THEN 0 ELSE n - 1 IN
    {<<"lbuf">>, <<"argv">>} \cup {<<"argument", i>> : i \in 0 .. argc - 1}
Freed(n) ==
    LET argc == IF n = 0 THEN 0 ELSE n - 1 IN
    {<<"lbuf">>, <<"argv">>} \cup {<<"argument", i>> : i \in 0 .. argc}

\* A segment that is exactly "AT" is parsed from the byte behind its copy: there is
\* nothing, something no command begins with, or what an earlier line left.
Found(segment) ==
    IF Len(segment) = 1 THEN {<<>>, << <<"?">> >>, remains}
    ELSE {config_parse_args(Text(segment))}

\* Each allocation of a parse may fail: those of the copy, the array and the first word
\* are followed at once; that of an argument only if the command looks at it.
config_parse(segment) ==
    \E words \in Found(segment) :
        LET n == Len(words) IN
        \/ /\ heap' = heap \cup (Blocks(n) \ Freed(n))
           /\ ran' = Append(ran,
                 [cmd  |-> IF n = 0 THEN NOTHING ELSE Dispatch(words[1]),
                  args |-> IF n = 0 THEN <<>> ELSE Tail(words),
                  word |-> IF n = 0 THEN <<>> ELSE words[1],
                  line |-> IF segment[1] = "AT" THEN taken + 1 ELSE taken,
                  inside |-> segment[1] # "AT", replay |-> Len(segment) = 1])
           /\ remains' = words
           /\ UNCHANGED up
        \/ up' = FALSE /\ UNCHANGED <<ran, heap, remains>>

\* A segment that begins with AT is taken for a line, also when it is the rest of
\* one that was cut inside a word; anything else is dropped.
serverRecvCb(segment) ==
    IF segment[1] \in {"AT", MidAT} THEN config_parse(segment)
    ELSE UNCHANGED <<ran, heap, remains, up>>

-----------------------------------------------------------------------------
(**************************** Client and network ***************************)

\* AT and the first i words of a line.
Spelled(line) ==
    LET spelled[i \in 0 .. Len(line)] ==
            IF i = 0 THEN <<"AT">> ELSE spelled[i - 1] \o (<<"SP">> \o line[i])
    IN spelled

Wire(line) == Spelled(line)[Len(line)] \o <<"CR", "LF">>

\* The lines that begin in a segment.
Begun(segment) == Cardinality({i \in DOMAIN segment : segment[i] = "AT"})

Send(line) ==
    /\ up /\ Len(sent) < MaxLines
    /\ sent' = Append(sent, line) /\ net' = net \o Wire(line)
    /\ UNCHANGED <<taken, arrived, whole, ran, heap, remains, up>>

\* The first n fragments in flight arrive as one segment.
Deliver(n) ==
    /\ up /\ n \in 1 .. Len(net)
    /\ LET segment == SubSeq(net, 1, n) IN
       /\ net' = SubSeq(net, n + 1, Len(net))
       /\ taken' = taken + Begun(segment)
       /\ arrived' = arrived \cup (taken + 1 .. taken')
       /\ whole' = (whole /\ taken < Len(sent) /\ segment = Wire(sent[taken + 1]))
       /\ serverRecvCb(segment)
    /\ UNCHANGED sent

\* Another connection: what is in flight is lost, what is in memory stays.
NewConnection ==
    /\ sent' = <<>> /\ net' = <<>> /\ taken' = 0 /\ arrived' = {}
    /\ whole' = TRUE /\ ran' = <<>>

Reconnect ==
    /\ up /\ NewConnection
    /\ UNCHANGED <<heap, remains, up>>

\* The exception restarts the device.
Restart ==
    /\ ~up /\ up' = TRUE
    /\ NewConnection
    /\ heap' = {} /\ remains' = <<>>

Init ==
    /\ sent = <<>> /\ net = <<>> /\ taken = 0 /\ arrived = {} /\ whole = TRUE
    /\ ran = <<>> /\ heap = {} /\ remains = <<>> /\ up = TRUE

Next ==
    \/ \E line \in Lines : Send(line)
    \/ \E n \in 1 .. Len(net) : Deliver(n)
    \/ Reconnect \/ Restart

Spec == Init /\ [][Next]_vars

-----------------------------------------------------------------------------
(******************************** Properties *******************************)

\* What the parser makes of a part of the line from an AT inside one of its words on.
InsideOf(words, line) ==
    \E first \in 2 .. Len(Wire(line)) : \E last \in first .. Len(Wire(line)) :
        /\ Wire(line)[first] = MidAT
        /\ words = config_parse_args(Text(SubSeq(Wire(line), first, last)))

\* As long as each segment is one whole line, every line that arrives runs, once and in
\* order, with all its arguments (up to 64), and a line that spells a command out runs that one,
\* also where other commands begin with its name (FLASH, AP, RESET).
WholeLinesRun ==
    whole =>
        /\ {ran[i].line : i \in DOMAIN ran} = (IF up THEN arrived ELSE arrived \ {taken})
        /\ \A i \in DOMAIN ran :
              LET line == sent[ran[i].line] IN
              /\ \A j \in 1 .. i - 1 : ran[j].line < ran[i].line
              /\ ran[i].args = SubSeq(line, 2, IF Len(line) < MAX_ARGS THEN Len(line)
                                               ELSE MAX_ARGS)
              /\ line # <<>> /\ line[1] \in ToSet(config_commands) => ran[i].cmd = line[1]

\* However the lines are cut or run together, what runs is text of one of them, in the
\* order of the lines.  From the beginning of a line it is that beginning, once: at most
\* an abbreviation of what the client wrote, with no word of another line.  From inside
\* a line only a segment runs that was cut at an AT inside a word, and what runs is what
\* the parser makes of that part of that line (AP CHAT INFO, cut at CH, runs INFO).  The
\* bare AT may repeat what an earlier line left in memory.
RunsOwnLine ==
    \A i \in DOMAIN ran : LET r == ran[i]  line == sent[r.line] IN
        /\ \A j \in 1 .. i - 1 : ran[j].line < r.line \/ (r.inside /\ ran[j].line = r.line)
        /\ ~r.replay /\ r.cmd # NOTHING =>
              /\ r.cmd # UNKNOWN => IsPrefix(r.word, r.cmd)
              /\ ~r.inside =>
                    /\ line # <<>> /\ IsPrefix(r.word, line[1])
                    /\ r.args # <<>> => r.word = line[1] /\ IsPrefix(Front(r.args), Tail(line))
                                        /\ IsPrefix(Last(r.args), line[Len(r.args) + 1])
              /\ r.inside => InsideOf(<<r.word>> \o r.args, line)

\* The parser gives back what it allocated: a board that is sent lines for ever does
\* not run out of memory.
NothingLeaks == heap = {}
=============================================================================
