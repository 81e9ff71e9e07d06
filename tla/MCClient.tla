------------------------------ MODULE MCClient ------------------------------
(* Values for the constants of Client: every kind of request in its        *)
(* shortest form.                                                          *)
EXTENDS Client

CRLF == <<"\r", "\n">>

BulkString(word) == <<"$", Num!DigitOf(Len(word))>> \o CRLF \o word \o CRLF

(* A request as clients of the redis protocol send it *)
Multibulk(words) ==
    <<"*", Num!DigitOf(Len(words))>> \o CRLF
        \o FlattenSeq([i \in DOMAIN words |-> BulkString(words[i])])

Command(words) == [bytes |-> Multibulk(words), args |-> words]

Quit == [bytes |-> <<"quit", "\n">>, args |-> << <<"quit">> >>]

MCEarly == {Quit}

MCRequests == {
    Quit,
    Command(<< <<"get">>, <<"k", "k">> >>),
    Command(<< <<"v", "v">>, <<"get">> >>),
    Command(<< <<"set">>, <<"k">>, <<"v">> >>),
    Command(<< <<"del">>, <<>> >>),
    [bytes |-> <<"*", "x">> \o CRLF, args |-> Malformed],
    [bytes |-> <<"*", "4">> \o CRLF, args |-> Malformed],
    [bytes |-> <<"*", "1">> \o CRLF \o <<"$", "3">> \o CRLF, args |-> Malformed],
    [bytes |-> <<"*", "0">> \o CRLF, args |-> <<>>],
    [bytes |-> <<"*", "1">> \o CRLF \o <<"get">> \o CRLF, args |-> Malformed],
    [bytes |-> <<"exists", " ", "k">> \o CRLF, args |-> << <<"exists">>, <<"k">> >>],
    [bytes |-> <<"\"", "k">> \o CRLF, args |-> Malformed]}

MCPiped == {[bytes |-> <<"quit">> \o CRLF, args |-> << <<"quit">> >>],
            [bytes |-> <<"exists", " ", "k">> \o CRLF,
             args |-> << <<"exists">>, <<"k">> >>]}

MCMalformed == << <<"malformed">> >>

MCValues == {<<"v">>, <<"w1", "w2", "w3">>}
=============================================================================
