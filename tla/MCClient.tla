------------------------------ MODULE MCClient ------------------------------
(***************************************************************************)
(* Lines for Client: every command with too few, enough and too many       *)
(* words, names that only begin like a command, odd spacing, a host that   *)
(* does not resolve, and as many words as there are arguments, and more.   *)
(***************************************************************************)
EXTENDS ClientInv

Fragment == {"begin", "join", "newa", "newb", "newid", "crash", "delay", "commit",
             "abort", "vote", "exit", "quit", "COMMIT", "ment", "host", "nohost",
             "7", "5"}

MCtolower == [f \in Fragment |-> IF f = "COMMIT" THEN "commit" ELSE f]

MCNumberOf == [f \in Fragment |-> CASE f = "7" -> 7 [] f = "5" -> 5 [] OTHER -> 0]

MCHosts == {<<"host">>}

(* One blank after every word but the last.                                *)
Spaced(words) == [k \in 1..(2 * Len(words) - 1) |->
                     IF k % 2 = 1 THEN words[(k + 1) \div 2] ELSE Blank]

Rest == << <<"host">>, <<"7">>, <<"host">>, <<"5">>, <<"7">>, <<"5">> >>

Names == {Commands[k].key : k \in DOMAIN Commands}
            \cup {<<"COMMIT">>, <<"commit", "ment">>, <<"exit">>, <<"quit">>, <<"host">>}

MCLine ==
    {Spaced(<<n>> \o SubSeq(Rest, 1, k)) : n \in Names, k \in {1, 2, 5}}
    \cup {Spaced(<<n, <<"host">>, <<"7">>, <<"5">> >>) :
             n \in {<<"newa">>, <<"newb">>, <<"newid">>, <<"delay">>, <<"abort">>}}
    \cup {Spaced(<< <<"commit">>, <<"nohost">>, <<"7">> >>),
          <<>>, <<Blank>>, <<Blank, Blank>>,
          <<Blank, Blank>> \o Spaced(<< <<"commit">>, <<"host">>, <<"7">> >>),
          Spaced(<< <<"commit">>, <<"host">>, <<"7">> >>) \o <<Blank>>,
          Spaced(<< <<"commit">>, <<"host">>, <<"7">> >>) \o <<Blank, Blank>>,
          << <<"commit">>, Blank, Blank, <<"host">>, Blank, <<"7">> >>}
    \cup {Spaced([k \in 1..n |-> <<"join">>]) \o b :
             n \in {MaxArgs, MaxArgs + 1}, b \in {<<>>, <<Blank>>, <<Blank, Blank>>}}
=============================================================================
