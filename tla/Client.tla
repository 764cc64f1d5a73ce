------------------------------- MODULE Client -------------------------------
(***************************************************************************)
(* The command client (src/command.c, and the message_write functions of   *)
(* src/msg.c): it reads a line, splits it into arguments, finds the        *)
(* command and sends one datagram to a worker.                             *)
(*                                                                         *)
(* A line is a sequence of blanks and words, each taking one place; a word *)
(* is a sequence of fragments, so that one name can begin with another,    *)
(* and a blank is the empty word.  Lines fit the buffer and words fit an   *)
(* argument.  Index 0 of the code is 1 here.                               *)
(***************************************************************************)
EXTENDS Naturals, Sequences, SequencesExt

CONSTANTS
    Line,       \* what may be typed
    tolower,    \* tolower[f]: fragment f in lower case
    NumberOf,   \* NumberOf[f]: what atoi makes of fragment f
    Hosts,      \* the words that resolve_host can resolve
    MaxArgs     \* CMD_MAX_ARGS

Blank == <<>>

(* What stands between two blanks is one word.                             *)
ASSUME ClientAssumption ==
    /\ \A l \in Line : /\ l \in Seq(Seq(DOMAIN tolower))
                       /\ \A k \in 2..Len(l) : Blank \in {l[k - 1], l[k]}
    /\ DOMAIN tolower \subseteq DOMAIN NumberOf
    /\ MaxArgs \in Nat \ {0}

VARIABLES
    pc,         \* "prompt", "skip", "split", "rest", "command" or "exited"
    str,        \* the line
    i, last,    \* positions in it
    arg,        \* arguments found so far
    cmd_args,   \* the arguments: each a part of a line
    cmd_arg_count,
    sent        \* the datagrams that the last line has led to

clientVars == <<pc, str, i, last, arg, cmd_args, cmd_arg_count, sent>>
splitVars  == <<str, i, last, arg>>

ClientInit ==
    /\ pc = "prompt" /\ str = <<>> /\ i = 1 /\ last = 1 /\ arg = 1
    /\ cmd_args = <<>>
    /\ cmd_arg_count = 0
    /\ sent = <<>>

-----------------------------------------------------------------------------
(* read_command.  i, last and arg count from 1.                            *)

ReadsLine(l) ==
    /\ pc = "prompt"
    /\ pc' = "skip" /\ str' = l /\ i' = 1 /\ last' = 1 /\ arg' = 1
    /\ sent' = <<>>
    /\ UNCHANGED <<cmd_args, cmd_arg_count>>

(* End of input: exit(-1).                                                 *)
ReadsNothing ==
    /\ pc = "prompt"
    /\ pc' = "exited" /\ sent' = <<>>
    /\ UNCHANGED <<splitVars, cmd_args, cmd_arg_count>>

AtEnd == i > Len(str)

SkipsBlanks ==
    /\ pc = "skip"
    /\ IF ~AtEnd /\ str[i] = Blank
         THEN pc' = pc /\ i' = i + 1 /\ last' = last + 1
         ELSE pc' = "split" /\ UNCHANGED <<i, last>>
    /\ UNCHANGED <<str, arg, cmd_args, cmd_arg_count, sent>>

(* strncpy into cmd_args[arg] of what lies between last and i.             *)
Copied == [k \in DOMAIN cmd_args \cup {arg} |->
              IF k = arg THEN SubSeq(str, last, i - 1) ELSE cmd_args[k]]

(* Mutant: one argument more than there is room for.                       *)
Full_OffByOne == arg > MaxArgs + 1

Full == arg > MaxArgs

(* The loop ends at the end of the line, or when there is no more room.    *)
StopsSplitting ==
    /\ pc = "split" /\ (AtEnd \/ Full)
    /\ pc' = "rest"
    /\ UNCHANGED <<splitVars, cmd_args, cmd_arg_count, sent>>

Splits ==
    /\ pc = "split" /\ ~AtEnd /\ ~Full
    /\ i' = i + 1
    /\ IF str[i] = Blank /\ i > last
         THEN cmd_args' = Copied /\ last' = i + 1 /\ arg' = arg + 1
         ELSE UNCHANGED <<cmd_args, last, arg>>
    /\ UNCHANGED <<pc, str, cmd_arg_count, sent>>

(* Mutant: the count is kept when the line has nothing after its last      *)
(* blank.                                                                  *)
TakesRest_StaleCount ==
    /\ pc = "rest"
    /\ IF i > last
         THEN cmd_args' = Copied /\ arg' = arg + 1 /\ cmd_arg_count' = arg
         ELSE UNCHANGED <<cmd_args, arg, cmd_arg_count>>
    /\ pc' = "command"
    /\ UNCHANGED <<str, i, last, sent>>

TakesRest ==
    /\ pc = "rest"
    /\ IF i > last
         THEN cmd_args' = Copied /\ arg' = arg + 1 /\ cmd_arg_count' = arg
         ELSE cmd_arg_count' = arg - 1 /\ UNCHANGED <<cmd_args, arg>>
    /\ pc' = "command"
    /\ UNCHANGED <<str, i, last, sent>>

-----------------------------------------------------------------------------
(* The datagrams.                                                          *)

NoMessage == [type |-> "none", tid |-> 0, port |-> 0, value |-> 0, delay |-> 0,
              strdata |-> <<>>]

(* atoi skips blanks.                                                      *)
atoi(a) == LET digits == SelectSeq(a, LAMBDA f : f # Blank)
           IN  IF digits = <<>> THEN 0 ELSE NumberOf[Head(Head(digits))]

(* message_write_...: the fields that each command sets.                   *)
Message(type, args) ==
    CASE type \in {"BEGINTX", "JOINTX"} ->
            [NoMessage EXCEPT !.type = type, !.strdata = args[4],
                              !.port = atoi(args[5]), !.tid = atoi(args[6])]
      [] type \in {"NEW_A", "NEW_B"} ->
            [NoMessage EXCEPT !.type = type, !.value = atoi(args[4])]
      [] type = "NEW_IDSTR" -> [NoMessage EXCEPT !.type = type, !.strdata = args[4]]
      [] type = "DELAY_RESPONSE" ->
            [NoMessage EXCEPT !.type = type, !.delay = atoi(args[4])]
      [] OTHER -> [NoMessage EXCEPT !.type = type]

resolve_host(a) == a \in {<<h>> : h \in Hosts}

Command(key, type, count) == [key |-> key, type |-> type, count |-> count]

(* The names in the order in which main compares them, with the number of  *)
(* arguments that do_... wants.                                            *)
Commands ==
    << Command(<<"begin">>, "BEGINTX", 6),
       Command(<<"join">>, "JOINTX", 6),
       Command(<<"newa">>, "NEW_A", 4),
       Command(<<"newb">>, "NEW_B", 4),
       Command(<<"newid">>, "NEW_IDSTR", 4),
       Command(<<"crash">>, "CRASH", 3),
       Command(<<"delay">>, "DELAY_RESPONSE", 4),
       Command(<<"commit", "crash">>, "COMMIT_CRASH", 3),
       Command(<<"commit">>, "COMMIT", 3),
       Command(<<"abort", "crash">>, "ABORT_CRASH", 3),
       Command(<<"abort">>, "ABORT", 3),
       Command(<<"vote", "abort">>, "VOTE_ABORT", 3) >>

(* cmd_name, all lower case; a name after blanks only would be <<>>.       *)
Name(word) == [k \in DOMAIN word |-> tolower[word[k]]]

Matches(name) == {k \in DOMAIN Commands : IsPrefix(Commands[k].key, name)}

-----------------------------------------------------------------------------
(* The body of main's loop.                                                *)

AtCommand == pc = "command" /\ cmd_arg_count > 0

(* The name is changed in place.                                           *)
LowersName == cmd_args' = [cmd_args EXCEPT ![1] = <<Name(Head(@))>>]

CmdName == Name(Head(cmd_args[1]))

ReadsEmptyLine ==
    /\ pc = "command" /\ cmd_arg_count = 0
    /\ pc' = "prompt"
    /\ UNCHANGED <<splitVars, cmd_args, cmd_arg_count, sent>>

(* A known name: the usage is printed, or the host cannot be resolved, or  *)
(* the datagram is sent; or there is no socket: exit(-1).                  *)
DoesCommand ==
    LET cmd  == Commands[CHOOSE k \in Matches(CmdName) :
                            \A j \in Matches(CmdName) : k <= j]
        host == cmd_args'[2]
        goes == cmd_arg_count = cmd.count /\ resolve_host(host)
    IN  /\ AtCommand /\ Matches(CmdName) # {}
        /\ LowersName
        /\ \/ /\ pc' = "prompt"
              /\ sent' = IF goes
                           THEN <<[host |-> host, port |-> atoi(cmd_args'[3]),
                                   msg |-> Message(cmd.type, cmd_args')]>>
                           ELSE sent
           \/ goes /\ pc' = "exited" /\ UNCHANGED sent
        /\ UNCHANGED <<splitVars, cmd_arg_count>>

(* exit and quit.                                                          *)
Quits ==
    /\ AtCommand /\ Matches(CmdName) = {}
    /\ IsPrefix(<<"exit">>, CmdName) \/ IsPrefix(<<"quit">>, CmdName)
    /\ LowersName
    /\ pc' = "exited"
    /\ UNCHANGED <<splitVars, cmd_arg_count, sent>>

UnknownName ==
    /\ AtCommand /\ Matches(CmdName) = {}
    /\ ~IsPrefix(<<"exit">>, CmdName) /\ ~IsPrefix(<<"quit">>, CmdName)
    /\ LowersName
    /\ pc' = "prompt"
    /\ UNCHANGED <<splitVars, cmd_arg_count, sent>>

ClientNext ==
    \/ \E l \in Line : ReadsLine(l)
    \/ ReadsNothing \/ SkipsBlanks \/ Splits \/ StopsSplitting \/ TakesRest
    \/ ReadsEmptyLine \/ DoesCommand \/ Quits \/ UnknownName

ClientSpec == ClientInit /\ [][ClientNext]_clientVars

-----------------------------------------------------------------------------
(* "Maximum arguments reached": however many words a line has, and however *)
(* they are spaced, only the slots that main has allocated are written.    *)
ArgsInBounds == DOMAIN cmd_args \subseteq 1..MaxArgs /\ arg <= MaxArgs + 1

(* The words among the first k places of a line, and all of them.          *)
WordsUpTo(l) ==
    LET words[k \in 0..Len(l)] ==
            IF k = 0 THEN <<>>
            ELSE IF l[k] = Blank THEN words[k - 1]
            ELSE Append(words[k - 1], l[k])
    IN  words

WordsOf(l) == WordsUpTo(l)[Len(l)]

(* What a line asks for, by its words alone: the longest command name that *)
(* its first word begins with, and as many words as the usage text shows.  *)
Asked(l) ==
    LET words == WordsOf(l)
        args  == [k \in DOMAIN words |-> <<words[k]>>]
        best  == CHOOSE k \in Matches(Name(words[1])) :
                    \A j \in Matches(Name(words[1])) :
                       Len(Commands[j].key) <= Len(Commands[k].key)
    IN  IF \/ words = <<>> \/ Matches(Name(words[1])) = {}
           \/ Len(words) # Commands[best].count \/ words[2] \notin Hosts
          THEN <<>>
          ELSE <<[host |-> args[2], port |-> atoi(args[3]),
                  msg |-> Message(Commands[best].type, args)]>>

SingleSpaced(l) ==
    \A k \in 2..(Len(l) - 1) : l[k] = Blank /\ l[k + 1] = Blank =>
        \A j \in 1..k : l[j] = Blank

(* When its words are separated by single blanks, a line leads to exactly  *)
(* the datagram that it asks for, and to none when it asks for none: the   *)
(* arguments that earlier lines have left in cmd_args never get into it.   *)
SendsWhatIsAsked ==
    pc = "prompt" /\ SingleSpaced(str) => sent = Asked(str)
=============================================================================
