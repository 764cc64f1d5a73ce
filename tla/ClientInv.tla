----------------------------- MODULE ClientInv -----------------------------
(***************************************************************************)
(* The inductive invariants of Client: which slots are written while a     *)
(* line is split, and which words are in them.                             *)
(***************************************************************************)
EXTENDS Client

(* When the slots are full, what lies between last and i is empty, so that *)
(* the copy after the loop does not happen; the slots below arg have been  *)
(* written.                                                                *)
SlotsInv ==
    /\ i \in Nat \ {0} /\ last \in Nat \ {0}
    /\ arg \in Nat \ {0} /\ cmd_arg_count \in Nat
    /\ ArgsInBounds
    /\ pc = "skip" => arg = 1
    /\ pc \in {"split", "rest"} /\ arg > MaxArgs => i <= last
    /\ \A k \in 1..(arg - 1) : k \in DOMAIN cmd_args
    /\ pc = "command" => cmd_arg_count = arg - 1

(* No command wants as many arguments as there are slots (6 at most of     *)
(* CMD_MAX_ARGS 10): when the slots are full the line asks for nothing.    *)
RoomForArgs == \A k \in DOMAIN Commands : Commands[k].count < MaxArgs

(* A command handler only reads arguments that read_command has written,   *)
(* into slots that main has allocated.                                     *)
ArgsWritten ==
    AtCommand => /\ 1..cmd_arg_count \subseteq DOMAIN cmd_args
                 /\ cmd_arg_count <= MaxArgs

-----------------------------------------------------------------------------
(* The slots below n hold the words before position p of the line.         *)
Holds(n, p) ==
    /\ p \in 1..(Len(str) + 1)
    /\ Len(WordsUpTo(str)[p - 1]) = n - 1
    /\ \A k \in 1..(n - 1) : cmd_args[k] = <<WordsUpTo(str)[p - 1][k]>>

(* Between last and i is nothing, or one word.                             *)
AtWord ==
    \/ i = last /\ (~AtEnd => str[i] # Blank)
    \/ i = last + 1 /\ last <= Len(str) /\ str[last] # Blank

SkipInv  == i = last /\ (\A k \in 1..(i - 1) : k <= Len(str) /\ str[k] = Blank)
SplitInv == AtWord /\ Holds(arg, last)

(* All words are in their slots; or there were more than there are slots.  *)
CommandInv ==
    \/ cmd_arg_count = Len(WordsOf(str)) /\ Holds(cmd_arg_count + 1, Len(str) + 1)
    \/ cmd_arg_count = MaxArgs /\ Len(WordsOf(str)) >= MaxArgs

WordsInv ==
    /\ str \in Line \cup {<<>>}
    /\ pc \in {"skip", "split", "rest", "command"} => sent = <<>>
    /\ SingleSpaced(str) =>
          /\ pc = "skip" => SkipInv
          /\ pc \in {"split", "rest"} => SplitInv
          /\ pc = "rest" => AtEnd \/ Full
          /\ pc = "command" => CommandInv
    /\ SendsWhatIsAsked
=============================================================================
