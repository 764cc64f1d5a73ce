---------------------------- MODULE ClientProofs ----------------------------
(***************************************************************************)
(* Proofs about the command client, for lines of any length and any        *)
(* number of argument slots.                                               *)
(***************************************************************************)
EXTENDS ClientInv, WellFoundedInduction, TLAPS

LEMMA InitSlots == ClientInit => SlotsInv
  BY ClientAssumption DEF ClientInit, SlotsInv, ArgsInBounds

LEMMA CopiedDomain == DOMAIN Copied = DOMAIN cmd_args \cup {arg}
  BY DEF Copied

LEMMA LowersNameDomain == LowersName => DOMAIN cmd_args' = DOMAIN cmd_args
  BY DEF LowersName

LEMMA SlotsStep == SlotsInv /\ [ClientNext]_clientVars => SlotsInv'
<1> SUFFICES ASSUME SlotsInv, [ClientNext]_clientVars
             PROVE  SlotsInv'
  OBVIOUS
<1> USE ClientAssumption DEF SlotsInv, ArgsInBounds, splitVars
<1>1. ASSUME NEW l \in Line, ReadsLine(l)
      PROVE  SlotsInv'
  BY <1>1 DEF ReadsLine
<1>2. CASE ReadsNothing
  BY <1>2 DEF ReadsNothing
<1>3. CASE SkipsBlanks
  BY <1>3 DEF SkipsBlanks
<1>4. CASE Splits
  <2>1. CASE str[i] = Blank /\ i > last
    <3>1. /\ i' = i + 1 /\ last' = i + 1 /\ arg' = arg + 1 /\ pc' = pc
          /\ cmd_arg_count' = cmd_arg_count /\ pc = "split" /\ arg <= MaxArgs
          /\ DOMAIN cmd_args' = DOMAIN cmd_args \cup {arg}
      BY <1>4, <2>1, CopiedDomain DEF Splits, Full
    <3> QED
      BY <3>1
  <2>2. CASE ~(str[i] = Blank /\ i > last)
    BY <1>4, <2>2 DEF Splits, Full
  <2> QED
    BY <2>1, <2>2
<1>5. CASE StopsSplitting
  BY <1>5 DEF StopsSplitting
<1>6. CASE TakesRest
  <2>1. CASE i > last
    <3>1. /\ i' = i /\ last' = last /\ arg' = arg + 1 /\ pc' = "command"
          /\ cmd_arg_count' = arg /\ pc = "rest"
          /\ DOMAIN cmd_args' = DOMAIN cmd_args \cup {arg}
      BY <1>6, <2>1, CopiedDomain DEF TakesRest
    <3> QED
      BY <2>1, <3>1
  <2>2. CASE ~(i > last)
    BY <1>6, <2>2 DEF TakesRest
  <2> QED
    BY <2>1, <2>2
<1>7. CASE ReadsEmptyLine
  BY <1>7 DEF ReadsEmptyLine
<1>8. CASE DoesCommand \/ Quits \/ UnknownName
  <2>1. /\ i' = i /\ last' = last /\ arg' = arg /\ cmd_arg_count' = cmd_arg_count
        /\ pc' \in {"prompt", "exited"} /\ LowersName
    BY <1>8 DEF DoesCommand, Quits, UnknownName
  <2>2. DOMAIN cmd_args' = DOMAIN cmd_args
    BY <2>1, LowersNameDomain
  <2> QED
    BY <2>1, <2>2
<1>9. CASE UNCHANGED clientVars
  BY <1>9 DEF clientVars
<1> QED
  BY <1>1, <1>2, <1>3, <1>4, <1>5, <1>6, <1>7, <1>8, <1>9 DEF ClientNext

LEMMA SlotsKept == ClientSpec => []SlotsInv
  BY InitSlots, SlotsStep, PTL DEF ClientSpec

(* read_command never writes past the CMD_MAX_ARGS slots, whatever the     *)
(* line and however its blanks are spaced.                                 *)
THEOREM ArgumentsInBounds == ClientSpec => []ArgsInBounds
<1>1. SlotsInv => ArgsInBounds
  BY DEF SlotsInv
<1> QED
  BY <1>1, SlotsKept, PTL

(* The arguments that the handler of a command may read, those below       *)
(* cmd_arg_count, have all been written by read_command.                   *)
THEOREM ArgumentsAreWritten == ClientSpec => []ArgsWritten
<1>1. SlotsInv => ArgsWritten
  <2> SUFFICES ASSUME SlotsInv, AtCommand
               PROVE  /\ 1..cmd_arg_count \subseteq DOMAIN cmd_args
                      /\ cmd_arg_count <= MaxArgs
    BY DEF ArgsWritten
  <2>1. cmd_arg_count = arg - 1 /\ arg \in Nat /\ arg <= MaxArgs + 1 /\ MaxArgs \in Nat
    BY ClientAssumption DEF AtCommand, SlotsInv, ArgsInBounds
  <2> QED
    BY <2>1 DEF SlotsInv
<1> QED
  BY <1>1, SlotsKept, PTL

-----------------------------------------------------------------------------
(* The words of a line.                                                    *)

(* Every set of natural numbers that is not empty has a least element.     *)
LEMMA LeastExists ==
    ASSUME NEW S, S \subseteq Nat, S # {}
    PROVE  \E x \in S : \A y \in S : x <= y
<1> DEFINE R == OpToRel(<, Nat)
<1>1. IsWellFoundedOn(R, Nat)
  BY NatLessThanWellFounded
<1>2. \A a, b \in Nat : a < b => <<a, b>> \in R
  BY DEF OpToRel
<1> HIDE DEF R
<1>3. PICK x \in S : \A y \in S : ~(<<y, x>> \in R)
  BY <1>1, WFMin
<1>4. ASSUME NEW y \in S PROVE x <= y
  <2>1. x \in Nat /\ y \in Nat
    OBVIOUS
  <2>2. ~(y < x)
    BY <1>2, <1>3, <2>1
  <2> QED
    BY <2>1, <2>2
<1> QED
  BY <1>4

Word  == Seq(DOMAIN tolower)
Typed == Seq(Word)

(* The recursion that defines WordsUpTo, up to place n.                    *)
Recurs(l, n, f) ==
    f = [k \in 0..n |-> IF k = 0 THEN <<>>
                        ELSE IF l[k] = Blank THEN f[k - 1]
                        ELSE Append(f[k - 1], l[k])]

(* It has a solution: of the places up to which it had none, the least     *)
(* would follow one up to which it has.                                    *)
LEMMA RecursSolved ==
    ASSUME NEW l \in Typed, NEW n \in 0..Len(l)
    PROVE  \E f : Recurs(l, n, f)
<1> DEFINE S == {m \in 0..Len(l) : ~\E f : Recurs(l, m, f)}
<1>1. SUFFICES ASSUME S # {} PROVE FALSE
  OBVIOUS
<1>2. S \subseteq Nat
  OBVIOUS
<1> HIDE DEF S
<1>3. PICK m \in S : \A y \in S : m <= y
  BY <1>1, <1>2, LeastExists
<1>4. m \in 0..Len(l) /\ ~\E f : Recurs(l, m, f)
  BY DEF S
<1>5. CASE m = 0
  <2>1. Recurs(l, 0, [k \in 0..0 |-> <<>>])
    BY DEF Recurs
  <2> QED
    BY <1>4, <1>5, <2>1
<1>6. CASE m # 0
  <2>1. m \in Nat /\ m - 1 \in 0..Len(l) /\ ~(m <= m - 1)
    BY <1>4, <1>6
  <2>2. m - 1 \notin S
    BY <1>3, <2>1
  <2>3. PICK f : Recurs(l, m - 1, f)
    BY <2>1, <2>2 DEF S
  <2> DEFINE g == [k \in 0..m |->
                     IF k = m THEN IF l[m] = Blank THEN f[m - 1]
                                   ELSE Append(f[m - 1], l[m])
                     ELSE f[k]]
  <2>4. \A k \in 0..(m - 1) : f[k] = IF k = 0 THEN <<>>
                                      ELSE IF l[k] = Blank THEN f[k - 1]
                                      ELSE Append(f[k - 1], l[k])
    BY <2>3 DEF Recurs
  <2>5. \A k \in 0..m : g[k] = IF k = 0 THEN <<>>
                                ELSE IF l[k] = Blank THEN g[k - 1]
                                ELSE Append(g[k - 1], l[k])
    <3>1. TAKE k \in 0..m
    <3>2. k = m \/ k \in 0..(m - 1)
      BY <2>1
    <3>3. CASE k = m
      BY <1>6, <2>1, <3>3
    <3>4. CASE k \in 0..(m - 1)
      <4>1. g[k] = f[k] /\ (k # 0 => g[k - 1] = f[k - 1])
        BY <2>1, <3>4
      <4> QED
        BY <2>4, <3>4, <4>1
    <3> QED
      BY <3>2, <3>3, <3>4
  <2>6. g = [k \in 0..m |-> g[k]]
    OBVIOUS
  <2> HIDE DEF g
  <2>7. Recurs(l, m, g)
    BY <2>5, <2>6 DEF Recurs
  <2> QED
    BY <1>4, <2>7
<1> QED
  BY <1>5, <1>6

LEMMA WordsUpToIs ==
    ASSUME NEW l \in Typed
    PROVE  /\ WordsUpTo(l)[0] = <<>>
           /\ \A k \in 1..Len(l) :
                 WordsUpTo(l)[k] = IF l[k] = Blank THEN WordsUpTo(l)[k - 1]
                                   ELSE Append(WordsUpTo(l)[k - 1], l[k])
<1>1. Len(l) \in 0..Len(l)
  BY DEF Typed
<1>2. \E f : Recurs(l, Len(l), f)
  BY <1>1, RecursSolved
<1>3. WordsUpTo(l) = CHOOSE f : Recurs(l, Len(l), f)
  BY DEF WordsUpTo, Recurs
<1>4. Recurs(l, Len(l), WordsUpTo(l))
  BY <1>2, <1>3
<1> DEFINE w == WordsUpTo(l)
<1>5. w = [k \in 0..Len(l) |-> IF k = 0 THEN <<>>
                               ELSE IF l[k] = Blank THEN w[k - 1]
                               ELSE Append(w[k - 1], l[k])]
  BY <1>4 DEF Recurs
<1> HIDE DEF w
<1>6. w[0] = <<>>
  BY <1>1, <1>5
<1>7. ASSUME NEW k \in 1..Len(l)
      PROVE  w[k] = IF l[k] = Blank THEN w[k - 1] ELSE Append(w[k - 1], l[k])
  <2>1. k \in 0..Len(l) /\ k # 0
    OBVIOUS
  <2> QED
    BY <1>5, <2>1
<1> QED
  BY <1>6, <1>7 DEF w

LEMMA TypedIs ==
    /\ <<>> \in Typed
    /\ \A s \in Typed, e \in Word : Append(s, e) \in Typed
    /\ \A s \in Typed : Len(s) \in Nat
    /\ \A s \in Typed, e \in Word : Len(Append(s, e)) = Len(s) + 1
    /\ \A s \in Typed : \A k \in 1..Len(s) : s[k] \in Word
    /\ \A s \in Typed, e \in Word : /\ \A k \in 1..Len(s) : Append(s, e)[k] = s[k]
                                    /\ Append(s, e)[Len(s) + 1] = e
  BY DEF Typed

LEMMA WordsTyped ==
    ASSUME NEW l \in Typed, NEW n \in 0..Len(l)
    PROVE  WordsUpTo(l)[n] \in Typed
<1> DEFINE w == WordsUpTo(l)
           S == {m \in 0..Len(l) : w[m] \notin Typed}
<1>1. SUFFICES ASSUME S # {} PROVE FALSE
  OBVIOUS
<1>2. S \subseteq Nat
  OBVIOUS
<1>3. /\ w[0] = <<>>
      /\ \A k \in 1..Len(l) : w[k] = IF l[k] = Blank THEN w[k - 1]
                                     ELSE Append(w[k - 1], l[k])
  BY WordsUpToIs
<1> HIDE DEF w, S
<1>4. PICK m \in S : \A y \in S : m <= y
  BY <1>1, <1>2, LeastExists
<1>5. m \in 0..Len(l) /\ w[m] \notin Typed
  BY DEF S
<1>6. m # 0
  BY <1>3, <1>5, TypedIs
<1>7. m \in 1..Len(l) /\ m - 1 \in 0..Len(l) /\ ~(m <= m - 1)
  BY <1>5, <1>6
<1>8. w[m - 1] \in Typed
  BY <1>4, <1>7 DEF S
<1>9. l[m] \in Word
  BY <1>7, TypedIs
<1>10. w[m] = w[m - 1] \/ w[m] = Append(w[m - 1], l[m])
  BY <1>3, <1>7
<1> QED
  BY <1>5, <1>8, <1>9, <1>10, TypedIs

(* A line has at least the words of each of its beginnings.                *)
LEMMA WordsGrow ==
    ASSUME NEW l \in Typed, NEW k \in 0..Len(l), NEW n \in k..Len(l)
    PROVE  Len(WordsUpTo(l)[k]) <= Len(WordsUpTo(l)[n])
<1> DEFINE w == WordsUpTo(l)
           S == {m \in k..Len(l) : ~(Len(w[k]) <= Len(w[m]))}
<1>1. SUFFICES ASSUME S # {} PROVE FALSE
  OBVIOUS
<1>2. S \subseteq Nat
  OBVIOUS
<1>3. \A j \in 1..Len(l) : w[j] = IF l[j] = Blank THEN w[j - 1]
                                  ELSE Append(w[j - 1], l[j])
  BY WordsUpToIs
<1>0. \A j \in 0..Len(l) : w[j] \in Typed
  BY WordsTyped
<1> HIDE DEF w, S
<1>4. PICK m \in S : \A y \in S : m <= y
  BY <1>1, <1>2, LeastExists
<1>5. m \in k..Len(l) /\ ~(Len(w[k]) <= Len(w[m]))
  BY DEF S
<1>6. \A j \in 0..Len(l) : Len(w[j]) \in Nat
  BY <1>0 DEF Typed
<1>7. m # k
  BY <1>5, <1>6
<1>8. m \in 1..Len(l) /\ m - 1 \in k..Len(l) /\ ~(m <= m - 1)
  BY <1>5, <1>7
<1>9. Len(w[k]) <= Len(w[m - 1])
  BY <1>4, <1>8 DEF S
<1>10. Len(w[m - 1]) <= Len(w[m])
  <2>1. m - 1 \in 0..Len(l)
    BY <1>8
  <2>2. w[m - 1] \in Typed
    BY <1>0, <2>1
  <2>3. CASE l[m] = Blank
    BY <1>3, <1>6, <1>8, <2>1, <2>3
  <2>4. CASE l[m] # Blank
    <3>1. w[m] = Append(w[m - 1], l[m])
      BY <1>3, <1>8, <2>4
    <3>2. Len(w[m]) = Len(w[m - 1]) + 1
      BY <2>2, <3>1 DEF Typed
    <3> QED
      BY <1>6, <2>1, <3>2
  <2> QED
    BY <2>3, <2>4
<1>11. Len(w[k]) <= Len(w[m])
  <2>1. Len(w[k]) \in Nat /\ Len(w[m - 1]) \in Nat /\ Len(w[m]) \in Nat
    BY <1>6, <1>8
  <2> QED
    BY <1>9, <1>10, <2>1
<1> QED
  BY <1>5, <1>11

(* Blanks hold no word.                                                    *)
LEMMA BlanksHoldNothing ==
    ASSUME NEW l \in Typed, NEW n \in 0..Len(l), \A k \in 1..n : l[k] = Blank
    PROVE  WordsUpTo(l)[n] = <<>>
<1> DEFINE w == WordsUpTo(l)
           S == {m \in 0..n : w[m] # <<>>}
<1>1. SUFFICES ASSUME S # {} PROVE FALSE
  OBVIOUS
<1>2. S \subseteq Nat
  OBVIOUS
<1>3. /\ w[0] = <<>>
      /\ \A k \in 1..Len(l) : w[k] = IF l[k] = Blank THEN w[k - 1]
                                     ELSE Append(w[k - 1], l[k])
  BY WordsUpToIs
<1> HIDE DEF w, S
<1>4. PICK m \in S : \A y \in S : m <= y
  BY <1>1, <1>2, LeastExists
<1>5. m \in 0..n /\ w[m] # <<>>
  BY DEF S
<1>6. m \in 1..n /\ m \in 1..Len(l) /\ m - 1 \in 0..n /\ ~(m <= m - 1)
  BY <1>3, <1>5
<1>7. w[m - 1] = <<>>
  BY <1>4, <1>6 DEF S
<1> QED
  BY <1>3, <1>5, <1>6, <1>7

-----------------------------------------------------------------------------
(* The commands.                                                           *)

(* A name that begins with two of the keys begins with the longer one      *)
(* first in main's order.                                                  *)
LEMMA PrefixBegins ==
    ASSUME NEW S, NEW s \in Seq(S), NEW t, IsPrefix(s, t), Len(s) # 0
    PROVE  t[1] = s[1]
<1>1. SubSeq(t, 1, Len(s)) = s
  <2>1. SubSeq(s, 1, Len(s)) = s
    OBVIOUS
  <2> QED
    BY <2>1 DEF IsPrefix
<1>2. SubSeq(t, 1, Len(s))[1] = t[1]
  OBVIOUS
<1> QED
  BY <1>1, <1>2

LEMMA TuplesAreSeqs ==
    ASSUME NEW S, NEW s \in S, NEW t \in S
    PROVE  /\ <<s>> \in Seq(S) /\ Len(<<s>>) = 1
           /\ <<s, t>> \in Seq(S) /\ Len(<<s, t>>) = 2
  OBVIOUS

LEMMA CommandsAre ==
    /\ DOMAIN Commands = 1..12
    /\ Commands[1] = Command(<<"begin">>, "BEGINTX", 6)
    /\ Commands[2] = Command(<<"join">>, "JOINTX", 6)
    /\ Commands[3] = Command(<<"newa">>, "NEW_A", 4)
    /\ Commands[4] = Command(<<"newb">>, "NEW_B", 4)
    /\ Commands[5] = Command(<<"newid">>, "NEW_IDSTR", 4)
    /\ Commands[6] = Command(<<"crash">>, "CRASH", 3)
    /\ Commands[7] = Command(<<"delay">>, "DELAY_RESPONSE", 4)
    /\ Commands[8] = Command(<<"commit", "crash">>, "COMMIT_CRASH", 3)
    /\ Commands[9] = Command(<<"commit">>, "COMMIT", 3)
    /\ Commands[10] = Command(<<"abort", "crash">>, "ABORT_CRASH", 3)
    /\ Commands[11] = Command(<<"abort">>, "ABORT", 3)
    /\ Commands[12] = Command(<<"vote", "abort">>, "VOTE_ABORT", 3)
  BY DEF Commands

Key(n) == Commands[n].key

KeyLen(n) == IF n \in {8, 10, 12} THEN 2 ELSE 1

(* What a key is made of, as a set.                                        *)
Strings == {Key(n)[1] : n \in 1..12} \cup {Key(n)[2] : n \in {8, 10, 12}}

LEMMA KeyIs ==
    ASSUME NEW n \in 1..12
    PROVE  Key(n) \in Seq(Strings) /\ Len(Key(n)) = KeyLen(n)
<1>1. CASE n \in {8, 10, 12}
  <2>1. Key(n) = <<Key(n)[1], Key(n)[2]>>
    BY <1>1, CommandsAre DEF Key, Command
  <2>2. Key(n)[1] \in Strings /\ Key(n)[2] \in Strings
    BY <1>1 DEF Strings
  <2> QED
    BY <1>1, <2>1, <2>2, TuplesAreSeqs DEF KeyLen
<1>2. CASE n \notin {8, 10, 12}
  <2>1. Key(n) = <<Key(n)[1]>>
    BY <1>2, CommandsAre DEF Key, Command
  <2>2. Key(n)[1] \in Strings
    BY DEF Strings
  <2> QED
    BY <1>2, <2>1, <2>2, TuplesAreSeqs DEF KeyLen
<1> QED
  BY <1>1, <1>2

LEMMA LongerFirst ==
    ASSUME NEW name, NEW j \in 1..12, NEW k \in 1..12, j < k,
           IsPrefix(Key(j), name), IsPrefix(Key(k), name)
    PROVE  Len(Key(j)) > Len(Key(k))
<1>1. /\ Key(j) \in Seq(Strings) /\ Len(Key(j)) = KeyLen(j)
      /\ Key(k) \in Seq(Strings) /\ Len(Key(k)) = KeyLen(k)
  BY KeyIs
<1>2. Len(Key(j)) # 0 /\ Len(Key(k)) # 0
  BY <1>1 DEF KeyLen
<1>3. name[1] = Key(j)[1]
  BY <1>1, <1>2, PrefixBegins
<1>4. name[1] = Key(k)[1]
  BY <1>1, <1>2, PrefixBegins
<1>5. \A m, n \in 1..12 :
         m < n /\ Key(m)[1] = Key(n)[1]
            => \/ m = 8 /\ n = 9
               \/ m = 10 /\ n = 11
  BY CommandsAre DEF Command, Key
<1>6. (j = 8 /\ k = 9) \/ (j = 10 /\ k = 11)
  BY <1>3, <1>4, <1>5
<1>7. KeyLen(j) = 2 /\ KeyLen(k) = 1
  BY <1>6 DEF KeyLen
<1> QED
  BY <1>1, <1>7

(* The first match in main's order, which DoesCommand takes, is the        *)
(* longest one, which Asked takes.                                         *)
FirstMatch(name) == CHOOSE k \in Matches(name) : \A j \in Matches(name) : k <= j

LongestMatch(name) ==
    CHOOSE k \in Matches(name) :
        \A j \in Matches(name) : Len(Commands[j].key) <= Len(Commands[k].key)

LEMMA MatchIs ==
    ASSUME NEW name, Matches(name) # {}
    PROVE  LongestMatch(name) = FirstMatch(name) /\ FirstMatch(name) \in 1..12
<1> DEFINE M == Matches(name)
<1>1. M \subseteq 1..12 /\ \A k \in M : IsPrefix(Key(k), name)
  BY CommandsAre DEF Matches, Key
<1>2. M \subseteq Nat /\ M # {}
  BY <1>1
<1> HIDE DEF M
<1>3. \E k \in M : \A j \in M : k <= j
  BY <1>2, LeastExists
<1>4. FirstMatch(name) \in M /\ \A j \in M : FirstMatch(name) <= j
  BY <1>3 DEF FirstMatch, M
<1> DEFINE f == FirstMatch(name)
<1> HIDE DEF f
<1>5. f \in M /\ \A j \in M : f <= j
  BY <1>4 DEF f
<1>6. f \in 1..12 /\ IsPrefix(Key(f), name)
  BY <1>1, <1>5
<1>7. ASSUME NEW j \in M, j # f
      PROVE  Len(Key(j)) < Len(Key(f)) /\ Len(Key(j)) \in Nat /\ Len(Key(f)) \in Nat
  <2>1. j \in 1..12 /\ IsPrefix(Key(j), name) /\ f <= j
    BY <1>1, <1>5
  <2>2. f < j
    BY <1>6, <1>7, <2>1
  <2>3. Len(Key(f)) > Len(Key(j))
    BY <1>6, <2>1, <2>2, LongerFirst
  <2>4. Key(j) \in Seq(Strings) /\ Key(f) \in Seq(Strings)
    BY <1>6, <2>1, KeyIs
  <2> QED
    BY <2>3, <2>4
<1>8. \A j \in M : Len(Key(j)) <= Len(Key(f))
  <2>1. TAKE j \in M
  <2>2. CASE j = f
    <3>1. Key(f) \in Seq(Strings)
      BY <1>6, KeyIs
    <3> QED
      BY <2>2, <3>1
  <2>3. CASE j # f
    BY <1>7, <2>3
  <2> QED
    BY <2>2, <2>3
<1> DEFINE g == LongestMatch(name)
<1>9. g \in M /\ \A j \in M : Len(Key(j)) <= Len(Key(g))
  <2>1. g = CHOOSE k \in M : \A j \in M : Len(Key(j)) <= Len(Key(k))
    BY DEF LongestMatch, Key, M
  <2> QED
    BY <1>5, <1>8, <2>1
<1> HIDE DEF g
<1>10. g = f
  <2> SUFFICES ASSUME g # f PROVE FALSE
    OBVIOUS
  <2>1. Len(Key(g)) < Len(Key(f)) /\ Len(Key(g)) \in Nat /\ Len(Key(f)) \in Nat
    BY <1>7, <1>9
  <2>2. Len(Key(f)) <= Len(Key(g))
    BY <1>5, <1>9
  <2> QED
    BY <2>1, <2>2
<1> QED
  BY <1>6, <1>10 DEF f, g

(* A message is made of no more arguments than its command wants.          *)
LEMMA MessageSame ==
    ASSUME NEW k \in 1..12, NEW a, NEW b,
           \A n \in 4..Commands[k].count : a[n] = b[n]
    PROVE  Message(Commands[k].type, a) = Message(Commands[k].type, b)
<1>1. CASE k \in {1, 2}
  <2>1. Commands[k].type \in {"BEGINTX", "JOINTX"} /\ Commands[k].count = 6
    BY <1>1, CommandsAre DEF Command
  <2>2. a[4] = b[4] /\ a[5] = b[5] /\ a[6] = b[6]
    BY <2>1
  <2> QED
    BY <2>1, <2>2 DEF Message
<1>2. CASE k \in {3, 4, 5, 7}
  <2>1. /\ Commands[k].type \in {"NEW_A", "NEW_B", "NEW_IDSTR", "DELAY_RESPONSE"}
        /\ Commands[k].count = 4
    BY <1>2, CommandsAre DEF Command
  <2>2. a[4] = b[4]
    BY <2>1
  <2> QED
    BY <2>1, <2>2 DEF Message
<1>3. CASE k \in {6, 8, 9, 10, 11, 12}
  <2>1. Commands[k].type \in {"CRASH", "COMMIT_CRASH", "COMMIT", "ABORT_CRASH",
                              "ABORT", "VOTE_ABORT"}
    BY <1>3, CommandsAre DEF Command
  <2> QED
    BY <2>1 DEF Message
<1> QED
  BY <1>1, <1>2, <1>3

LEMMA CountIs ==
    ASSUME NEW k \in 1..12
    PROVE  Commands[k].count \in Nat /\ Commands[k].count >= 3
  BY CommandsAre DEF Command

-----------------------------------------------------------------------------
(* WordsInv is inductive.                                                  *)

LEMMA LinesTyped ==
    ASSUME NEW l \in Line \cup {<<>>}
    PROVE  /\ l \in Typed
           /\ \A k \in 2..Len(l) : Blank \in {l[k - 1], l[k]}
<1>1. CASE l \in Line
  BY <1>1, ClientAssumption DEF Typed, Word
<1>2. CASE l = <<>>
  <2>1. \A k \in 2..Len(l) : FALSE
    BY <1>2
  <2> QED
    BY <1>2, <2>1, TypedIs
<1> QED
  BY <1>1, <1>2

LEMMA EmptyLineAsks == Asked(<<>>) = <<>>
<1>1. <<>> \in Typed /\ Len(<<>>) = 0
  BY TypedIs
<1>2. WordsOf(<<>>) = <<>>
  BY <1>1, WordsUpToIs DEF WordsOf
<1> QED
  BY <1>2 DEF Asked

LEMMA OneElement ==
    ASSUME NEW S, NEW s \in Seq(S), Len(s) = 1
    PROVE  s = <<s[1]>>
  OBVIOUS

LEMMA SubSeqOfOne ==
    ASSUME NEW S, NEW s \in Seq(S), NEW n \in 1..Len(s)
    PROVE  SubSeq(s, n, n) = <<s[n]>>
<1>1. SubSeq(s, n, n) \in Seq(S) /\ Len(SubSeq(s, n, n)) = 1
  OBVIOUS
<1>2. SubSeq(s, n, n)[1] = s[n]
  OBVIOUS
<1>3. SubSeq(s, n, n) = <<SubSeq(s, n, n)[1]>>
  BY <1>1, OneElement
<1> QED
  BY <1>2, <1>3

(* The word between last and i goes to the slot arg.                       *)
LEMMA WordCopied ==
    ASSUME SlotsInv, str \in Typed, Holds(arg, last),
           i = last + 1, last <= Len(str), str[last] # Blank
    PROVE  /\ Len(WordsUpTo(str)[last]) = arg
           /\ \A k \in 1..arg : Copied[k] = <<WordsUpTo(str)[last][k]>>
<1>1. arg \in Nat \ {0} /\ last \in 1..Len(str) /\ Len(str) \in Nat
  BY DEF SlotsInv, Typed
<1> DEFINE w == WordsUpTo(str)
<1>2. w[last] = Append(w[last - 1], str[last])
  BY <1>1, WordsUpToIs
<1>3. w[last - 1] \in Typed /\ str[last] \in Word
  <2>1. last - 1 \in 0..Len(str)
    BY <1>1
  <2> QED
    BY <1>1, <2>1, WordsTyped, TypedIs
<1>4. Len(w[last - 1]) = arg - 1 /\ \A k \in 1..(arg - 1) : cmd_args[k] = <<w[last - 1][k]>>
  BY DEF Holds
<1> HIDE DEF w
<1>5. /\ Len(w[last]) = arg
      /\ w[last][arg] = str[last]
      /\ \A k \in 1..(arg - 1) : w[last][k] = w[last - 1][k]
  <2>1. Len(Append(w[last - 1], str[last])) = (arg - 1) + 1
    BY <1>3, <1>4, TypedIs
  <2>2. Append(w[last - 1], str[last])[(arg - 1) + 1] = str[last]
    BY <1>3, <1>4, TypedIs
  <2>3. \A k \in 1..(arg - 1) : Append(w[last - 1], str[last])[k] = w[last - 1][k]
    BY <1>3, <1>4, TypedIs
  <2>4. (arg - 1) + 1 = arg
    BY <1>1
  <2> QED
    BY <1>2, <2>1, <2>2, <2>3, <2>4
<1>6. Copied[arg] = <<str[last]>>
  <2>1. i - 1 = last
    BY <1>1
  <2>2. SubSeq(str, last, last) = <<str[last]>>
    BY <1>1, SubSeqOfOne DEF Typed
  <2> QED
    BY <2>1, <2>2 DEF Copied
<1>7. \A k \in 1..(arg - 1) : Copied[k] = cmd_args[k]
  <2>1. TAKE k \in 1..(arg - 1)
  <2>2. k \in DOMAIN cmd_args /\ k # arg
    BY <1>1 DEF SlotsInv
  <2> QED
    BY <2>2 DEF Copied
<1>8. ASSUME NEW k \in 1..arg
      PROVE  Copied[k] = <<w[last][k]>>
  <2>1. k = arg \/ k \in 1..(arg - 1)
    BY <1>1
  <2> QED
    BY <1>4, <1>5, <1>6, <1>7, <2>1
<1> QED
  BY <1>5, <1>8 DEF w

LEMMA InitWords == ClientInit => WordsInv
<1> SUFFICES ASSUME ClientInit PROVE WordsInv
  OBVIOUS
<1>1. pc = "prompt" /\ str = <<>> /\ sent = <<>>
  BY DEF ClientInit
<1>2. SendsWhatIsAsked
  BY <1>1, EmptyLineAsks DEF SendsWhatIsAsked
<1> QED
  BY <1>1, <1>2 DEF WordsInv

LEMMA WordsReadsLine ==
    ASSUME NEW l \in Line, ReadsLine(l)
    PROVE  WordsInv'
<1>1. pc' = "skip" /\ str' = l /\ i' = 1 /\ last' = 1 /\ sent' = <<>>
  BY DEF ReadsLine
<1>2. SkipInv'
  BY <1>1 DEF SkipInv
<1> QED
  BY <1>1, <1>2 DEF WordsInv, SendsWhatIsAsked

LEMMA WordsSkips ==
    ASSUME SlotsInv, WordsInv, SkipsBlanks
    PROVE  WordsInv'
<1>1. /\ pc = "skip" /\ str' = str /\ sent' = sent /\ arg' = arg /\ cmd_args' = cmd_args
      /\ arg = 1 /\ i \in Nat \ {0} /\ last \in Nat \ {0}
  BY DEF SkipsBlanks, SlotsInv
<1>2. str \in Typed /\ Len(str) \in Nat
  BY LinesTyped, TypedIs DEF WordsInv
<1>3. CASE ~AtEnd /\ str[i] = Blank
  <2>1. pc' = "skip" /\ i' = i + 1 /\ last' = last + 1 /\ i <= Len(str)
    BY <1>1, <1>2, <1>3 DEF SkipsBlanks, AtEnd
  <2>2. ASSUME SkipInv PROVE SkipInv'
    <3>1. i' = last'
      BY <2>1, <2>2 DEF SkipInv
    <3>2. ASSUME NEW k \in 1..(i' - 1) PROVE k <= Len(str) /\ str[k] = Blank
      <4>1. k = i \/ k \in 1..(i - 1)
        BY <1>1, <2>1
      <4> QED
        BY <1>3, <2>1, <2>2, <4>1 DEF SkipInv
    <3> QED
      BY <1>1, <3>1, <3>2 DEF SkipInv
  <2> QED
    BY <1>1, <2>1, <2>2 DEF WordsInv, SendsWhatIsAsked, SingleSpaced
<1>4. CASE AtEnd \/ str[i] # Blank
  <2>1. pc' = "split" /\ i' = i /\ last' = last
    BY <1>4 DEF SkipsBlanks
  <2>2. ASSUME SkipInv PROVE SplitInv'
    <3>1. AtWord'
      BY <1>1, <1>4, <2>1, <2>2 DEF AtWord, AtEnd, SkipInv
    <3>2. last - 1 \in 0..Len(str) /\ last \in 1..(Len(str) + 1)
      <4>1. last = 1 \/ last - 1 \in 1..(i - 1)
        BY <1>1, <2>2 DEF SkipInv
      <4> QED
        BY <1>1, <1>2, <2>2, <4>1 DEF SkipInv
    <3>3. \A k \in 1..(last - 1) : str[k] = Blank
      BY <2>2 DEF SkipInv
    <3>4. WordsUpTo(str)[last - 1] = <<>>
      BY <1>2, <3>2, <3>3, BlanksHoldNothing
    <3>5. Holds(arg, last)'
      BY <1>1, <2>1, <3>2, <3>4 DEF Holds
    <3> QED
      BY <3>1, <3>5 DEF SplitInv
  <2> QED
    BY <1>1, <2>1, <2>2 DEF WordsInv, SendsWhatIsAsked, SingleSpaced
<1> QED
  BY <1>3, <1>4

LEMMA WordsStopsSplitting ==
    ASSUME WordsInv, StopsSplitting
    PROVE  WordsInv'
<1>1. /\ pc = "split" /\ pc' = "rest" /\ str' = str /\ sent' = sent
      /\ i' = i /\ last' = last /\ arg' = arg /\ cmd_args' = cmd_args
      /\ (AtEnd \/ Full)
  BY DEF StopsSplitting, splitVars
<1>2. ASSUME SplitInv PROVE SplitInv'
  BY <1>1, <1>2 DEF SplitInv, AtWord, AtEnd, Holds
<1>3. (AtEnd \/ Full)'
  BY <1>1 DEF AtEnd, Full
<1>4. SingleSpaced(str) => SplitInv
  BY <1>1 DEF WordsInv
<1> QED
  BY <1>1, <1>2, <1>3, <1>4 DEF WordsInv, SendsWhatIsAsked, SingleSpaced

LEMMA WordsSplits ==
    ASSUME SlotsInv, WordsInv, Splits
    PROVE  WordsInv'
<1>1. /\ pc = "split" /\ pc' = "split" /\ str' = str /\ sent' = sent
      /\ i' = i + 1 /\ i <= Len(str)
      /\ i \in Nat \ {0} /\ last \in Nat \ {0} /\ arg \in Nat \ {0}
  <2>1. str \in Typed /\ Len(str) \in Nat
    BY LinesTyped, TypedIs DEF WordsInv
  <2> QED
    BY <2>1 DEF Splits, SlotsInv, AtEnd
<1>2. /\ str \in Typed /\ Len(str) \in Nat
      /\ \A k \in 2..Len(str) : Blank \in {str[k - 1], str[k]}
  BY LinesTyped, TypedIs DEF WordsInv
<1>3. ASSUME SingleSpaced(str), SplitInv PROVE SplitInv'
  <2>1. CASE str[i] = Blank /\ i > last
    <3>1. cmd_args' = Copied /\ last' = i + 1 /\ arg' = arg + 1
      BY <2>1 DEF Splits
    <3>2. i = last + 1 /\ last <= Len(str) /\ str[last] # Blank /\ Holds(arg, last)
      BY <1>1, <1>3, <2>1 DEF SplitInv, AtWord
    <3>3. /\ Len(WordsUpTo(str)[last]) = arg
          /\ \A k \in 1..arg : Copied[k] = <<WordsUpTo(str)[last][k]>>
      BY <1>2, <3>2, WordCopied
    <3>4. WordsUpTo(str)[last'- 1] = WordsUpTo(str)[last]
      <4>1. i \in 1..Len(str) /\ i - 1 = last /\ last' - 1 = i
        BY <1>1, <1>2, <3>1, <3>2
      <4> QED
        BY <1>2, <2>1, <4>1, WordsUpToIs
    <3>5. Holds(arg, last)'
      <4>1. last' \in 1..(Len(str) + 1) /\ arg' - 1 = arg
        BY <1>1, <1>2, <3>1
      <4> QED
        BY <1>1, <3>1, <3>3, <3>4, <4>1 DEF Holds
    <3>6. ASSUME i' <= Len(str) PROVE str[i'] # Blank
      <4>1. i \in 2..(Len(str) - 1) /\ last \in 1..i /\ i' = i + 1
        BY <1>1, <1>2, <3>2, <3>6
      <4> QED
        BY <1>3, <2>1, <3>2, <4>1 DEF SingleSpaced
    <3>7. AtWord'
      BY <1>1, <1>2, <3>1, <3>6 DEF AtWord, AtEnd
    <3> QED
      BY <3>5, <3>7 DEF SplitInv
  <2>2. CASE ~(str[i] = Blank /\ i > last)
    <3>1. cmd_args' = cmd_args /\ last' = last /\ arg' = arg
      BY <2>2 DEF Splits
    <3>2. i = last /\ str[i] # Blank
      <4>1. CASE i = last /\ (~AtEnd => str[i] # Blank)
        BY <1>1, <1>2, <4>1 DEF AtEnd
      <4>2. CASE i = last + 1 /\ last <= Len(str) /\ str[last] # Blank
        <5>1. i \in 2..Len(str) /\ i - 1 = last /\ i > last
          BY <1>1, <1>2, <4>2
        <5>2. Blank \in {str[last], str[i]}
          BY <1>2, <5>1
        <5> QED
          BY <2>2, <4>2, <5>1, <5>2
      <4> QED
        BY <1>3, <4>1, <4>2 DEF SplitInv, AtWord
    <3>3. AtWord'
      BY <1>1, <3>1, <3>2 DEF AtWord
    <3>4. Holds(arg, last)'
      BY <1>1, <1>3, <3>1 DEF SplitInv, Holds
    <3> QED
      BY <3>3, <3>4 DEF SplitInv
  <2> QED
    BY <2>1, <2>2
<1>4. SingleSpaced(str) => SplitInv
  BY <1>1 DEF WordsInv
<1> QED
  BY <1>1, <1>3, <1>4 DEF WordsInv, SendsWhatIsAsked, SingleSpaced

LEMMA WordsTakesRest ==
    ASSUME SlotsInv, WordsInv, TakesRest
    PROVE  WordsInv'
<1>1. /\ pc = "rest" /\ pc' = "command" /\ str' = str /\ sent' = sent
      /\ i \in Nat \ {0} /\ last \in Nat \ {0} /\ arg \in Nat \ {0}
  BY DEF TakesRest, SlotsInv
<1>2. str \in Typed /\ Len(str) \in Nat
  BY LinesTyped, TypedIs DEF WordsInv
<1>3. ASSUME SplitInv, AtEnd \/ Full PROVE CommandInv'
  <2>1. CASE i > last
    <3>1. cmd_args' = Copied /\ cmd_arg_count' = arg
      BY <2>1 DEF TakesRest
    <3>2. i = last + 1 /\ last <= Len(str) /\ str[last] # Blank /\ Holds(arg, last)
      BY <1>1, <1>3, <2>1 DEF SplitInv, AtWord
    <3>3. ~Full
      BY <1>1, <2>1, ClientAssumption DEF SlotsInv, Full
    <3>4. last = Len(str)
      BY <1>1, <1>2, <1>3, <3>2, <3>3 DEF AtEnd
    <3>5. /\ Len(WordsUpTo(str)[last]) = arg
          /\ \A k \in 1..arg : Copied[k] = <<WordsUpTo(str)[last][k]>>
      BY <1>2, <3>2, WordCopied
    <3>6. /\ (cmd_arg_count + 1)' - 1 = arg
          /\ (Len(str) + 1)' - 1 = last
          /\ (Len(str) + 1)' \in 1..(Len(str) + 1)'
      BY <1>1, <1>2, <3>1, <3>4
    <3>7. Holds(cmd_arg_count + 1, Len(str) + 1)'
      BY <1>1, <3>1, <3>5, <3>6 DEF Holds
    <3> QED
      BY <1>1, <3>1, <3>4, <3>5, <3>7 DEF CommandInv, WordsOf
  <2>2. CASE ~(i > last)
    <3>1. cmd_args' = cmd_args /\ cmd_arg_count' = arg - 1
      BY <2>2 DEF TakesRest
    <3>2. i = last /\ Holds(arg, last)
      BY <1>1, <1>3, <2>2 DEF SplitInv, AtWord
    <3>3. last \in 1..(Len(str) + 1) /\ Len(WordsUpTo(str)[last - 1]) = arg - 1
      BY <3>2 DEF Holds
    <3>4. CASE AtEnd
      <4>1. last = Len(str) + 1 /\ last - 1 = Len(str)
        BY <1>1, <1>2, <3>2, <3>3, <3>4 DEF AtEnd
      <4>2. cmd_arg_count' = Len(WordsOf(str'))
        BY <1>1, <3>1, <3>3, <4>1 DEF WordsOf
      <4>3. cmd_arg_count' + 1 = arg
        BY <1>1, <3>1
      <4>4. Holds(cmd_arg_count + 1, Len(str) + 1)'
        BY <1>1, <3>1, <3>2, <4>1, <4>3 DEF Holds
      <4> QED
        BY <4>2, <4>4 DEF CommandInv
    <3>5. CASE Full
      <4>1. arg = MaxArgs + 1 /\ MaxArgs \in Nat
        BY <1>1, <3>5, ClientAssumption DEF Full, SlotsInv, ArgsInBounds
      <4>2. last - 1 \in 0..Len(str) /\ Len(str) \in (last - 1)..Len(str)
        BY <1>2, <3>3
      <4>3. Len(WordsUpTo(str)[last - 1]) <= Len(WordsUpTo(str)[Len(str)])
        BY <1>2, <4>2, WordsGrow
      <4>4. cmd_arg_count' = MaxArgs /\ Len(WordsOf(str')) >= MaxArgs
        <5>1. Len(WordsUpTo(str)[last - 1]) = MaxArgs
          BY <3>3, <4>1
        <5>2. Len(WordsOf(str)) \in Nat
          BY <1>2, <4>2, WordsTyped, TypedIs DEF WordsOf
        <5>3. Len(WordsOf(str)) >= MaxArgs
          BY <4>1, <4>3, <5>1, <5>2 DEF WordsOf
        <5> QED
          BY <1>1, <3>1, <4>1, <5>3
      <4> QED
        BY <4>4 DEF CommandInv
    <3> QED
      BY <1>3, <3>4, <3>5
  <2> QED
    BY <2>1, <2>2
<1>4. SingleSpaced(str) => SplitInv /\ (AtEnd \/ Full)
  BY <1>1 DEF WordsInv
<1> QED
  BY <1>1, <1>3, <1>4 DEF WordsInv, SendsWhatIsAsked, SingleSpaced

-----------------------------------------------------------------------------
(* What the handlers do with the arguments.                                *)

Args(words) == [k \in DOMAIN words |-> <<words[k]>>]

LEMMA AsksNothing ==
    ASSUME NEW l,
           \/ WordsOf(l) = <<>>
           \/ Matches(Name(WordsOf(l)[1])) = {}
           \/ Len(WordsOf(l)) # Commands[FirstMatch(Name(WordsOf(l)[1]))].count
           \/ WordsOf(l)[2] \notin Hosts
    PROVE  Asked(l) = <<>>
<1>1. CASE WordsOf(l) = <<>> \/ Matches(Name(WordsOf(l)[1])) = {}
  BY <1>1 DEF Asked
<1>2. CASE Matches(Name(WordsOf(l)[1])) # {}
  <2>1. LongestMatch(Name(WordsOf(l)[1])) = FirstMatch(Name(WordsOf(l)[1]))
    BY <1>2, MatchIs
  <2> QED
    BY <2>1 DEF Asked, LongestMatch
<1> QED
  BY <1>1, <1>2

LEMMA AsksOne ==
    ASSUME NEW l, NEW k,
           WordsOf(l) # <<>>, Matches(Name(WordsOf(l)[1])) # {},
           k = FirstMatch(Name(WordsOf(l)[1])),
           Len(WordsOf(l)) = Commands[k].count, WordsOf(l)[2] \in Hosts
    PROVE  Asked(l) = <<[host |-> Args(WordsOf(l))[2], port |-> atoi(Args(WordsOf(l))[3]),
                         msg |-> Message(Commands[k].type, Args(WordsOf(l)))]>>
<1>1. LongestMatch(Name(WordsOf(l)[1])) = k
  BY MatchIs
<1> QED
  BY <1>1 DEF Asked, LongestMatch, Args

(* A line with as many words as there are slots, or more, asks for nothing.*)
LEMMA FullAsksNothing ==
    ASSUME RoomForArgs, NEW l \in Typed, Len(WordsOf(l)) >= MaxArgs
    PROVE  Asked(l) = <<>>
<1> DEFINE name == Name(WordsOf(l)[1])
<1>1. CASE Matches(name) = {}
  BY <1>1, AsksNothing
<1>2. CASE Matches(name) # {}
  <2>1. PICK k \in 1..12 : k = FirstMatch(name)
    BY <1>2, MatchIs
  <2>2. Commands[k].count < MaxArgs
    BY <2>1, CommandsAre DEF RoomForArgs
  <2>3. Commands[k].count \in Nat
    BY <2>1, CountIs
  <2>4. Len(l) \in 0..Len(l)
    BY TypedIs
  <2>5. Len(WordsOf(l)) \in Nat
    BY <2>4, WordsTyped, TypedIs DEF WordsOf
  <2>6. Len(WordsOf(l)) # Commands[k].count
    BY <2>2, <2>3, <2>5, ClientAssumption
  <2> QED
    BY <2>1, <2>6, AsksNothing
<1> QED
  BY <1>1, <1>2

(* Unless there are more words than slots, the arguments are the words.    *)
LEMMA ArgsAreWords ==
    ASSUME SlotsInv, WordsInv, AtCommand, SingleSpaced(str),
           ~(Len(WordsOf(str)) >= MaxArgs)
    PROVE  /\ WordsOf(str) \in Typed
           /\ WordsOf(str) # <<>>
           /\ cmd_arg_count = Len(WordsOf(str))
           /\ 1..cmd_arg_count \subseteq DOMAIN cmd_args
           /\ \A k \in 1..cmd_arg_count : cmd_args[k] = <<WordsOf(str)[k]>>
           /\ CmdName = Name(WordsOf(str)[1])
<1>1. str \in Typed /\ Len(str) \in 0..Len(str) /\ Len(str) \in Nat
  BY LinesTyped, TypedIs DEF WordsInv
<1>2. WordsOf(str) \in Typed /\ Len(WordsOf(str)) \in Nat
  BY <1>1, WordsTyped, TypedIs DEF WordsOf
<1>3. cmd_arg_count \in Nat \ {0} /\ MaxArgs \in Nat
  BY ClientAssumption DEF SlotsInv, AtCommand
<1>4. cmd_arg_count = Len(WordsOf(str)) /\ Holds(cmd_arg_count + 1, Len(str) + 1)
  BY <1>2, <1>3 DEF WordsInv, AtCommand, CommandInv
<1>5. WordsOf(str) # <<>>
  BY <1>3, <1>4
<1>6. \A k \in 1..cmd_arg_count : cmd_args[k] = <<WordsOf(str)[k]>>
  <2>1. (cmd_arg_count + 1) - 1 = cmd_arg_count /\ (Len(str) + 1) - 1 = Len(str)
    BY <1>1, <1>3
  <2> QED
    BY <1>4, <2>1 DEF Holds, WordsOf
<1>7. 1..cmd_arg_count \subseteq DOMAIN cmd_args
  BY DEF SlotsInv, AtCommand
<1>8. CmdName = Name(WordsOf(str)[1])
  <2>1. cmd_args[1] = <<WordsOf(str)[1]>>
    BY <1>3, <1>6
  <2>2. Head(cmd_args[1]) = WordsOf(str)[1]
    BY <2>1
  <2> QED
    BY <2>2 DEF CmdName
<1> QED
  BY <1>2, <1>4, <1>5, <1>6, <1>7, <1>8

(* What DoesCommand sends, with the command that it takes named.           *)
LEMMA DoesCommandIs ==
    ASSUME DoesCommand, NEW k, k = FirstMatch(CmdName)
    PROVE  /\ AtCommand /\ Matches(CmdName) # {} /\ LowersName
           /\ UNCHANGED splitVars
           /\ \/ /\ pc' = "prompt"
                 /\ \/ /\ cmd_arg_count = Commands[k].count
                       /\ resolve_host(cmd_args'[2])
                       /\ sent' = <<[host |-> cmd_args'[2], port |-> atoi(cmd_args'[3]),
                                     msg |-> Message(Commands[k].type, cmd_args')]>>
                    \/ /\ ~(cmd_arg_count = Commands[k].count /\ resolve_host(cmd_args'[2]))
                       /\ sent' = sent
              \/ pc' = "exited" /\ sent' = sent
  BY DEF DoesCommand, FirstMatch

LEMMA WordsDoesCommand ==
    ASSUME RoomForArgs, SlotsInv, WordsInv, DoesCommand
    PROVE  WordsInv'
<1>1. PICK k \in 1..12 : k = FirstMatch(CmdName)
  BY MatchIs DEF DoesCommand
<1>2. /\ AtCommand /\ Matches(CmdName) # {} /\ LowersName
      /\ UNCHANGED splitVars
      /\ \/ /\ pc' = "prompt"
            /\ \/ /\ cmd_arg_count = Commands[k].count
                  /\ resolve_host(cmd_args'[2])
                  /\ sent' = <<[host |-> cmd_args'[2], port |-> atoi(cmd_args'[3]),
                                msg |-> Message(Commands[k].type, cmd_args')]>>
               \/ /\ ~(cmd_arg_count = Commands[k].count /\ resolve_host(cmd_args'[2]))
                  /\ sent' = sent
         \/ pc' = "exited" /\ sent' = sent
  BY <1>1, DoesCommandIs
<1>3. /\ str' = str /\ pc = "command" /\ sent = <<>>
      /\ str \in Typed /\ Len(str) \in 0..Len(str)
  BY <1>2, LinesTyped, TypedIs DEF AtCommand, WordsInv, splitVars
<1>4. Len(WordsOf(str)) \in Nat /\ cmd_arg_count \in Nat /\ MaxArgs \in Nat
  BY <1>3, WordsTyped, TypedIs, ClientAssumption DEF WordsOf, SlotsInv
<1>5. Commands[k].count \in Nat /\ Commands[k].count >= 3 /\ Commands[k].count < MaxArgs
  BY CountIs, CommandsAre DEF RoomForArgs
<1>6. ASSUME SingleSpaced(str), pc' = "prompt" PROVE sent' = Asked(str)
  <2>1. CASE Len(WordsOf(str)) >= MaxArgs
    <3>1. cmd_arg_count = MaxArgs
      BY <1>3, <1>4, <1>6, <2>1 DEF WordsInv, CommandInv, SlotsInv, ArgsInBounds
    <3> QED
      BY <1>2, <1>3, <1>4, <1>5, <1>6, <2>1, <3>1, FullAsksNothing
  <2>2. CASE ~(Len(WordsOf(str)) >= MaxArgs)
    <3> DEFINE words == WordsOf(str)
    <3>1. /\ words \in Typed /\ words # <<>>
          /\ cmd_arg_count = Len(words)
          /\ 1..cmd_arg_count \subseteq DOMAIN cmd_args
          /\ \A n \in 1..cmd_arg_count : cmd_args[n] = <<words[n]>>
          /\ CmdName = Name(words[1])
      BY <1>2, <1>6, <2>2, ArgsAreWords
    <3>2. k = FirstMatch(Name(words[1])) /\ Matches(Name(words[1])) # {}
      BY <1>1, <1>2, <3>1
    <3>3. CASE cmd_arg_count = Commands[k].count
      <4>1. \A n \in 2..cmd_arg_count : cmd_args'[n] = Args(words)[n]
        <5>1. TAKE n \in 2..cmd_arg_count
        <5>2. n \in DOMAIN cmd_args /\ n # 1 /\ cmd_args[n] = <<words[n]>>
          BY <1>4, <3>1
        <5>3. cmd_args'[n] = <<words[n]>>
          BY <1>2, <5>2 DEF LowersName
        <5>4. n \in DOMAIN words
          BY <1>4, <3>1 DEF Typed
        <5> QED
          BY <5>3, <5>4 DEF Args
      <4>0. 2 \in 2..cmd_arg_count /\ 3 \in 2..cmd_arg_count
        BY <1>4, <1>5, <3>3
      <4>2. 2 \in DOMAIN words
        <5>1. DOMAIN words = 1..Len(words)
          BY <3>1 DEF Typed
        <5> QED
          BY <3>1, <4>0, <5>1
      <4>3. /\ cmd_args'[2] = <<words[2]>> /\ cmd_args'[2] = Args(words)[2]
            /\ cmd_args'[3] = Args(words)[3]
        BY <4>0, <4>1, <4>2 DEF Args
      <4>4. resolve_host(cmd_args'[2]) <=> words[2] \in Hosts
        <5>1. \A h : <<h>> = <<words[2]>> <=> h = words[2]
          OBVIOUS
        <5> QED
          BY <4>3, <5>1 DEF resolve_host
      <4>5. CASE words[2] \in Hosts
        <5>1. \A n \in 4..Commands[k].count : cmd_args'[n] = Args(words)[n]
          BY <1>4, <3>3, <4>1
        <5>2. Message(Commands[k].type, cmd_args') = Message(Commands[k].type, Args(words))
          BY <5>1, MessageSame
        <5>3. Asked(str) = <<[host |-> Args(words)[2], port |-> atoi(Args(words)[3]),
                              msg |-> Message(Commands[k].type, Args(words))]>>
          BY <3>1, <3>2, <3>3, <4>5, AsksOne
        <5> QED
          BY <1>2, <1>6, <3>3, <4>3, <4>4, <4>5, <5>2, <5>3
      <4>6. CASE words[2] \notin Hosts
        BY <1>2, <1>3, <1>6, <4>4, <4>6, AsksNothing
      <4> QED
        BY <4>5, <4>6
    <3>4. CASE cmd_arg_count # Commands[k].count
      BY <1>2, <1>3, <1>6, <3>1, <3>2, <3>4, AsksNothing
    <3> QED
      BY <3>3, <3>4
  <2> QED
    BY <2>1, <2>2
<1>7. SendsWhatIsAsked'
  BY <1>3, <1>6 DEF SendsWhatIsAsked, SingleSpaced
<1> QED
  BY <1>2, <1>3, <1>7 DEF WordsInv

(* No command of main's list: exit, quit, an unknown name, no name.        *)
LEMMA WordsOtherLine ==
    ASSUME RoomForArgs, SlotsInv, WordsInv, ReadsEmptyLine \/ Quits \/ UnknownName
    PROVE  WordsInv'
<1>1. /\ str' = str /\ pc = "command" /\ sent' = sent /\ sent = <<>>
      /\ pc' \in {"prompt", "exited"}
  BY DEF ReadsEmptyLine, Quits, UnknownName, AtCommand, WordsInv, splitVars
<1>2. str \in Typed /\ Len(str) \in 0..Len(str) /\ Len(str) \in Nat
  BY LinesTyped, TypedIs DEF WordsInv
<1>3. WordsOf(str) \in Typed /\ Len(WordsOf(str)) \in Nat /\ MaxArgs \in Nat \ {0}
  BY <1>2, WordsTyped, TypedIs, ClientAssumption DEF WordsOf
<1>4. ASSUME SingleSpaced(str) PROVE Asked(str) = <<>>
  <2>1. CASE Len(WordsOf(str)) >= MaxArgs
    BY <1>2, <2>1, FullAsksNothing
  <2>2. CASE ~(Len(WordsOf(str)) >= MaxArgs) /\ ReadsEmptyLine
    <3>1. cmd_arg_count = 0 /\ cmd_arg_count = Len(WordsOf(str))
      BY <1>1, <1>3, <1>4, <2>2 DEF WordsInv, CommandInv, ReadsEmptyLine
    <3>2. WordsOf(str) = <<>>
      BY <1>3, <3>1 DEF Typed
    <3> QED
      BY <3>2, AsksNothing
  <2>3. CASE ~(Len(WordsOf(str)) >= MaxArgs) /\ (Quits \/ UnknownName)
    <3>1. AtCommand /\ Matches(CmdName) = {}
      BY <2>3 DEF Quits, UnknownName
    <3>2. CmdName = Name(WordsOf(str)[1])
      BY <1>4, <2>3, <3>1, ArgsAreWords
    <3> QED
      BY <3>1, <3>2, AsksNothing
  <2> QED
    BY <2>1, <2>2, <2>3
<1>5. SendsWhatIsAsked'
  BY <1>1, <1>4 DEF SendsWhatIsAsked, SingleSpaced
<1> QED
  BY <1>1, <1>5 DEF WordsInv

LEMMA WordsStep ==
    RoomForArgs /\ SlotsInv /\ WordsInv /\ [ClientNext]_clientVars => WordsInv'
<1> SUFFICES ASSUME RoomForArgs, SlotsInv, WordsInv, [ClientNext]_clientVars
             PROVE  WordsInv'
  OBVIOUS
<1>1. CASE \E l \in Line : ReadsLine(l)
  BY <1>1, WordsReadsLine
<1>2. CASE ReadsNothing
  BY <1>2 DEF ReadsNothing, splitVars, WordsInv, SendsWhatIsAsked, SingleSpaced
<1>3. CASE SkipsBlanks
  BY <1>3, WordsSkips
<1>4. CASE Splits
  BY <1>4, WordsSplits
<1>5. CASE StopsSplitting
  BY <1>5, WordsStopsSplitting
<1>6. CASE TakesRest
  BY <1>6, WordsTakesRest
<1>7. CASE ReadsEmptyLine \/ Quits \/ UnknownName
  BY <1>7, WordsOtherLine
<1>8. CASE DoesCommand
  BY <1>8, WordsDoesCommand
<1>9. CASE UNCHANGED clientVars
  BY <1>9 DEF clientVars, WordsInv, SendsWhatIsAsked, SingleSpaced, SkipInv,
              SplitInv, AtWord, AtEnd, Full, Holds, CommandInv
<1> QED
  BY <1>1, <1>2, <1>3, <1>4, <1>5, <1>6, <1>7, <1>8, <1>9 DEF ClientNext

(* A line whose words are single spaced leads to exactly the datagram that *)
(* its words ask for, or to none, whatever earlier lines have left in      *)
(* cmd_args, for lines of any length and any table of hosts.               *)
THEOREM AskedIsSent == RoomForArgs /\ ClientSpec => []SendsWhatIsAsked
<1>1. WordsInv => SendsWhatIsAsked
  BY DEF WordsInv
<1>2. CASE RoomForArgs
  <2>1. SlotsInv /\ WordsInv /\ [ClientNext]_clientVars => WordsInv'
    BY <1>2, WordsStep
  <2> QED
    BY <1>1, <2>1, InitWords, SlotsKept, PTL DEF ClientSpec
<1> QED
  BY <1>2
=============================================================================
