------------------------------- MODULE CliProofs -------------------------------
(***************************************************************************)
(* The command line is served as the usage text says, and the exit code    *)
(* tells the truth, for arguments of any kind and number, and any number   *)
(* of processes one after the other.                                       *)
(***************************************************************************)
EXTENDS Cli, SequenceTheorems, TLAPS

CliType ==
  /\ stores \in [Dirs -> Maps \cup {NoStore}] /\ before \in [Dirs -> Maps \cup {NoStore}]
  /\ command \in Commands \cup {"none", "help", "unknown"}
  /\ args \in Seq(Texts)
  /\ positionals \in Seq(Plains)
  /\ dir \in Dirs
  /\ dirSeen \in BOOLEAN
  /\ phase \in {"shell", "parse", "parsed", "call"}
  /\ runs \in Nat

(* Of the arguments read so far, those at i and i + 1 gave the directory,  *)
(* and the others are the positionals.                                     *)
SeenAt(i) ==
  /\ Pair(args, i) /\ dir = args[i + 1]
  /\ Len(positionals) = index - 3
  /\ \A j \in 1..(index - 3) : positionals[j] = args[IF j < i THEN j ELSE j + 2]
  /\ \A j \in 1..(index - 1) \ {i, i + 1} : args[j] \in Plains

(* All of them are positionals.                                            *)
NotSeen ==
  /\ dir = DefaultDir
  /\ Len(positionals) = index - 1
  /\ \A j \in 1..(index - 1) : positionals[j] = args[j] /\ args[j] \in Plains

ParseInv ==
  phase = "parse" =>
    /\ index \in 1..(Len(args) + 1)
    /\ IF dirSeen THEN \E i \in 1..(index - 2) : SeenAt(i) ELSE NotSeen

(* The ways in which the arguments fit the usage text, whatever the count. *)
Whole == [pos |-> args, dir |-> DefaultDir]
Parted(i) == [pos |-> Without(args, i), dir |-> args[i + 1]]
Candidates ==
  {Whole} \cup {Parted(i) : i \in {j \in 1..(Len(args) - 1) : Pair(args, j)}}
Forms == {u \in Candidates : ToSet(u.pos) \subseteq Plains}

Use == [pos |-> positionals, dir |-> dir]

(* A process has ended, and had one of the six commands.                   *)
Ended == phase = "shell" /\ command \in Commands /\ runs > 0

(* The command line has been found to be right.                            *)
Served == phase = "call" \/ (Ended /\ outcome \in {"done", "not found", "failed"})

FormInv ==
  /\ phase # "shell" => command \in Commands /\ runs > 0
  /\ phase = "shell" /\ command \in Commands => runs > 0
  /\ Ended => outcome \in {"usage", "done", "not found", "failed"}
  /\ phase = "parsed" \/ Served => Forms = {Use}
  /\ Served => Len(positionals) = Arity[command]
  /\ Ended /\ outcome = "usage" => Usages = {}

StoresInv ==
  /\ phase \in {"parse", "parsed"} => stores = before
  /\ phase = "call" =>
       stores = [before EXCEPT ![dir] = IF @ = NoStore THEN NothingStored ELSE @]
  /\ ExitCodeTellsTruth

CInv == CliType /\ ParseInv /\ FormInv /\ StoresInv

-----------------------------------------------------------------------------
(* Which arguments are of which kind.                                      *)
LEMMA Kinds ==
  /\ DirFlag \notin Plains /\ DirFlag \notin Options /\ Options \cap Plains = {}
  /\ Plains \subseteq Texts /\ Texts \ {Empty} \subseteq Dirs /\ DefaultDir \in Dirs
  /\ \A t \in Texts : t \in Plains \/ t \in Options \/ t = DirFlag
BY TextsAssumption DEF Plains, Texts, Dirs

(* What is left of a sequence when two neighbours are taken out.           *)
LEMMA WithoutIs ==
  ASSUME NEW S, NEW s \in Seq(S), NEW i \in 1..(Len(s) - 1)
  PROVE  /\ Without(s, i) \in Seq(S)
         /\ Len(Without(s, i)) = Len(s) - 2
         /\ \A j \in 1..(Len(s) - 2) :
              Without(s, i)[j] = s[IF j < i THEN j ELSE j + 2]
<1> DEFINE a == SubSeq(s, 1, i - 1)
           b == SubSeq(s, i + 2, Len(s))
           n == Len(s)
<1>1. n \in Nat /\ i \in Nat /\ 1 <= i /\ i <= n - 1 /\ \A j \in 1..n : s[j] \in S
  BY LenProperties, ElementOfSeq
<1>2. /\ a \in Seq(S) /\ Len(a) = i - 1
      /\ \A j \in 1..(i - 1) : a[j] = s[j]
  <2>1. /\ SubSeq(s, 1, i - 1) \in Seq(S)
        /\ Len(SubSeq(s, 1, i - 1)) = IF 1 <= i - 1 THEN (i - 1) - 1 + 1 ELSE 0
        /\ \A j \in 1..((i - 1) - 1 + 1) : SubSeq(s, 1, i - 1)[j] = s[1 + j - 1]
    BY <1>1, SubSeqProperties
  <2> QED
    BY <1>1, <2>1
<1>3. /\ b \in Seq(S) /\ Len(b) = n - i - 1
      /\ \A j \in 1..(n - i - 1) : b[j] = s[i + 1 + j]
  <2>1. /\ SubSeq(s, i + 2, n) \in Seq(S)
        /\ Len(SubSeq(s, i + 2, n)) = IF i + 2 <= n THEN n - (i + 2) + 1 ELSE 0
        /\ \A j \in 1..(n - (i + 2) + 1) : SubSeq(s, i + 2, n)[j] = s[(i + 2) + j - 1]
    BY <1>1, SubSeqProperties
  <2> QED
    BY <1>1, <2>1
<1>4. Without(s, i) = a \o b
  BY DEF Without
<1> HIDE DEF a, b, n
<1>5. /\ a \o b \in Seq(S) /\ Len(a \o b) = Len(a) + Len(b)
      /\ \A j \in 1..(Len(a) + Len(b)) :
           (a \o b)[j] = IF j <= Len(a) THEN a[j] ELSE b[j - Len(a)]
  BY <1>2, <1>3, ConcatProperties
<1>6. ASSUME NEW j \in 1..(n - 2)
      PROVE  (a \o b)[j] = s[IF j < i THEN j ELSE j + 2]
  <2>1. j \in 1..(Len(a) + Len(b))
    BY <1>1, <1>2, <1>3
  <2>2. CASE j < i
    <3>1. j \in 1..(i - 1) /\ j <= Len(a)
      BY <1>1, <1>2, <2>2
    <3> QED
      BY <1>2, <1>5, <2>1, <2>2, <3>1
  <2>3. CASE ~ (j < i)
    <3>1. /\ ~ (j <= Len(a)) /\ j - Len(a) = j - (i - 1)
          /\ j - (i - 1) \in 1..(n - i - 1) /\ i + 1 + (j - (i - 1)) = j + 2
      BY <1>1, <1>2, <2>3
    <3>2. (a \o b)[j] = b[j - (i - 1)]
      BY <1>5, <2>1, <3>1
    <3>3. b[j - (i - 1)] = s[i + 1 + (j - (i - 1))]
      BY <1>3, <3>1
    <3> QED
      BY <2>3, <3>1, <3>2, <3>3
  <2> QED
    BY <2>2, <2>3
<1>7. Len(a) + Len(b) = n - 2
  BY <1>1, <1>2, <1>3
<1> QED
  BY <1>4, <1>5, <1>6, <1>7 DEF n

LEMMA WithoutElements ==
  ASSUME NEW S, NEW s \in Seq(S), NEW i \in 1..(Len(s) - 1), NEW T
  PROVE  ToSet(Without(s, i)) \subseteq T <=>
           \A j \in 1..Len(s) \ {i, i + 1} : s[j] \in T
<1> DEFINE w == Without(s, i)
           n == Len(s)
<1>1. n \in Nat /\ i \in Nat /\ 1 <= i /\ i <= n - 1
  BY LenProperties
<1>2. /\ w \in Seq(S) /\ Len(w) = n - 2
      /\ \A j \in 1..(n - 2) : w[j] = s[IF j < i THEN j ELSE j + 2]
  BY WithoutIs
<1> HIDE DEF w, n
<1>3. DOMAIN w = 1..(n - 2)
  BY <1>2, LenProperties
<1>4. ToSet(w) \subseteq T <=> \A j \in 1..(n - 2) : w[j] \in T
  BY <1>3 DEF ToSet
<1>5. ASSUME \A j \in 1..(n - 2) : w[j] \in T, NEW j \in 1..n \ {i, i + 1}
      PROVE  s[j] \in T
  <2>1. CASE j < i
    <3>1. j \in 1..(n - 2)
      BY <1>1, <2>1
    <3> QED
      BY <1>2, <1>5, <2>1, <3>1
  <2>2. CASE j > i + 1
    <3>1. j - 2 \in 1..(n - 2) /\ ~ (j - 2 < i) /\ (j - 2) + 2 = j
      BY <1>1, <2>2
    <3>2. w[j - 2] \in T /\ w[j - 2] = s[(j - 2) + 2]
      BY <1>2, <1>5, <3>1
    <3> QED
      BY <3>1, <3>2
  <2> QED
    BY <1>1, <2>1, <2>2
<1>6. ASSUME \A j \in 1..n \ {i, i + 1} : s[j] \in T, NEW j \in 1..(n - 2)
      PROVE  w[j] \in T
  <2>1. CASE j < i
    <3>1. j \in 1..n \ {i, i + 1}
      BY <1>1, <2>1
    <3> QED
      BY <1>2, <1>6, <2>1, <3>1
  <2>2. CASE ~ (j < i)
    <3>1. j + 2 \in 1..n \ {i, i + 1}
      BY <1>1, <2>2
    <3> QED
      BY <1>2, <1>6, <2>2, <3>1
  <2> QED
    BY <2>1, <2>2
<1> QED
  BY <1>4, <1>5, <1>6 DEF w, n

-----------------------------------------------------------------------------
(* The forms of a command line *)

(* What of the arguments lies outside of i and i + 1 is a positional.      *)
LEMMA FormsAre ==
  ASSUME CliType, NEW u
  PROVE  u \in Forms <=>
           \/ u = Whole /\ \A j \in 1..Len(args) : args[j] \in Plains
           \/ \E i \in 1..(Len(args) - 1) :
                /\ Pair(args, i) /\ u = Parted(i)
                /\ \A j \in 1..Len(args) \ {i, i + 1} : args[j] \in Plains
<1>1. args \in Seq(Texts)
  BY DEF CliType
<1>2. ToSet(Whole.pos) \subseteq Plains <=> \A j \in 1..Len(args) : args[j] \in Plains
  BY <1>1, LenProperties DEF Whole, ToSet
<1>3. ASSUME NEW i \in 1..(Len(args) - 1)
      PROVE  ToSet(Parted(i).pos) \subseteq Plains <=>
               \A j \in 1..Len(args) \ {i, i + 1} : args[j] \in Plains
  <2>1. Parted(i).pos = Without(args, i)
    BY DEF Parted
  <2> QED
    BY <1>1, <2>1, WithoutElements
<1>4. u \in Forms <=>
        \/ u = Whole /\ ToSet(Whole.pos) \subseteq Plains
        \/ \E i \in 1..(Len(args) - 1) :
             Pair(args, i) /\ u = Parted(i) /\ ToSet(Parted(i).pos) \subseteq Plains
  BY DEF Forms, Candidates
<1> QED
  BY <1>2, <1>3, <1>4

LEMMA UsagesAre == Usages = {u \in Forms : Len(u.pos) = Arity[command]}
BY DEF Usages, Forms, Candidates, Whole, Parted

(* The facts about the parser's variables that the steps use.              *)
LEMMA ParseFacts ==
  ASSUME CliType, ParseInv, phase = "parse"
  PROVE  /\ args \in Seq(Texts) /\ Len(args) \in Nat
         /\ \A j \in 1..Len(args) : args[j] \in Texts
         /\ index \in Int /\ 1 <= index /\ index <= Len(args) + 1
         /\ positionals \in Seq(Plains)
         /\ dirSeen => \E i \in 1..(index - 2) : SeenAt(i)
         /\ ~ dirSeen => NotSeen
<1>1. args \in Seq(Texts) /\ positionals \in Seq(Plains) /\ dirSeen \in BOOLEAN
  BY DEF CliType
<1>2. Len(args) \in Nat /\ \A j \in 1..Len(args) : args[j] \in Texts
  BY <1>1, LenProperties, ElementOfSeq
<1>3. index \in 1..(Len(args) + 1) /\ IF dirSeen THEN \E i \in 1..(index - 2) : SeenAt(i) ELSE NotSeen
  BY DEF ParseInv
<1> QED
  BY <1>1, <1>2, <1>3

(* What has been read is the one form that the arguments have.             *)
LEMMA EndFindsForm ==
  ASSUME CliType, ParseInv, ParseEnds
  PROVE  Forms = {Use}
<1> DEFINE n == Len(args)
<1>1. /\ phase = "parse" /\ args \in Seq(Texts) /\ n \in Nat
      /\ index = n + 1 /\ positionals \in Seq(Plains)
      /\ dirSeen => \E i \in 1..(index - 2) : SeenAt(i)
      /\ ~ dirSeen => NotSeen
  BY ParseFacts DEF ParseEnds
<1> HIDE DEF n
<1>2. \A u : u \in Forms <=>
           \/ u = Whole /\ \A j \in 1..n : args[j] \in Plains
           \/ \E i \in 1..(n - 1) :
                /\ Pair(args, i) /\ u = Parted(i)
                /\ \A j \in 1..n \ {i, i + 1} : args[j] \in Plains
  BY FormsAre DEF n
<1>3. CASE ~ dirSeen
  <2>1. /\ dir = DefaultDir /\ Len(positionals) = n
        /\ \A j \in 1..n : positionals[j] = args[j] /\ args[j] \in Plains
    BY <1>1, <1>3 DEF NotSeen
  <2>2. positionals \in Seq(Texts) /\ n = Len(args)
    BY <1>1, Kinds, SeqMonotonic DEF n
  <2>3. positionals = args
    BY <1>1, <2>1, <2>2, SeqEqual
  <2>4. Use = Whole
    BY <2>1, <2>3 DEF Use, Whole
  <2>5. ASSUME NEW i \in 1..(n - 1)
        PROVE  ~ Pair(args, i)
    <3>1. i \in 1..n
      BY <1>1
    <3> QED
      BY <2>1, <3>1, Kinds DEF Pair
  <2> QED
    BY <1>2, <2>1, <2>4, <2>5
<1>4. CASE dirSeen
  <2>1. PICK i \in 1..(n - 1) : SeenAt(i)
    BY <1>1, <1>4
  <2>2. /\ Pair(args, i) /\ dir = args[i + 1]
        /\ Len(positionals) = n - 2
        /\ \A j \in 1..(n - 2) : positionals[j] = args[IF j < i THEN j ELSE j + 2]
        /\ \A j \in 1..n \ {i, i + 1} : args[j] \in Plains
    BY <1>1, <2>1 DEF SeenAt
  <2>3. /\ Without(args, i) \in Seq(Texts) /\ Len(Without(args, i)) = n - 2
        /\ \A j \in 1..(n - 2) : Without(args, i)[j] = args[IF j < i THEN j ELSE j + 2]
    BY <1>1, WithoutIs DEF n
  <2>4. positionals \in Seq(Texts)
    BY <1>1, Kinds, SeqMonotonic
  <2>5. positionals = Without(args, i)
    BY <1>1, <2>2, <2>3, <2>4, SeqEqual
  <2>6. Use = Parted(i)
    BY <2>2, <2>5 DEF Use, Parted
  <2>7. args[i] \notin Plains /\ i \in 1..n /\ i \in Int
    BY <1>1, <2>2, Kinds DEF Pair
  <2>8. ASSUME NEW m \in 1..(n - 1), Pair(args, m),
               \A j \in 1..n \ {m, m + 1} : args[j] \in Plains
        PROVE  m = i
    <3>1. i = m \/ i = m + 1
      BY <2>7, <2>8
    <3>2. args[m] \notin Plains /\ m \in 1..n /\ m \in Int
      BY <1>1, <2>8, Kinds DEF Pair
    <3>3. m = i \/ m = i + 1
      BY <2>2, <3>2
    <3> QED
      BY <2>7, <3>1, <3>2, <3>3
  <2> QED
    BY <1>2, <2>1, <2>2, <2>6, <2>7, <2>8
<1> QED
  BY <1>3, <1>4

(* What is refused has no form.                                            *)
LEMMA RefusedHasNoForm ==
  ASSUME CliType, ParseInv, RefuseDir \/ RefuseOption
  PROVE  Forms = {}
<1> DEFINE n == Len(args)
<1>1. /\ phase = "parse" /\ args \in Seq(Texts) /\ n \in Nat
      /\ index \in Int /\ 1 <= index /\ index <= n
      /\ dirSeen => \E i \in 1..(index - 2) : SeenAt(i)
      /\ ~ dirSeen => NotSeen
  BY ParseFacts DEF RefuseDir, RefuseOption, Reading
<1>2. /\ args[index] \notin Plains
      /\ args[index] = DirFlag => ~ MayGiveDir
  BY Kinds DEF RefuseDir, RefuseOption, Reading
<1> HIDE DEF n
<1>3. \A u : u \in Forms <=>
           \/ u = Whole /\ \A j \in 1..n : args[j] \in Plains
           \/ \E i \in 1..(n - 1) :
                /\ Pair(args, i) /\ u = Parted(i)
                /\ \A j \in 1..n \ {i, i + 1} : args[j] \in Plains
  BY FormsAre DEF n
<1>4. ~ \A j \in 1..n : args[j] \in Plains
  BY <1>1, <1>2
<1>5. ASSUME NEW m \in 1..(n - 1), Pair(args, m),
             \A j \in 1..n \ {m, m + 1} : args[j] \in Plains
      PROVE  FALSE
  <2>1. index = m \/ index = m + 1
    BY <1>1, <1>2, <1>5
  <2>2. args[m] = DirFlag /\ args[m] \notin Plains /\ args[m + 1] # Empty
    BY <1>5, Kinds DEF Pair
  <2>3. CASE ~ dirSeen
    <3>1. \A j \in 1..(index - 1) : args[j] \in Plains
      BY <1>1, <2>3 DEF NotSeen
    <3>2. m = index
      BY <1>1, <2>1, <2>2, <3>1
    <3>3. ~ (index < Len(args) /\ args[index + 1] # Empty)
      BY <1>2, <2>2, <2>3, <3>2 DEF MayGiveDir
    <3> QED
      BY <1>1, <2>2, <3>2, <3>3 DEF n
  <2>4. CASE dirSeen
    <3>1. PICK i \in 1..(index - 2) : SeenAt(i)
      BY <1>1, <2>4
    <3>2. args[i] = DirFlag /\ args[i] \notin Plains
      BY <3>1, Kinds DEF SeenAt, Pair
    <3>3. i \in Int /\ 1 <= i /\ i <= index - 2
      BY <1>1
    <3>4. i \in 1..n \ {m, m + 1} \/ i = m
      BY <1>1, <2>1, <3>3
    <3>5. i = m
      BY <1>5, <3>2, <3>4
    <3> QED
      BY <2>1, <3>3, <3>5
  <2> QED
    BY <2>3, <2>4
<1> QED
  BY <1>3, <1>4, <1>5

-----------------------------------------------------------------------------
(* The steps *)

LEMMA CommandsAre ==
  /\ Commands = {"set", "get", "del", "compact", "stats", "verify"}
  /\ Arity["set"] = 2 /\ Arity["get"] = 1 /\ Arity["del"] = 1
BY DEF Commands, Arity

LEMMA InitCInv == Init => CInv
<1> SUFFICES ASSUME Init PROVE CInv
  OBVIOUS
<1>1. /\ command = "help" /\ phase = "shell" /\ runs = 0 /\ "help" \notin Commands
  BY CommandsAre DEF Init
<1>2. CliType
  BY Kinds, EmptySeq DEF Init, CliType
<1>3. ParseInv
  BY <1>1 DEF ParseInv
<1>4. FormInv
  BY <1>1 DEF FormInv, Ended, Served
<1>5. StoresInv
  BY <1>1 DEF StoresInv, ExitCodeTellsTruth
<1> QED
  BY <1>2, <1>3, <1>4, <1>5 DEF CInv

(* A process starts, and has read nothing yet.                             *)
LEMMA RunStep ==
  ASSUME CInv, NEW c \in Commands \cup {"none", "help", "unknown"},
         NEW a \in Seq(Texts), Run(c, a)
  PROVE  CInv'
<1>1. /\ command' = c /\ args' = a /\ stores' = stores /\ before' = stores
      /\ index' = 1 /\ positionals' = <<>> /\ dir' = DefaultDir /\ dirSeen' = FALSE
      /\ runs' = runs + 1 /\ CliType
  BY DEF Run, CInv
<1>2. c \in Commands => phase' = "parse"
  BY CommandsAre DEF Run, Exit
<1>3. c \notin Commands => phase' = "shell"
  BY CommandsAre DEF Run, Exit
<1>4. CliType'
  <2>1. phase' \in {"shell", "parse", "parsed", "call"} /\ positionals' \in Seq(Plains)
    BY <1>1, <1>2, <1>3, EmptySeq
  <2>2. dir' \in Dirs
    BY <1>1, Kinds
  <2>3. dirSeen' \in BOOLEAN
    BY <1>1
  <2>4. runs' \in Nat
    BY <1>1 DEF CliType
  <2> QED
    BY <1>1, <2>1, <2>2, <2>3, <2>4 DEF CliType
<1>5. ParseInv'
  <2>1. Len(a) \in Nat /\ Len(<<>>) = 0
    BY LenProperties
  <2>2. NotSeen'
    BY <1>1, <2>1 DEF NotSeen
  <2> QED
    BY <1>1, <2>1, <2>2 DEF ParseInv
<1>6. FormInv'
  <2>1. runs' > 0
    BY <1>1 DEF CliType
  <2> QED
    BY <1>1, <1>2, <1>3, <2>1 DEF FormInv, Ended, Served
<1>7. StoresInv'
  BY <1>1, <1>2, <1>3 DEF StoresInv, ExitCodeTellsTruth
<1> QED
  BY <1>4, <1>5, <1>6, <1>7 DEF CInv

(* Another argument is read.                                               *)
LEMMA ReadStep ==
  ASSUME CInv, ReadDir \/ ReadPositional,
         positionals' \in Seq(Plains), dir' \in Dirs, dirSeen' \in BOOLEAN,
         ParseInv'
  PROVE  CInv'
<1>1. /\ phase = "parse" /\ phase' = "parse"
      /\ UNCHANGED <<stores, command, args, outcome, before, runs>>
  BY DEF ReadDir, ReadPositional, Reading, Parsed
<1>2. CliType'
  BY <1>1 DEF CInv, CliType
<1>3. FormInv'
  BY <1>1 DEF CInv, FormInv, Ended, Served
<1>4. StoresInv'
  BY <1>1 DEF CInv, StoresInv, ExitCodeTellsTruth
<1> QED
  BY <1>2, <1>3, <1>4 DEF CInv

LEMMA ReadDirStep ==
  ASSUME CInv, ReadDir
  PROVE  CInv'
<1>1. /\ phase = "parse" /\ index <= Len(args) /\ args[index] = DirFlag
      /\ ~ dirSeen /\ index < Len(args) /\ args[index + 1] # Empty
      /\ dir' = args[index + 1] /\ dirSeen' = TRUE /\ index' = index + 2
      /\ positionals' = positionals /\ args' = args
  BY DEF ReadDir, Reading, MayGiveDir, Parsed
<1>2. /\ Len(args) \in Nat /\ \A j \in 1..Len(args) : args[j] \in Texts
      /\ index \in Int /\ 1 <= index /\ positionals \in Seq(Plains) /\ NotSeen
  BY <1>1, ParseFacts DEF CInv
<1>3. dir' \in Dirs
  <2>1. args[index + 1] \in Texts
    BY <1>1, <1>2
  <2> QED
    BY <1>1, <2>1, Kinds
<1>4. ASSUME NEW i \in Int, i = index
      PROVE  SeenAt(i)'
  <2>1. /\ Len(positionals) = i - 1
        /\ \A j \in 1..(i - 1) : positionals[j] = args[j] /\ args[j] \in Plains
    BY <1>2, <1>4 DEF NotSeen
  <2>2. /\ index' - 3 = i - 1 /\ 1..(index' - 1) \ {i, i + 1} = 1..(i - 1)
        /\ \A j \in 1..(i - 1) : j < i
    BY <1>1, <1>2, <1>4
  <2>3. Pair(args', i) /\ dir' = args'[i + 1]
    BY <1>1, <1>4 DEF Pair
  <2>4. \A j \in 1..(i - 1) : positionals'[j] = args'[IF j < i THEN j ELSE j + 2]
    BY <1>1, <2>1, <2>2
  <2> QED
    BY <1>1, <2>1, <2>2, <2>3, <2>4 DEF SeenAt
<1>5. ParseInv'
  <2>1. index' \in 1..(Len(args') + 1) /\ index \in 1..(index' - 2)
    BY <1>1, <1>2
  <2>2. \E i \in 1..(index' - 2) : SeenAt(i)'
    BY <1>2, <1>4, <2>1
  <2> QED
    BY <1>1, <2>1, <2>2 DEF ParseInv
<1> QED
  BY <1>1, <1>2, <1>3, <1>5, ReadStep

LEMMA ReadPositionalStep ==
  ASSUME CInv, ReadPositional
  PROVE  CInv'
<1>1. PICK t \in Plains : Reading(t) /\ positionals' = Append(positionals, t)
  BY DEF ReadPositional
<1>2. /\ phase = "parse" /\ phase' = "parse" /\ index <= Len(args) /\ args[index] = t
      /\ positionals' = Append(positionals, t)
      /\ index' = index + 1 /\ dir' = dir /\ dirSeen' = dirSeen /\ args' = args
  BY <1>1 DEF ReadPositional, Reading, Parsed
<1>3. /\ Len(args) \in Nat /\ index \in Int /\ 1 <= index
      /\ positionals \in Seq(Plains)
      /\ dirSeen => \E i \in 1..(index - 2) : SeenAt(i)
      /\ ~ dirSeen => NotSeen
      /\ dir \in Dirs /\ dirSeen \in BOOLEAN
  BY <1>2, ParseFacts DEF CInv, CliType
<1>4. /\ positionals' \in Seq(Plains)
      /\ Len(positionals') = Len(positionals) + 1
      /\ \A j \in 1..Len(positionals) : positionals'[j] = positionals[j]
      /\ positionals'[Len(positionals) + 1] = t
  BY <1>2, <1>3, AppendProperties
<1>5. CASE ~ dirSeen
  <2>1. /\ dir = DefaultDir /\ Len(positionals) = index - 1
        /\ \A j \in 1..(index - 1) : positionals[j] = args[j] /\ args[j] \in Plains
    BY <1>3, <1>5 DEF NotSeen
  <2>2. Len(positionals') = index' - 1
    BY <1>2, <1>3, <1>4, <2>1
  <2>3. ASSUME NEW j \in 1..(index' - 1)
        PROVE  positionals'[j] = args'[j] /\ args'[j] \in Plains
    <3>1. CASE j \in 1..(index - 1)
      BY <1>2, <1>4, <2>1, <3>1
    <3>2. CASE j = index
      BY <1>2, <1>3, <1>4, <2>1, <3>2
    <3>3. j \in 1..(index - 1) \/ j = index
      BY <1>2, <1>3
    <3> QED
      BY <3>1, <3>2, <3>3
  <2>4. NotSeen'
    BY <1>2, <2>1, <2>2, <2>3 DEF NotSeen
  <2>5. ParseInv'
    BY <1>2, <1>3, <1>5, <2>4 DEF ParseInv
  <2> QED
    BY <1>2, <1>3, <1>4, <2>5, ReadStep
<1>6. CASE dirSeen
  <2>1. PICK i \in 1..(index - 2) : SeenAt(i)
    BY <1>3, <1>6
  <2>2. /\ Pair(args, i) /\ dir = args[i + 1]
        /\ Len(positionals) = index - 3
        /\ \A j \in 1..(index - 3) : positionals[j] = args[IF j < i THEN j ELSE j + 2]
        /\ \A j \in 1..(index - 1) \ {i, i + 1} : args[j] \in Plains
    BY <2>1 DEF SeenAt
  <2>3. Pair(args', i) /\ dir' = args'[i + 1] /\ Len(positionals') = index' - 3
    BY <1>2, <1>3, <1>4, <2>2 DEF Pair
  <2>4. ASSUME NEW j \in 1..(index' - 3)
        PROVE  positionals'[j] = args'[IF j < i THEN j ELSE j + 2]
    <3>1. CASE j \in 1..(index - 3)
      BY <1>2, <1>4, <2>2, <3>1
    <3>2. CASE j = index - 2
      <4>1. ~ (j < i) /\ j + 2 = index /\ j = Len(positionals) + 1
        BY <1>3, <2>1, <2>2, <3>2
      <4> QED
        BY <1>2, <1>4, <4>1
    <3>3. j \in 1..(index - 3) \/ j = index - 2
      BY <1>2, <1>3
    <3> QED
      BY <3>1, <3>2, <3>3
  <2>5. ASSUME NEW j \in 1..(index' - 1) \ {i, i + 1}
        PROVE  args'[j] \in Plains
    <3>1. j \in 1..(index - 1) \ {i, i + 1} \/ j = index
      BY <1>2, <1>3
    <3> QED
      BY <1>2, <2>2, <3>1
  <2>6. SeenAt(i)'
    BY <2>3, <2>4, <2>5 DEF SeenAt
  <2>7. index' \in 1..(Len(args') + 1) /\ i \in 1..(index' - 2)
    BY <1>2, <1>3, <2>1
  <2>8. ParseInv'
    BY <1>2, <1>6, <2>6, <2>7 DEF ParseInv
  <2> QED
    BY <1>2, <1>3, <1>4, <2>8, ReadStep
<1> QED
  BY <1>5, <1>6

(* The parser gives up, or the count is found wrong.                       *)
LEMMA UsageStep ==
  ASSUME CInv, phase \in {"parse", "parsed"}, Exit("usage"), Usages = {},
         UNCHANGED <<stores, command, args, parser, before, runs>>
  PROVE  CInv'
<1>1. /\ phase' = "shell" /\ outcome' = "usage" /\ stores = before
      /\ stores' = stores /\ before' = before /\ command' = command
      /\ args' = args /\ runs' = runs /\ positionals' = positionals
      /\ dir' = dir /\ dirSeen' = dirSeen
  BY DEF CInv, StoresInv, Exit, parser
<1>2. Usages' = {}
  BY <1>1 DEF Usages
<1>3. CliType'
  BY <1>1 DEF CInv, CliType
<1>4. ParseInv'
  BY <1>1 DEF ParseInv
<1>5. runs > 0
  BY DEF CInv, FormInv
<1>6. FormInv'
  BY <1>1, <1>2, <1>5 DEF FormInv, Served, Ended
<1>7. StoresInv'
  BY <1>1 DEF StoresInv, ExitCodeTellsTruth
<1> QED
  BY <1>3, <1>4, <1>6, <1>7 DEF CInv

LEMMA ParseEndsStep ==
  ASSUME CInv, ParseEnds
  PROVE  CInv'
<1>1. /\ phase = "parse" /\ phase' = "parsed" /\ outcome' = outcome
      /\ stores' = stores /\ before' = before /\ command' = command
      /\ args' = args /\ runs' = runs /\ positionals' = positionals
      /\ dir' = dir /\ dirSeen' = dirSeen
  BY DEF ParseEnds, parser
<1>2. Forms = {Use}
  BY EndFindsForm DEF CInv
<1>3. Forms' = {Use'}
  <2>1. Forms' = Forms /\ Use' = Use
    BY <1>1 DEF Forms, Candidates, Whole, Parted, Pair, Without, Use
  <2> QED
    BY <1>2, <2>1
<1>4. CliType'
  BY <1>1 DEF CInv, CliType
<1>5. ParseInv'
  BY <1>1 DEF ParseInv
<1>6. FormInv'
  BY <1>1, <1>3 DEF CInv, FormInv, Served, Ended
<1>7. StoresInv'
  BY <1>1 DEF CInv, StoresInv, ExitCodeTellsTruth
<1> QED
  BY <1>4, <1>5, <1>6, <1>7 DEF CInv

(* The stores when the one that is named has been opened.                  *)
OpenedBefore == [before EXCEPT ![dir] = IF @ = NoStore THEN NothingStored ELSE @]

LEMMA OpenedIs ==
  ASSUME CliType
  PROVE  /\ OpenedBefore \in [Dirs -> Maps \cup {NoStore}]
         /\ OpenedBefore[dir] \in Maps
         /\ OpenedBefore[dir] \in {before[dir], NothingStored}
         /\ \A d \in Dirs \ {dir} : OpenedBefore[d] = before[d]
<1>1. NothingStored \in Maps
  BY DEF NothingStored, Maps
<1>2. before \in [Dirs -> Maps \cup {NoStore}] /\ dir \in Dirs
  BY DEF CliType
<1> QED
  BY <1>1, <1>2 DEF OpenedBefore

(* What the call is to do to them.                                         *)
LEMMA EffectIs ==
  /\ command = "set" =>
       Effect(Use) = [OpenedBefore EXCEPT ![dir][positionals[1]] = positionals[2]]
  /\ command = "del" =>
       Effect(Use) = [OpenedBefore EXCEPT ![dir][positionals[1]] = Absent]
  /\ command \notin {"set", "del"} => Effect(Use) = OpenedBefore
<1>1. Use.dir = dir /\ Use.pos = positionals
  BY DEF Use
<1>2. command = "set" =>
       Effect(Use) = [OpenedBefore EXCEPT ![dir][positionals[1]] = positionals[2]]
  BY <1>1 DEF Effect, OpenedBefore
<1>3. command = "del" =>
       Effect(Use) = [OpenedBefore EXCEPT ![dir][positionals[1]] = Absent]
  BY <1>1 DEF Effect, OpenedBefore
<1>4. command \notin {"set", "del"} => Effect(Use) = OpenedBefore
  BY <1>1 DEF Effect, OpenedBefore
<1> QED
  BY <1>2, <1>3, <1>4

(* One store is written, at one key.                                       *)
LEMMA WrittenIs ==
  ASSUME CliType, NEW k \in Plains, NEW v \in Plains \cup {Absent},
         NEW S, S = [OpenedBefore EXCEPT ![dir][k] = v]
  PROVE  /\ S \in [Dirs -> Maps \cup {NoStore}]
         /\ \A d \in Dirs \ {dir} : S[d] = before[d]
<1>1. /\ OpenedBefore \in [Dirs -> Maps \cup {NoStore}]
      /\ OpenedBefore[dir] \in Maps /\ dir \in Dirs
      /\ \A d \in Dirs \ {dir} : OpenedBefore[d] = before[d]
  BY OpenedIs DEF CliType
<1>2. [OpenedBefore[dir] EXCEPT ![k] = v] \in Maps
  BY <1>1 DEF Maps
<1>3. S = [OpenedBefore EXCEPT ![dir] = [OpenedBefore[dir] EXCEPT ![k] = v]]
  OBVIOUS
<1> HIDE DEF Maps, OpenedBefore
<1> QED
  BY <1>1, <1>2, <1>3

(* The process ends after the store was opened, or failed to.              *)
LEMMA EndStep ==
  ASSUME CInv, phase \in {"parsed", "call"}, Process,
         Len(positionals) = Arity[command],
         phase' = "shell", outcome' \in {"done", "not found", "failed"},
         stores' \in [Dirs -> Maps \cup {NoStore}],
         outcome' = "done" =>
           stores' = Effect(Use) /\ (command = "get" => Held(Use) # Absent),
         outcome' = "not found" =>
           stores' = Effect(Use) /\ command = "get" /\ Held(Use) = Absent,
         outcome' = "failed" =>
           /\ \A d \in Dirs \ {dir} : stores'[d] = before[d]
           /\ stores'[dir] \in {before[dir], NothingStored, Effect(Use)[dir]}
  PROVE  CInv'
<1>1. /\ before' = before /\ command' = command /\ args' = args /\ runs' = runs
      /\ positionals' = positionals /\ dir' = dir /\ dirSeen' = dirSeen
  BY DEF Process, parser
<1>2. Forms = {Use} /\ runs > 0 /\ command \in Commands
  BY DEF CInv, FormInv, Served
<1>3. Forms' = {Use'}
  <2>1. Forms' = Forms /\ Use' = Use
    BY <1>1 DEF Forms, Candidates, Whole, Parted, Pair, Without, Use
  <2> QED
    BY <1>2, <2>1
<1>4. CliType'
  BY <1>1 DEF CInv, CliType
<1>5. ParseInv'
  BY DEF ParseInv
<1>6. FormInv'
  BY <1>1, <1>2, <1>3 DEF FormInv, Served, Ended
<1>7. ExitCodeTellsTruth'
  <2> PICK u : u = Use
    OBVIOUS
  <2>1. u.dir = dir /\ u.pos = positionals /\ u \in Forms
    BY <1>2 DEF Use
  <2>2. u \in Usages
    BY <2>1, UsagesAre
  <2>3. u \in Usages' /\ Effect(u)' = Effect(u) /\ Held(u)' = Held(u)
    BY <1>1, <2>2 DEF Usages, Effect, Held, Pair, Without
  <2>4. /\ outcome' = "done" =>
             stores' = Effect(u)' /\ (command' = "get" => Held(u)' # Absent)
        /\ outcome' = "not found" =>
             stores' = Effect(u)' /\ command' = "get" /\ Held(u)' = Absent
    BY <1>1, <2>3
  <2>5. outcome' = "failed" =>
           /\ \A d \in Dirs \ {u.dir} : stores'[d] = before'[d]
           /\ stores'[u.dir] \in {before'[u.dir], NothingStored, Effect(u)'[u.dir]}
    BY <1>1, <2>1, <2>3
  <2>6. outcome' \in {"done", "not found", "failed"}
    OBVIOUS
  <2> QED
    BY <2>3, <2>4, <2>5, <2>6 DEF ExitCodeTellsTruth
<1>8. StoresInv'
  BY <1>7 DEF StoresInv
<1> QED
  BY <1>4, <1>5, <1>6, <1>8 DEF CInv

LEMMA RefuseCountStep ==
  ASSUME CInv, RefuseCount
  PROVE  CInv'
<1>1. Forms = {Use} /\ Len(Use.pos) # Arity[command]
  BY DEF CInv, FormInv, RefuseCount, Use
<1>2. Usages = {}
  BY <1>1, UsagesAre
<1> QED
  BY <1>2, UsageStep DEF RefuseCount, Process

LEMMA OpenStoreStep ==
  ASSUME CInv, OpenStore
  PROVE  CInv'
<1>1. /\ phase = "parsed" /\ phase' = "call" /\ Len(positionals) = Arity[command]
      /\ stores' = Opened /\ stores = before /\ before' = before /\ command' = command
      /\ args' = args /\ runs' = runs /\ positionals' = positionals
      /\ dir' = dir /\ dirSeen' = dirSeen
  BY DEF OpenStore, Process, parser, CInv, StoresInv
<1>2. Forms = {Use}
  BY <1>1 DEF CInv, FormInv
<1>3. Forms' = {Use'}
  <2>1. Forms' = Forms /\ Use' = Use
    BY <1>1 DEF Forms, Candidates, Whole, Parted, Pair, Without, Use
  <2> QED
    BY <1>2, <2>1
<1>4. stores' = OpenedBefore
  BY <1>1 DEF Opened, OpenedBefore
<1>5. CliType'
  <2>1. stores' \in [Dirs -> Maps \cup {NoStore}]
    BY <1>4, OpenedIs DEF CInv
  <2> QED
    BY <1>1, <2>1 DEF CInv, CliType
<1>6. ParseInv'
  BY <1>1 DEF ParseInv
<1>7. FormInv'
  BY <1>1, <1>3 DEF CInv, FormInv, Served, Ended
<1>8. StoresInv'
  <2>1. stores' = [before' EXCEPT ![dir'] = IF @ = NoStore THEN NothingStored ELSE @]
    BY <1>1, <1>4 DEF OpenedBefore
  <2> QED
    BY <1>1, <2>1 DEF StoresInv, ExitCodeTellsTruth
<1> QED
  BY <1>5, <1>6, <1>7, <1>8 DEF CInv

LEMMA OpenFailsStep ==
  ASSUME CInv, OpenFails
  PROVE  CInv'
<1>1. /\ phase = "parsed" /\ Process /\ Len(positionals) = Arity[command]
      /\ phase' = "shell" /\ outcome' = "failed" /\ stores' \in {stores, Opened}
  BY DEF OpenFails, Exit
<1>2. stores = before /\ CliType
  BY <1>1 DEF CInv, StoresInv
<1>3. stores' \in {before, OpenedBefore}
  BY <1>1, <1>2 DEF Opened, OpenedBefore
<1>4. before \in [Dirs -> Maps \cup {NoStore}]
  BY <1>2 DEF CliType
<1>5. /\ stores' \in [Dirs -> Maps \cup {NoStore}]
      /\ \A d \in Dirs \ {dir} : stores'[d] = before[d]
      /\ stores'[dir] \in {before[dir], NothingStored}
  BY <1>2, <1>3, <1>4, OpenedIs
<1> QED
  BY <1>1, <1>5, EndStep

(* What set and del would write are texts.                                 *)
LEMMA CallFacts ==
  ASSUME CInv, phase = "call"
  PROVE  /\ CliType /\ stores = OpenedBefore /\ Len(positionals) = Arity[command]
         /\ command = "set" => positionals[1] \in Plains /\ positionals[2] \in Plains
         /\ command \in {"get", "del"} => positionals[1] \in Plains
<1>1. /\ CliType /\ stores = OpenedBefore /\ Len(positionals) = Arity[command]
      /\ positionals \in Seq(Plains)
  BY DEF CInv, StoresInv, OpenedBefore, FormInv, Served, CliType
<1>2. \A j \in 1..Len(positionals) : positionals[j] \in Plains
  BY <1>1, ElementOfSeq
<1> QED
  BY <1>1, <1>2, CommandsAre

LEMMA CallStep ==
  ASSUME CInv, Set \/ Get \/ Delete \/ Compact \/ Stats \/ Verify \/ CallFails
  PROVE  CInv'
<1>1. phase = "call" /\ Process /\ phase' = "shell"
  BY DEF Set, Get, Delete, Compact, Stats, Verify, CallFails, Calls, Exit
<1>2. /\ CliType /\ stores = OpenedBefore /\ Len(positionals) = Arity[command]
      /\ command = "set" => positionals[1] \in Plains /\ positionals[2] \in Plains
      /\ command = "del" => positionals[1] \in Plains
  BY <1>1, CallFacts
<1>3. /\ OpenedBefore \in [Dirs -> Maps \cup {NoStore}]
      /\ \A d \in Dirs \ {dir} : OpenedBefore[d] = before[d]
      /\ OpenedBefore[dir] \in {before[dir], NothingStored}
  BY <1>2, OpenedIs
<1> DEFINE Written(v) == stores' = [OpenedBefore EXCEPT ![dir][positionals[1]] = v]
<1>4. ASSUME \/ command = "set" /\ Written(positionals[2])
             \/ command = "del" /\ Written(Absent)
      PROVE  /\ stores' = Effect(Use) /\ stores' \in [Dirs -> Maps \cup {NoStore}]
             /\ \A d \in Dirs \ {dir} : stores'[d] = before[d]
  <2>1. stores' = Effect(Use)
    BY <1>4, EffectIs
  <2>2. \E k \in Plains, v \in Plains \cup {Absent} :
           stores' = [OpenedBefore EXCEPT ![dir][k] = v]
    BY <1>2, <1>4
  <2> QED
    BY <1>2, <2>1, <2>2, WrittenIs
<1>5. CASE Set \/ Delete
  <2>1. outcome' = "done" /\ command # "get"
    BY <1>5 DEF Set, Delete, Calls, Exit
  <2>2. \/ command = "set" /\ Written(positionals[2])
        \/ command = "del" /\ Written(Absent)
    BY <1>2, <1>5 DEF Set, Delete, Calls
  <2> QED
    BY <1>1, <1>2, <1>4, <2>1, <2>2, EndStep
<1>6. CASE Compact \/ Stats \/ Verify
  <2>1. stores' = OpenedBefore /\ outcome' = "done" /\ command # "get"
    BY <1>2, <1>6 DEF Compact, Stats, Verify, Calls, Exit
  <2>2. Effect(Use) = OpenedBefore
    BY <1>6, EffectIs DEF Compact, Stats, Verify, Calls
  <2> QED
    BY <1>1, <1>2, <1>3, <2>1, <2>2, EndStep
<1>7. CASE Get
  <2>1. stores' = OpenedBefore /\ command = "get"
        /\ outcome' = IF OpenedBefore[dir][positionals[1]] = Absent THEN "not found" ELSE "done"
    BY <1>2, <1>7 DEF Get, Calls, Exit
  <2>2. Effect(Use) = OpenedBefore
    BY <2>1, EffectIs
  <2>3. Held(Use) = OpenedBefore[dir][positionals[1]]
    BY <2>2 DEF Held, Use
  <2> QED
    BY <1>1, <1>2, <1>3, <2>1, <2>2, <2>3, EndStep
<1>8. CASE CallFails
  <2>1. outcome' = "failed"
    BY <1>8 DEF CallFails, Exit
  <2>2. \/ stores' = OpenedBefore
        \/ command = "set" /\ Written(positionals[2])
        \/ command = "del" /\ Written(Absent)
    BY <1>2, <1>8 DEF CallFails
  <2>3. CASE stores' = OpenedBefore
    BY <1>1, <1>2, <1>3, <2>1, <2>3, EndStep
  <2>4. CASE \/ command = "set" /\ Written(positionals[2])
             \/ command = "del" /\ Written(Absent)
    BY <1>1, <1>2, <1>4, <2>1, <2>4, EndStep
  <2> QED
    BY <2>2, <2>3, <2>4
<1> QED
  BY <1>5, <1>6, <1>7, <1>8

LEMMA StutterStep ==
  ASSUME CInv, UNCHANGED vars
  PROVE  CInv'
<1>1. /\ stores' = stores /\ before' = before /\ command' = command
      /\ args' = args /\ runs' = runs /\ positionals' = positionals
      /\ index' = index /\ dir' = dir /\ dirSeen' = dirSeen
      /\ phase' = phase /\ outcome' = outcome
  BY DEF vars, parser
<1>2. CliType'
  BY <1>1 DEF CInv, CliType
<1>3. ParseInv'
  <2>1. \A i : SeenAt(i)' <=> SeenAt(i)
    BY <1>1 DEF SeenAt, Pair
  <2>2. NotSeen' <=> NotSeen
    BY <1>1 DEF NotSeen
  <2> QED
    BY <1>1, <2>1, <2>2 DEF CInv, ParseInv
<1>4. Usages' = Usages
  BY <1>1 DEF Usages, Pair, Without
<1>5. FormInv'
  <2>1. Forms' = Forms /\ Use' = Use /\ (Served' <=> Served) /\ (Ended' <=> Ended)
    BY <1>1 DEF Forms, Candidates, Whole, Parted, Pair, Without, Use, Served, Ended
  <2> QED
    BY <1>1, <1>4, <2>1 DEF CInv, FormInv
<1>6. StoresInv'
  <2>1. \A u : Effect(u)' = Effect(u) /\ Held(u)' = Held(u)
    BY <1>1 DEF Effect, Held
  <2>2. ExitCodeTellsTruth'
    BY <1>1, <1>4, <2>1 DEF CInv, StoresInv, ExitCodeTellsTruth
  <2> QED
    BY <1>1, <2>2 DEF CInv, StoresInv
<1> QED
  BY <1>2, <1>3, <1>5, <1>6 DEF CInv

LEMMA StepCInv == CInv /\ [Next]_vars => CInv'
<1> SUFFICES ASSUME CInv, [Next]_vars PROVE CInv'
  OBVIOUS
<1>1. ASSUME NEW c \in Commands, NEW a \in BoundedSeq(Texts, MaxArgs), Run(c, a)
      PROVE  CInv'
  <2>1. a \in Seq(Texts)
    BY TextsAssumption, SeqDef DEF BoundedSeq, SeqOf
  <2> QED
    BY <1>1, <2>1, RunStep
<1>2. ASSUME NEW c \in {"none", "help", "unknown"}, Run(c, <<>>)
      PROVE  CInv'
  BY <1>2, RunStep, EmptySeq
<1>3. CASE ReadDir \/ ReadPositional
  BY <1>3, ReadDirStep, ReadPositionalStep
<1>4. CASE RefuseDir \/ RefuseOption
  <2>1. phase = "parse" /\ Refused
    BY <1>4 DEF RefuseDir, RefuseOption, Reading
  <2>2. Usages = {}
    BY <1>4, RefusedHasNoForm, UsagesAre DEF CInv
  <2> QED
    BY <2>1, <2>2, UsageStep DEF Refused
<1>5. CASE ParseEnds \/ RefuseCount
  BY <1>5, ParseEndsStep, RefuseCountStep
<1>6. CASE OpenStore \/ OpenFails
  BY <1>6, OpenStoreStep, OpenFailsStep
<1>7. CASE Set \/ Get \/ Delete \/ Compact \/ Stats \/ Verify \/ CallFails
  BY <1>7, CallStep
<1>8. CASE UNCHANGED vars
  BY <1>8, StutterStep
<1> QED
  BY <1>1, <1>2, <1>3, <1>4, <1>5, <1>6, <1>7, <1>8 DEF Next

-----------------------------------------------------------------------------
(* run and parse_args_with_dir: a process is served if and only if its     *)
(* arguments have the form of the usage text, and in the only way they do. *)
THEOREM CommandsAreServed == Spec => []ServedAsUsageSays
<1>1. CInv => ServedAsUsageSays
  <2> SUFFICES ASSUME CInv, command \in Commands PROVE ServedAsUsageSays
    BY DEF ServedAsUsageSays
  <2>1. ASSUME phase = "call"
        PROVE  Usages = {Use}
    <3>1. Forms = {Use} /\ Len(Use.pos) = Arity[command]
      BY <2>1 DEF CInv, FormInv, Served, Use
    <3> QED
      BY <3>1, UsagesAre
  <2>2. phase = "shell" /\ outcome = "usage" => Usages = {}
    BY DEF CInv, FormInv, Ended
  <2> QED
    BY <2>1, <2>2 DEF ServedAsUsageSays, Use
<1> QED
  BY <1>1, InitCInv, StepCInv, PTL DEF Spec

(* run: the exit code says whether the whole effect of the command is in   *)
(* the store it names, and no other store is touched.                      *)
THEOREM ExitCodesAreTrue == Spec => []ExitCodeTellsTruth
<1>1. CInv => ExitCodeTellsTruth
  BY DEF CInv, StoresInv
<1> QED
  BY <1>1, InitCInv, StepCInv, PTL DEF Spec

=============================================================================
