--------------------------- MODULE StartupProofs ---------------------------
(***************************************************************************)
(* Proofs about Startup, for every argument list and every set of property *)
(* files.                                                                  *)
(***************************************************************************)
EXTENDS Startup, SequenceTheorems, TLAPS

(***************************************************************************)
(* What is known of the arguments that were parsed: they are pairs of an   *)
(* option and its value, and a file is being read only as the value of -P. *)
(***************************************************************************)
GoodPair(i) ==
  /\ Option(args[2 * i - 1]) \in Options
  /\ Option(args[2 * i - 1]) = "-P" => args[2 * i] \in DOMAIN Files

Parsed ==
  /\ args \in Seq(Seq(STRING))
  /\ \E m \in Nat : argindex = 2 * m + 1 /\ argindex <= Len(args) + 1
                    /\ \A i \in 1..m : GoodPair(i)
  /\ pc = "file" => /\ HasValue /\ Option(args[argindex]) = "-P" /\ Value \in DOMAIN Files
                    /\ how = "running"
  /\ pc \notin {"parse", "file"} => argindex = Len(args) + 1 /\ argindex # 1

\* A process that ended while parsing had a reason to.
Refused ==
  how # "running" /\ pc = "parse" =>
    ~WellFormed(args) /\ how = (IF MissesFile(args) THEN "terminate" ELSE "exit")

(***************************************************************************)
(* The arguments are good throughout when every pair of them is.           *)
(***************************************************************************)
LEMMA WellFormedPairs ==
  ASSUME args \in Seq(Seq(STRING))
  PROVE  WellFormed(args) <=>
           /\ args # << >> /\ Len(args) % 2 = 0
           /\ \A i \in 1..(Len(args) \div 2) : GoodPair(i)
  BY DEF WellFormed, Good, Pairs, GoodPair

(***************************************************************************)
(* An argument that does not begin with "-" is no option.                  *)
(***************************************************************************)
LEMMA OptionsAreDashed ==
  ASSUME NEW text \in Seq(STRING), Option(text) \in Options
  PROVE  Dashed(text)
  <1>1. Blank \notin Options
    <2>1. Options = {"-threads", "-db", "-host", "-port", "-slaves", "-dbpath", "-load", "-run",
                     "-dboption", "-dbstatistics", "-dbwaitforbalance", "-P"}
      BY DEF Options, SetOptions, Setters
    <2> QED BY <2>1, Zenon DEF Blank
  <1>2. Len(text) = 1 /\ text[1] \in Options
    BY <1>1 DEF Option
  <1> QED BY <1>2 DEF Dashed

(***************************************************************************)
(* A bad pair where the parser stands makes the command line bad, and so   *)
(* does an option in the last place.                                       *)
(***************************************************************************)
LEMMA BadPlace ==
  ASSUME Parsed, argindex <= Len(args),
         \/ Option(args[argindex]) \notin Options
         \/ ~HasValue
         \/ Option(args[argindex]) = "-P" /\ Value \notin DOMAIN Files
  PROVE  ~WellFormed(args)
  <1>1. PICK m \in Nat : argindex = 2 * m + 1
    BY DEF Parsed
  <1>2. Len(args) \in Nat /\ args \in Seq(Seq(STRING))
    BY DEF Parsed
  <1>3. SUFFICES ASSUME Len(args) % 2 = 0, \A i \in 1..(Len(args) \div 2) : GoodPair(i)
                 PROVE  FALSE
    BY <1>2, WellFormedPairs
  <1>4. m + 1 \in 1..(Len(args) \div 2) /\ argindex + 1 <= Len(args)
    BY <1>1, <1>2, <1>3
  <1>5. GoodPair(m + 1)
    BY <1>3, <1>4
  <1>6. 2 * (m + 1) - 1 = argindex /\ 2 * (m + 1) = argindex + 1
    BY <1>1
  <1> QED BY <1>4, <1>5, <1>6 DEF GoodPair, HasValue, Value

(***************************************************************************)
(* The missing file that is wrong first is where the parser stands, or     *)
(* after a good pair there.                                                *)
(***************************************************************************)
LEMMA MissingPlace ==
  ASSUME Parsed, MissesFile(args)
  PROVE  argindex <= Len(args) /\ HasValue /\ Option(args[argindex]) \in Options
  <1>1. PICK m \in Nat : argindex = 2 * m + 1 /\ \A i \in 1..m : GoodPair(i)
    BY DEF Parsed
  <1>2. Len(args) \in Nat /\ args \in Seq(Seq(STRING))
    BY DEF Parsed
  <1>3. PICK i \in 1..(Len(args) \div 2) :
          /\ Option(args[2 * i - 1]) = "-P" /\ args[2 * i] \notin DOMAIN Files
          /\ \A j \in 1..(i - 1) : GoodPair(j)
    <2>1. Len(args) \div 2 \in Nat /\ DOMAIN Pairs(args) = 1..(Len(args) \div 2)
      BY <1>2 DEF Pairs
    <2>2. \A n \in 1..(Len(args) \div 2) :
            Pairs(args)[n][1] = Option(args[2 * n - 1]) /\ Pairs(args)[n][2] = args[2 * n]
      BY DEF Pairs
    <2>3. PICK n \in 1..(Len(args) \div 2) :
            /\ Pairs(args)[n][1] = "-P" /\ Pairs(args)[n][2] \notin DOMAIN Files
            /\ \A j \in 1..(n - 1) : Good(Pairs(args)[j])
      BY <2>1 DEF MissesFile
    <2>4. ASSUME NEW j \in 1..(n - 1) PROVE GoodPair(j)
      <3>1. j \in 1..(Len(args) \div 2) /\ Good(Pairs(args)[j])
        BY <2>1, <2>3
      <3> QED BY <2>2, <3>1 DEF Good, GoodPair
    <2> QED BY <2>2, <2>3, <2>4
  <1>4. i \notin 1..m
    BY <1>1, <1>3 DEF GoodPair
  <1>5. 2 * m + 2 <= Len(args) /\ 2 * (m + 1) - 1 = argindex
    BY <1>1, <1>2, <1>3, <1>4
  <1>6. Option(args[argindex]) \in Options
    <2>1. CASE i = m + 1
      BY <1>3, <1>5, <2>1 DEF Options
    <2>2. CASE i # m + 1
      <3>1. m + 1 \in 1..(i - 1)
        BY <1>4, <2>2
      <3> QED BY <1>3, <1>5, <3>1 DEF GoodPair
    <2> QED BY <2>1, <2>2
  <1> QED BY <1>1, <1>5, <1>6 DEF HasValue

(***************************************************************************)
(* The parser's steps.                                                     *)
(***************************************************************************)
LEMMA ParsedStep ==
  ASSUME Parsed, Refused, [Next]_vars
  PROVE  Parsed' /\ Refused'
  <1>0. argindex \in Nat /\ Len(args) \in Nat
    BY DEF Parsed
  <1>1. ASSUME NEW m \in Nat, argindex = 2 * m + 1, \A i \in 1..m : GoodPair(i),
               HasValue, Option(args[argindex]) \in Options,
               Option(args[argindex]) = "-P" => Value \in DOMAIN Files,
               args' = args, argindex' = argindex + 2, pc' = "parse", how' = "running"
        PROVE  Parsed' /\ Refused'
    <2>1. m + 1 \in Nat /\ argindex' = 2 * (m + 1) + 1 /\ argindex' <= Len(args) + 1
      BY <1>0, <1>1 DEF HasValue
    <2>2. ASSUME NEW i \in 1..(m + 1) PROVE GoodPair(i)'
      <3>1. CASE i \in 1..m
        BY <1>1, <3>1 DEF GoodPair
      <3>2. CASE i = m + 1
        <4>1. 2 * i - 1 = argindex /\ 2 * i = argindex + 1
          BY <1>1, <3>2
        <4> QED BY <1>1, <4>1 DEF GoodPair, Value
      <3> QED BY <3>1, <3>2
    <2>3. \E n \in Nat : argindex' = 2 * n + 1 /\ argindex' <= Len(args') + 1
                         /\ \A i \in 1..n : GoodPair(i)'
      BY <1>1, <2>1, <2>2
    <2> QED BY <1>1, <2>3 DEF Parsed, Refused
  <1>2. PICK m \in Nat : argindex = 2 * m + 1 /\ argindex <= Len(args) + 1
                         /\ \A i \in 1..m : GoodPair(i)
    BY DEF Parsed
  <1>3. CASE SetOption
    <2>1. Option(args[argindex]) \in Options /\ Option(args[argindex]) # "-P"
      BY <1>3 DEF SetOption, Options, SetOptions, Setters
    <2>2. HasValue /\ args' = args /\ argindex' = argindex + 2 /\ pc' = "parse" /\ how' = "running"
      BY <1>3 DEF SetOption, AtOption, At
    <2> QED BY <1>1, <1>2, <2>1, <2>2
  <1>4. CASE EndFile
    <2>1. HasValue /\ Option(args[argindex]) = "-P" /\ Value \in DOMAIN Files /\ "-P" \in Options
      BY <1>4 DEF EndFile, At, Parsed, Options
    <2>2. args' = args /\ argindex' = argindex + 2 /\ pc' = "parse" /\ how' = "running"
      BY <1>4 DEF EndFile, At
    <2> QED BY <1>1, <1>2, <2>1, <2>2
  <1>5. CASE OpenFile
    BY <1>5 DEF OpenFile, AtOption, At, Parsed, Refused, GoodPair, HasValue, Value
  <1>6. CASE LoadLine
    BY <1>6 DEF LoadLine, At, Parsed, Refused, GoodPair, HasValue, Value
  <1>7. ASSUME At("parse"), ~WellFormed(args), NEW way, Leave(way),
               way = IF MissesFile(args) THEN "terminate" ELSE "exit"
        PROVE  Parsed' /\ Refused'
    <2>1. UNCHANGED <<args, argindex, pc>> /\ pc = "parse" /\ how' = way
      BY <1>7 DEF Leave, At
    <2>2. UNCHANGED WellFormed(args) /\ UNCHANGED MissesFile(args)
      BY <2>1 DEF WellFormed, MissesFile, Good, Pairs
    <2>3. Refused'
      BY <1>7, <2>1, <2>2 DEF Refused
    <2> QED BY <2>1, <2>3 DEF Parsed, GoodPair, HasValue, Value
  <1>8. CASE NoValue \/ UnknownOption
    <2>1. At("parse") /\ argindex <= Len(args) /\ Leave("exit")
      BY <1>8 DEF NoValue, UnknownOption, AtOption
    <2>2. ~WellFormed(args)
      BY <1>8, <2>1, BadPlace DEF NoValue, UnknownOption
    <2>3. ~MissesFile(args)
      BY <1>8, MissingPlace DEF NoValue, UnknownOption
    <2> QED BY <1>7, <2>1, <2>2, <2>3
  <1>12. CASE FileNotOpen
    <2>1. At("parse") /\ argindex <= Len(args) /\ Leave("terminate")
      BY <1>12 DEF FileNotOpen, AtOption
    <2>2. ~WellFormed(args)
      BY <1>12, <2>1, BadPlace DEF FileNotOpen
    <2>3. m + 1 \in 1..(Len(args) \div 2) /\ 2 * (m + 1) - 1 = argindex /\ 2 * (m + 1) = argindex + 1
      BY <1>0, <1>2, <1>12 DEF FileNotOpen, HasValue
    <2>4. Option(args[argindex]) = "-P" /\ args[argindex + 1] \notin DOMAIN Files
      BY <1>12 DEF FileNotOpen, Value
    <2>5. \A j \in 1..((m + 1) - 1) : j \in 1..(Len(args) \div 2) /\ GoodPair(j)
      BY <1>2, <2>3
    <2>6. MissesFile(args)
      BY <2>3, <2>4, <2>5 DEF MissesFile, Pairs, Good, GoodPair
    <2> QED BY <1>7, <2>1, <2>2, <2>6
  <1>9. CASE EndParse
    <2>1. CASE argindex = Len(args) + 1 /\ argindex # 1
      BY <1>9, <2>1 DEF EndParse, Parsed, Refused, GoodPair, At
    <2>2. CASE argindex = 1 \/ argindex # Len(args) + 1
      <3>1. At("parse") /\ ~AtOption /\ Leave("exit")
        BY <1>9, <2>2 DEF EndParse
      <3>0. ~MissesFile(args)
        <4>1. SUFFICES ASSUME MissesFile(args) PROVE FALSE
          OBVIOUS
        <4>2. argindex <= Len(args) /\ Option(args[argindex]) \in Options
          BY <4>1, MissingPlace
        <4>3. args[argindex] \in Seq(STRING)
          BY <1>0, <1>2, <4>2 DEF Parsed
        <4> QED BY <3>1, <4>2, <4>3, OptionsAreDashed DEF AtOption
      <3>2. CASE argindex <= Len(args)
        <4>1. args[argindex] \in Seq(STRING)
          BY <1>0, <1>2, <3>2 DEF Parsed
        <4>2. Option(args[argindex]) \notin Options
          BY <3>1, <3>2, <4>1, OptionsAreDashed DEF AtOption
        <4>3. ~WellFormed(args)
          BY <3>2, <4>2, BadPlace
        <4> QED BY <1>7, <3>0, <3>1, <4>3
      <3>3. CASE argindex > Len(args)
        <4>1. Len(args) = 0
          BY <1>0, <1>2, <2>2, <3>3
        <4>2. args = << >>
          BY <4>1, EmptySeq DEF Parsed
        <4>3. ~WellFormed(args)
          BY <4>2 DEF WellFormed
        <4> QED BY <1>7, <3>0, <3>1, <4>3
      <3> QED BY <1>0, <3>2, <3>3
    <2> QED BY <2>1, <2>2
  <1>10. CASE \/ CreateDB \/ UnknownDB \/ Convert \/ ConvertThrows
              \/ LoadPhase \/ LoadFails \/ RunPhase \/ RunFails
    <2>1. pc \notin {"parse", "file"} /\ pc' \notin {"parse", "file"}
          /\ UNCHANGED <<args, argindex>>
      BY <1>10 DEF CreateDB, UnknownDB, Convert, ConvertThrows, LoadPhase, LoadFails, RunPhase,
                   RunFails, Leave, At
    <2> QED BY <2>1 DEF Parsed, Refused, GoodPair
  <1>11. CASE UNCHANGED vars
    <2>1. UNCHANGED WellFormed(args) /\ UNCHANGED MissesFile(args)
      BY <1>11 DEF vars, WellFormed, MissesFile, Good, Pairs
    <2>2. Refused'
      BY <1>11, <2>1 DEF vars, Refused
    <2> QED BY <1>11, <2>2 DEF vars, Parsed, GoodPair, HasValue, Value
  <1> QED BY <1>3, <1>4, <1>5, <1>6, <1>8, <1>12, <1>9, <1>10, <1>11 DEF Next

(***************************************************************************)
(* Only well-formed command lines get as far as opening a DB, and only     *)
(* others are refused by the parser.                                       *)
(***************************************************************************)
LEMMA ParsedInvariant == Spec => [](Parsed /\ Refused)
  <1>1. Init => Parsed /\ Refused
    <2> SUFFICES ASSUME Init PROVE Parsed /\ Refused
      OBVIOUS
    <2>1. args \in Seq(Seq(STRING)) /\ argindex = 1 /\ pc = "parse" /\ how = "running"
      BY StartupAssumption DEF Init
    <2>2. argindex = 2 * 0 + 1 /\ argindex <= Len(args) + 1 /\ \A i \in 1..0 : GoodPair(i)
      BY <2>1
    <2> QED BY <2>1, <2>2 DEF Parsed, Refused
  <1> QED BY <1>1, ParsedStep, PTL DEF Spec

(***************************************************************************)
(* ParseCommandLine lets exactly the well-formed command lines through,    *)
(* and aborts exactly when a file that cannot be opened is wrong first.    *)
(***************************************************************************)
THEOREM OnlyWellFormedOpens == Spec => []OpensOnlyWellFormed
  <1>1. Parsed /\ Refused => OpensOnlyWellFormed
    <2> SUFFICES ASSUME Parsed, Refused PROVE OpensOnlyWellFormed
      OBVIOUS
    <2>1. ASSUME pc \notin {"parse", "file"} PROVE WellFormed(args)
      <3>1. PICK m \in Nat : argindex = 2 * m + 1 /\ \A i \in 1..m : GoodPair(i)
        BY DEF Parsed
      <3>2. Len(args) \in Nat /\ Len(args) = 2 * m /\ m # 0 /\ args \in Seq(Seq(STRING))
        BY <2>1, <3>1 DEF Parsed
      <3>3. Len(args) \div 2 = m /\ Len(args) % 2 = 0
        BY <3>2
      <3>4. args # << >>
        BY <3>2
      <3> QED BY <3>1, <3>2, <3>3, <3>4, WellFormedPairs
    <2>2. ASSUME how # "running", pc \in {"parse", "file"}
          PROVE  ~WellFormed(args) /\ how = (IF MissesFile(args) THEN "terminate" ELSE "exit")
      BY <2>2 DEF Parsed, Refused
    <2> QED BY <2>1, <2>2 DEF OpensOnlyWellFormed
  <1> QED BY <1>1, ParsedInvariant, PTL

-----------------------------------------------------------------------------
(* The last assignment wins *)

(***************************************************************************)
(* Trim finds what its line's writer means.                                *)
(***************************************************************************)
LEMMA TrimStrips ==
  ASSUME NEW text \in Seq(STRING), NEW word, Stripped(text, word)
  PROVE  Trim(text) = word
  <1> DEFINE words == {n \in DOMAIN text : text[n] # Blank}
  <1>1. PICK i \in 0..Len(text), j \in 0..Len(text) :
          /\ word = SubSeq(text, i + 1, j)
          /\ \A n \in 1..Len(text) : n <= i \/ n > j => text[n] = Blank
          /\ i < j => text[i + 1] # Blank /\ text[j] # Blank
    BY DEF Stripped
  <1>2. Len(text) \in Nat /\ DOMAIN text = 1..Len(text)
    OBVIOUS
  <1>3. \A n \in words : n \in Int /\ i < n /\ n <= j
    BY <1>1, <1>2
  <1>4. Trim(text) = IF words = {} THEN << >> ELSE SubSeq(text, Min(words), Max(words))
    BY DEF Trim
  <1>5. CASE i < j
    <2>1. i + 1 \in words /\ j \in words
      BY <1>1, <1>2, <1>5
    <2> HIDE DEF words
    <2>2. Min(words) = i + 1
      <3>1. \A n \in words : i + 1 <= n
        BY <1>3
      <3>2. Min(words) \in words /\ \A n \in words : Min(words) <= n
        BY <2>1, <3>1, Zenon DEF Min
      <3>3. Min(words) \in Int /\ i + 1 <= Min(words) /\ Min(words) <= i + 1
        BY <1>3, <2>1, <3>1, <3>2
      <3> QED BY <3>3
    <2>3. Max(words) = j
      <3>1. \A n \in words : j >= n
        BY <1>3
      <3>2. Max(words) \in words /\ \A n \in words : Max(words) >= n
        BY <2>1, <3>1, Zenon DEF Max
      <3>3. Max(words) \in Int /\ j >= Max(words) /\ Max(words) >= j
        BY <1>3, <2>1, <3>1, <3>2
      <3> QED BY <3>3
    <2> QED BY <1>1, <1>4, <2>1, <2>2, <2>3
  <1>6. CASE ~(i < j)
    <2>1. words = {}
      BY <1>3, <1>6
    <2>2. SubSeq(text, i + 1, j) = << >>
      BY <1>1, <1>6, SubSeqProperties
    <2> QED BY <1>1, <1>4, <2>1, <2>2
  <1> QED BY <1>5, <1>6

(***************************************************************************)
(* One more assignment, after all the others.                              *)
(***************************************************************************)
LEMMA OneMore ==
  ASSUME NEW p, NEW all, Results(p, all), NEW x, \A y \in all : After(x, y)
  PROVE  Results(SetProperty(p, x.name, x.means), all \cup {x})
  <1> DEFINE q == SetProperty(p, x.name, x.means)
  <1>1. /\ DOMAIN q = DOMAIN p \cup {x.name} /\ q[x.name] = x.means
        /\ \A k \in DOMAIN p : k # x.name => q[k] = p[k]
    BY DEF SetProperty
  <1> HIDE DEF q
  <1>2. DOMAIN q = DOMAIN Preset \cup {y.name : y \in all \cup {x}}
    BY <1>1 DEF Results
  <1>3. ASSUME NEW k \in DOMAIN q
        PROVE  \/ (\A y \in all \cup {x} : y.name # k) /\ q[k] = Preset[k]
               \/ \E y \in all \cup {x} :
                    /\ y.name = k /\ y.means = q[k]
                    /\ \A z \in all \cup {x} : z.name = k /\ z # y => After(y, z)
    <2>1. CASE k = x.name
      BY <1>1, <2>1
    <2>2. CASE k # x.name
      <3>1. k \in DOMAIN p /\ q[k] = p[k]
        BY <1>1, <2>2
      <3> QED BY <2>2, <3>1 DEF Results
    <2> QED BY <2>1, <2>2
  <1> QED BY <1>2, <1>3 DEF Results, q

\* The assignments up to line n of pair i.
Before(a, i, n) ==
  {x \in Assigned(a) : x.pair < i \/ (x.pair = i /\ n > 0 /\ x.line <= n)}

(***************************************************************************)
(* Where assignments are.                                                  *)
(***************************************************************************)
LEMMA OfPairPlaces ==
  ASSUME NEW i \in Nat, NEW o, o[1] = "-P" => o[2] \in DOMAIN Files, NEW x \in OfPair(i, o)
  PROVE  /\ x.pair = i /\ x.line \in Nat /\ x.line >= 1
         /\ o[1] = "-P" => x.line <= Len(Files[o[2]])
         /\ o[1] # "-P" => x.line = 1
  <1>1. CASE o[1] = "-P"
    <2>1. Len(Files[o[2]]) \in Nat /\ DOMAIN Files[o[2]] = 1..Len(Files[o[2]])
      BY <1>1, StartupAssumption
    <2> QED BY <1>1, <2>1 DEF OfPair
  <1>2. CASE o[1] # "-P"
    BY <1>2 DEF OfPair
  <1> QED BY <1>1, <1>2

\* The pair that is parsed, and those before it.
Pair(i) == <<Option(args[2 * i - 1]), args[2 * i]>>

LEMMA PairsOf ==
  ASSUME args \in Seq(Seq(STRING))
  PROVE  /\ DOMAIN Pairs(args) = 1..(Len(args) \div 2)
         /\ \A i \in 1..(Len(args) \div 2) : Pairs(args)[i] = Pair(i)
  BY DEF Pairs, Pair

\* All that is known of the assignments of pair m + 1, when the ones before it
\* were parsed.
LEMMA AssignedBefore ==
  ASSUME args \in Seq(Seq(STRING)), NEW m \in Nat, \A i \in 1..(m + 1) : GoodPair(i),
         2 * m + 2 <= Len(args)
  PROVE  /\ \A n \in Nat : Before(args, m + 1, n) =
              Before(args, m + 1, 0) \cup {x \in OfPair(m + 1, Pair(m + 1)) : x.line <= n}
         /\ Before(args, m + 2, 0) = Before(args, m + 1, 0) \cup OfPair(m + 1, Pair(m + 1))
  <1> DEFINE half == Len(args) \div 2
  <1>0. half \in Nat /\ m + 1 \in 1..half
    OBVIOUS
  <1>1. \A x : x \in Assigned(args) <=> \E i \in 1..half : x \in OfPair(i, Pair(i))
    BY PairsOf DEF Assigned
  <1> HIDE DEF half
  <1>2. ASSUME NEW i \in 1..half, NEW x \in OfPair(i, Pair(i)) PROVE x.pair = i
    BY <1>2 DEF OfPair
  <1>3. ASSUME NEW x \in OfPair(m + 1, Pair(m + 1))
        PROVE  x \in Assigned(args) /\ x.pair = m + 1 /\ x.line \in Nat /\ x.line >= 1
    <2>1. GoodPair(m + 1)
      OBVIOUS
    <2>2. Pair(m + 1)[1] = "-P" => Pair(m + 1)[2] \in DOMAIN Files
      BY <2>1 DEF GoodPair, Pair
    <2>3. x.pair = m + 1 /\ x.line \in Nat /\ x.line >= 1
      BY <2>2, OfPairPlaces
    <2> QED BY <1>0, <1>1, <2>3
  <1>4. ASSUME NEW x \in Assigned(args)
        PROVE  /\ x.pair \in Nat
               /\ x.pair = m + 1 => x \in OfPair(m + 1, Pair(m + 1))
    BY <1>0, <1>1, <1>2
  <1>5. ASSUME NEW n \in Nat
        PROVE  Before(args, m + 1, n) =
                 Before(args, m + 1, 0) \cup {x \in OfPair(m + 1, Pair(m + 1)) : x.line <= n}
    BY <1>3, <1>4 DEF Before
  <1>6. Before(args, m + 2, 0) = Before(args, m + 1, 0) \cup OfPair(m + 1, Pair(m + 1))
    BY <1>3, <1>4 DEF Before
  <1> QED BY <1>5, <1>6

(***************************************************************************)
(* The properties are what the arguments parsed so far, and the lines read *)
(* of the file that is open, make of Preset.                               *)
(***************************************************************************)
ReadTo(m) ==
  \E n \in 0..Len(Files[Value]) :
    /\ input = SubSeq(Files[Value], n + 1, Len(Files[Value]))
    /\ Results(props, Before(args, m + 1, n))

Reading ==
  /\ pc = "parse" => \A m \in Nat : argindex = 2 * m + 1 => Results(props, Before(args, m + 1, 0))
  /\ pc = "file" => \A m \in Nat : argindex = 2 * m + 1 => ReadTo(m)
  /\ pc \notin {"parse", "file"} => Results(props, Assigned(args))

\* The pair the parser stands at.
LEMMA PairHere ==
  ASSUME Parsed, NEW m \in Nat, argindex = 2 * m + 1, HasValue,
         Option(args[argindex]) \in Options,
         Option(args[argindex]) = "-P" => Value \in DOMAIN Files
  PROVE  /\ \A i \in 1..(m + 1) : GoodPair(i)
         /\ 2 * m + 2 <= Len(args) /\ args \in Seq(Seq(STRING))
         /\ Pair(m + 1) = <<Option(args[argindex]), Value>>
  <1>1. PICK k \in Nat : argindex = 2 * k + 1 /\ \A i \in 1..k : GoodPair(i)
    BY DEF Parsed
  <1>2. k = m
    BY <1>1
  <1>3. 2 * (m + 1) - 1 = argindex /\ 2 * (m + 1) = argindex + 1
    OBVIOUS
  <1>4. GoodPair(m + 1)
    BY <1>3 DEF GoodPair, Value
  <1>5. \A i \in 1..(m + 1) : GoodPair(i)
    BY <1>1, <1>2, <1>4
  <1>6. args \in Seq(Seq(STRING)) /\ 2 * m + 2 <= Len(args)
    BY <1>3 DEF Parsed, HasValue
  <1> QED BY <1>3, <1>5, <1>6 DEF Pair, Value

\* An option that sets a property.
LEMMA SetOptionReads ==
  ASSUME Parsed, Reading, SetOption, NEW m \in Nat, argindex = 2 * m + 1
  PROVE  Results(props', Before(args, m + 2, 0))
  <1> PICK o : o = Option(args[argindex])
    OBVIOUS
  <1>1. /\ o \in Options /\ o # "-P" /\ HasValue /\ pc = "parse"
        /\ props' = SetProperty(props, Text(Sets(o)), Value)
    BY DEF SetOption, AtOption, At, Options, SetOptions, Setters
  <1>2. /\ \A i \in 1..(m + 1) : GoodPair(i)
        /\ 2 * m + 2 <= Len(args) /\ args \in Seq(Seq(STRING))
        /\ Pair(m + 1) = <<o, Value>>
    BY <1>1, PairHere
  <1> DEFINE x == [pair |-> m + 1, line |-> 1, name |-> Text(Sets(o)), means |-> Value]
  <1>3. OfPair(m + 1, Pair(m + 1)) = {x}
    BY <1>1, <1>2 DEF OfPair
  <1>4. x.pair = m + 1 /\ x.name = Text(Sets(o)) /\ x.means = Value
    OBVIOUS
  <1> HIDE DEF x
  <1>5. Before(args, m + 2, 0) = Before(args, m + 1, 0) \cup {x}
    BY <1>2, <1>3, AssignedBefore
  <1>6. \A y \in Before(args, m + 1, 0) : After(x, y)
    BY <1>4 DEF Before, After
  <1>7. Results(props, Before(args, m + 1, 0))
    BY <1>1 DEF Reading
  <1>8. Results(SetProperty(props, x.name, x.means), Before(args, m + 1, 0) \cup {x})
    BY <1>6, <1>7, OneMore
  <1> QED BY <1>1, <1>4, <1>5, <1>8

\* What is left of a file from line n + 1 on.
LEMMA Rest ==
  ASSUME NEW S, NEW file \in Seq(S), NEW n \in 0..Len(file)
  PROVE  /\ n = Len(file) <=> SubSeq(file, n + 1, Len(file)) = << >>
         /\ n < Len(file) =>
              /\ Head(SubSeq(file, n + 1, Len(file))) = file[n + 1]
              /\ Tail(SubSeq(file, n + 1, Len(file))) = SubSeq(file, (n + 1) + 1, Len(file))
  <1> DEFINE r == SubSeq(file, n + 1, Len(file))
             q == SubSeq(file, (n + 1) + 1, Len(file))
  <1>1. Len(file) \in Nat /\ n \in Nat /\ \A i \in 1..Len(file) : file[i] \in S
    OBVIOUS
  <1>2. /\ r \in Seq(S) /\ Len(r) = Len(file) - n
        /\ \A i \in 1..(Len(file) - n) : r[i] = file[n + i]
    <2>1. /\ r \in Seq(S) /\ Len(r) = IF n + 1 <= Len(file) THEN Len(file) - (n + 1) + 1 ELSE 0
          /\ \A i \in 1..(Len(file) - (n + 1) + 1) : r[i] = file[(n + 1) + i - 1]
      BY <1>1, SubSeqProperties
    <2> HIDE DEF r
    <2> QED BY <1>1, <2>1
  <1>3. ASSUME n < Len(file)
        PROVE  /\ q \in Seq(S) /\ Len(q) = Len(file) - n - 1
               /\ \A i \in 1..(Len(file) - n - 1) : q[i] = file[n + 1 + i]
    <2>1. /\ q \in Seq(S)
          /\ Len(q) = IF (n + 1) + 1 <= Len(file) THEN Len(file) - ((n + 1) + 1) + 1 ELSE 0
          /\ \A i \in 1..(Len(file) - ((n + 1) + 1) + 1) : q[i] = file[((n + 1) + 1) + i - 1]
      BY <1>1, SubSeqProperties
    <2> HIDE DEF q
    <2> QED BY <1>1, <1>3, <2>1
  <1> HIDE DEF r, q
  <1>4. n = Len(file) <=> r = << >>
    BY <1>1, <1>2
  <1>5. ASSUME n < Len(file) PROVE Head(r) = file[n + 1] /\ Tail(r) = q
    <2>1. r # << >> /\ Head(r) = r[1] /\ r[1] = file[n + 1]
      BY <1>1, <1>2, <1>5
    <2>2. /\ Tail(r) \in Seq(S) /\ Len(Tail(r)) = Len(r) - 1
          /\ \A i \in 1..Len(Tail(r)) : Tail(r)[i] = r[i + 1]
      BY <1>2, <2>1, HeadTailProperties
    <2>3. Len(Tail(r)) = Len(q) /\ \A i \in 1..Len(q) : Tail(r)[i] = q[i]
      <3>1. Len(q) = Len(file) - n - 1 /\ Len(Tail(r)) = Len(file) - n - 1
        BY <1>1, <1>2, <1>3, <1>5, <2>2
      <3>2. ASSUME NEW i \in 1..Len(q) PROVE Tail(r)[i] = q[i]
        <4>1. Tail(r)[i] = r[i + 1] /\ q[i] = file[n + 1 + i]
          BY <1>3, <1>5, <2>2, <3>1
        <4>2. i + 1 \in 1..(Len(file) - n) /\ n + (i + 1) = n + 1 + i
          BY <1>1, <3>1
        <4>3. r[i + 1] = file[n + (i + 1)]
          BY <1>2, <4>2
        <4> QED BY <4>1, <4>2, <4>3
      <3> QED BY <3>1, <3>2
    <2>4. Tail(r) = q
      BY <1>3, <1>5, <2>2, <2>3, SeqEqual
    <2> QED BY <2>1, <2>4
  <1> QED BY <1>4, <1>5 DEF r, q

\* The file that is open, and its assignments.
LEMMA OpenPair ==
  ASSUME Parsed, pc = "file", NEW m \in Nat, argindex = 2 * m + 1
  PROVE  /\ Value \in DOMAIN Files /\ Len(Files[Value]) \in Nat
         /\ Files[Value] \in Seq(Line)
         /\ \A x : x \in OfPair(m + 1, Pair(m + 1)) <=>
              \E n \in 1..Len(Files[Value]) :
                /\ Assigns(Files[Value][n])
                /\ x = [pair |-> m + 1, line |-> n, name |-> Files[Value][n].name,
                        means |-> Files[Value][n].means]
         /\ \A n \in Nat : Before(args, m + 1, n) =
              Before(args, m + 1, 0) \cup {x \in OfPair(m + 1, Pair(m + 1)) : x.line <= n}
         /\ Before(args, m + 2, 0) = Before(args, m + 1, 0) \cup OfPair(m + 1, Pair(m + 1))
  <1>1. HasValue /\ Option(args[argindex]) = "-P" /\ Value \in DOMAIN Files /\ "-P" \in Options
    BY DEF Parsed, Options
  <1>2. /\ \A i \in 1..(m + 1) : GoodPair(i)
        /\ 2 * m + 2 <= Len(args) /\ args \in Seq(Seq(STRING))
        /\ Pair(m + 1) = <<"-P", Value>>
    BY <1>1, PairHere
  <1>3. Files[Value] \in Seq(Line)
    BY <1>1, StartupAssumption
  <1>4. Len(Files[Value]) \in Nat /\ DOMAIN Files[Value] = 1..Len(Files[Value])
    BY <1>3
  <1> PICK o : o = Pair(m + 1)
    OBVIOUS
  <1>5. o[1] = "-P" /\ o[2] = Value
    BY <1>2
  <1>6. OfPair(m + 1, o) =
          {[pair |-> m + 1, line |-> n, name |-> Files[o[2]][n].name,
            means |-> Files[o[2]][n].means] :
             n \in {j \in DOMAIN Files[o[2]] : Assigns(Files[o[2]][j])}}
    BY <1>5, Zenon DEF OfPair
  <1>7. \A x : x \in OfPair(m + 1, o) <=>
          \E n \in 1..Len(Files[Value]) :
            /\ Assigns(Files[Value][n])
            /\ x = [pair |-> m + 1, line |-> n, name |-> Files[Value][n].name,
                    means |-> Files[Value][n].means]
    BY <1>4, <1>5, <1>6
  <1>8. /\ \A n \in Nat : Before(args, m + 1, n) =
             Before(args, m + 1, 0) \cup {x \in OfPair(m + 1, Pair(m + 1)) : x.line <= n}
        /\ Before(args, m + 2, 0) = Before(args, m + 1, 0) \cup OfPair(m + 1, Pair(m + 1))
    BY <1>2, AssignedBefore
  <1> QED BY <1>1, <1>3, <1>4, <1>7, <1>8

\* A line of a file.
LEMMA LoadLineReads ==
  ASSUME Parsed, Reading, LoadLine, NEW m \in Nat, argindex = 2 * m + 1
  PROVE  ReadTo(m)'
  <1> PICK file : file = Files[Value]
    OBVIOUS
  <1>1. pc = "file" /\ input # << >> /\ UNCHANGED <<args, argindex, pc>> /\ input' = Tail(input)
    BY DEF LoadLine, At
  <1>2. PICK n \in 0..Len(file) :
          /\ input = SubSeq(file, n + 1, Len(file))
          /\ Results(props, Before(args, m + 1, n))
    BY <1>1 DEF Reading, ReadTo
  <1>3. /\ Value \in DOMAIN Files /\ Len(file) \in Nat
        /\ file \in Seq(Line)
    BY <1>1, OpenPair
  <1>4. n < Len(file)
    BY <1>1, <1>2, <1>3, Rest
  <1>5. Head(input) = file[n + 1] /\ Tail(input) = SubSeq(file, (n + 1) + 1, Len(file))
    BY <1>2, <1>3, <1>4, Rest
  <1>6. n + 1 \in 1..Len(file) /\ n \in Nat
    BY <1>3, <1>4
  <1>7. \A i \in Nat : Before(args, m + 1, i) =
          Before(args, m + 1, 0) \cup {x \in OfPair(m + 1, Pair(m + 1)) : x.line <= i}
    BY <1>1, OpenPair
  <1>8. \A x : x \in OfPair(m + 1, Pair(m + 1)) <=>
          \E i \in 1..Len(file) :
            /\ Assigns(file[i])
            /\ x = [pair |-> m + 1, line |-> i, name |-> file[i].name, means |-> file[i].means]
    BY <1>1, OpenPair
  <1>9. ASSUME Results(props', Before(args, m + 1, n + 1)) PROVE ReadTo(m)'
    <2>1. Files[Value]' = file
      BY <1>1 DEF Value
    <2>2. input' = SubSeq(file, (n + 1) + 1, Len(file)) /\ n + 1 \in 0..Len(file)
      BY <1>1, <1>5, <1>6
    <2>3. Results(props', Before(args', m + 1, n + 1))
      BY <1>1, <1>9
    <2> QED BY <2>1, <2>2, <2>3 DEF ReadTo
  <1> DEFINE x == [pair |-> m + 1, line |-> n + 1, name |-> file[n + 1].name,
                   means |-> file[n + 1].means]
  <1>10. CASE Assigns(file[n + 1])
    <2>1. Before(args, m + 1, n + 1) = Before(args, m + 1, n) \cup {x}
      <3>1. {y \in OfPair(m + 1, Pair(m + 1)) : y.line <= n + 1}
              = {y \in OfPair(m + 1, Pair(m + 1)) : y.line <= n} \cup {x}
        BY <1>6, <1>8, <1>10
      <3> QED BY <1>6, <1>7, <3>1
    <2>2. x.pair = m + 1 /\ x.line = n + 1 /\ x.name = file[n + 1].name
          /\ x.means = file[n + 1].means
      OBVIOUS
    <2> HIDE DEF x
    <2>3. ASSUME NEW y \in Before(args, m + 1, n) PROVE After(x, y)
      <3>1. CASE y \in Before(args, m + 1, 0)
        BY <2>2, <3>1 DEF Before, After
      <3>2. CASE y \in OfPair(m + 1, Pair(m + 1)) /\ y.line <= n
        BY <1>6, <1>8, <2>2, <3>2 DEF After
      <3> QED BY <1>6, <1>7, <3>1, <3>2
    <2>4. Results(SetProperty(props, x.name, x.means), Before(args, m + 1, n) \cup {x})
      BY <1>2, <2>3, OneMore
    <2>5. /\ Stripped(file[n + 1].text, file[n + 1].name)
          /\ Stripped(file[n + 1].value, file[n + 1].means)
      BY <1>3, <1>6, <1>10, StartupAssumption
    <2>6. file[n + 1].text \in Seq(STRING) /\ file[n + 1].value \in Seq(STRING)
      <3>1. file[n + 1] \in Line
        BY <1>3, <1>6
      <3> QED BY <3>1 DEF Line
    <2>7. Trim(file[n + 1].text) = x.name /\ Trim(file[n + 1].value) = x.means
      BY <2>2, <2>5, <2>6, TrimStrips
    <2>8. props' = SetProperty(props, x.name, x.means)
      BY <1>5, <1>10, <2>7 DEF LoadLine
    <2>9. Results(props', Before(args, m + 1, n + 1))
      BY <2>1, <2>4, <2>8
    <2> QED BY <1>9, <2>9
  <1>11. CASE ~Assigns(file[n + 1])
    <2>1. Before(args, m + 1, n + 1) = Before(args, m + 1, n)
      <3>1. {y \in OfPair(m + 1, Pair(m + 1)) : y.line <= n + 1}
              = {y \in OfPair(m + 1, Pair(m + 1)) : y.line <= n}
        BY <1>6, <1>8, <1>11
      <3> QED BY <1>6, <1>7, <3>1
    <2>2. props' = props
      BY <1>5, <1>11 DEF LoadLine
    <2>3. Results(props', Before(args, m + 1, n + 1))
      BY <1>2, <2>1, <2>2
    <2> QED BY <1>9, <2>3
  <1> QED BY <1>10, <1>11

\* The end of a file.
LEMMA EndFileReads ==
  ASSUME Parsed, Reading, EndFile, NEW m \in Nat, argindex = 2 * m + 1
  PROVE  Results(props, Before(args, m + 2, 0))
  <1> PICK file : file = Files[Value]
    OBVIOUS
  <1>1. pc = "file" /\ input = << >>
    BY DEF EndFile, At
  <1>2. PICK n \in 0..Len(file) :
          /\ input = SubSeq(file, n + 1, Len(file))
          /\ Results(props, Before(args, m + 1, n))
    BY <1>1 DEF Reading, ReadTo
  <1>3. /\ Len(file) \in Nat
        /\ file \in Seq(Line)
    BY <1>1, OpenPair
  <1>4. n = Len(file)
    BY <1>1, <1>2, <1>3, Rest
  <1>5. /\ Before(args, m + 1, n) =
             Before(args, m + 1, 0) \cup {x \in OfPair(m + 1, Pair(m + 1)) : x.line <= n}
        /\ Before(args, m + 2, 0) = Before(args, m + 1, 0) \cup OfPair(m + 1, Pair(m + 1))
    <2>1. n \in Nat
      BY <1>3, <1>4
    <2> QED BY <1>1, <2>1, OpenPair
  <1>6. \A x \in OfPair(m + 1, Pair(m + 1)) : x.line <= n
    <2>1. \A x : x \in OfPair(m + 1, Pair(m + 1)) <=>
            \E i \in 1..Len(file) :
              /\ Assigns(file[i])
              /\ x = [pair |-> m + 1, line |-> i, name |-> file[i].name, means |-> file[i].means]
      BY <1>1, OpenPair
    <2> QED BY <1>4, <2>1
  <1>7. Before(args, m + 2, 0) = Before(args, m + 1, n)
    BY <1>5, <1>6
  <1> QED BY <1>2, <1>7

LEMMA ReadingStep ==
  ASSUME Parsed, Reading, [Next]_vars
  PROVE  Reading'
  <1>0. argindex \in Nat /\ Len(args) \in Nat /\ args \in Seq(Seq(STRING))
    BY DEF Parsed
  <1>1. PICK m \in Nat : argindex = 2 * m + 1
    BY DEF Parsed
  <1>2. ASSUME args' = args, argindex' = argindex + 2, pc' = "parse",
               Results(props', Before(args, m + 2, 0))
        PROVE  Reading'
    <2>1. \A k \in Nat : argindex' = 2 * k + 1 => k + 1 = m + 2
      BY <1>1, <1>2
    <2> QED BY <1>2, <2>1 DEF Reading
  <1>3. CASE SetOption
    <2>1. args' = args /\ argindex' = argindex + 2 /\ pc' = "parse"
      BY <1>3 DEF SetOption, AtOption, At
    <2> QED BY <1>1, <1>2, <1>3, <2>1, SetOptionReads
  <1>4. CASE EndFile
    <2>1. args' = args /\ argindex' = argindex + 2 /\ pc' = "parse" /\ props' = props
      BY <1>4 DEF EndFile
    <2> QED BY <1>1, <1>2, <1>4, <2>1, EndFileReads
  <1>5. CASE LoadLine
    <2>1. UNCHANGED <<args, argindex, pc>> /\ pc = "file"
      BY <1>5 DEF LoadLine, At
    <2>2. ReadTo(m)'
      BY <1>1, <1>5, LoadLineReads
    <2>3. \A k \in Nat : argindex' = 2 * k + 1 => k = m
      BY <1>1, <2>1
    <2> QED BY <2>1, <2>2, <2>3 DEF Reading
  <1>6. CASE OpenFile
    <2>1. /\ UNCHANGED <<args, argindex, props>> /\ pc = "parse" /\ pc' = "file"
          /\ Value \in DOMAIN Files /\ input' = Files[Value]
      BY <1>6 DEF OpenFile, AtOption, At
    <2>2. Files[Value] \in Seq(Line)
      BY <2>1, StartupAssumption
    <2>3. Files[Value] = SubSeq(Files[Value], 0 + 1, Len(Files[Value])) /\ 0 \in 0..Len(Files[Value])
      BY <2>2
    <2>4. Results(props, Before(args, m + 1, 0))
      BY <1>1, <2>1 DEF Reading
    <2>5. ReadTo(m)'
      BY <2>1, <2>3, <2>4 DEF ReadTo, Value
    <2>6. \A k \in Nat : argindex' = 2 * k + 1 => k = m
      BY <1>1, <2>1
    <2> QED BY <2>1, <2>5, <2>6 DEF Reading
  <1>7. ASSUME UNCHANGED <<args, argindex, input, props, pc>> PROVE Reading'
    BY <1>7 DEF Reading, ReadTo, Value
  <1>8. CASE EndParse
    <2>1. CASE argindex = 1 \/ argindex # Len(args) + 1
      BY <1>7, <1>8, <2>1 DEF EndParse, Leave
    <2>2. CASE ~(argindex = 1 \/ argindex # Len(args) + 1)
      <3>1. pc = "parse" /\ pc' = "create" /\ UNCHANGED <<args, props>>
        BY <1>8, <2>2 DEF EndParse, At
      <3>2. Len(args) \div 2 = m
        <4>1. Len(args) = 2 * m
          BY <1>0, <1>1, <2>2
        <4> QED BY <4>1
      <3>3. \A x \in Assigned(args) : x.pair \in 1..m
        BY <1>0, <3>2, PairsOf DEF Assigned, OfPair
      <3>4. Before(args, m + 1, 0) = Assigned(args)
        BY <3>3 DEF Before
      <3>5. Results(props, Before(args, m + 1, 0))
        BY <1>1, <3>1 DEF Reading
      <3> QED BY <3>1, <3>4, <3>5 DEF Reading
    <2> QED BY <2>1, <2>2
  <1>9. CASE NoValue \/ UnknownOption \/ FileNotOpen
    BY <1>7, <1>9 DEF NoValue, UnknownOption, FileNotOpen, Leave
  <1>10. CASE \/ CreateDB \/ UnknownDB \/ Convert \/ ConvertThrows
              \/ LoadPhase \/ LoadFails \/ RunPhase \/ RunFails
    <2>1. pc \notin {"parse", "file"} /\ pc' \notin {"parse", "file"} /\ UNCHANGED <<args, props>>
      BY <1>10 DEF CreateDB, UnknownDB, Convert, ConvertThrows, LoadPhase, LoadFails, RunPhase,
                   RunFails, Leave, At
    <2> QED BY <2>1 DEF Reading
  <1>11. CASE UNCHANGED vars
    BY <1>7, <1>11 DEF vars
  <1> QED BY <1>3, <1>4, <1>5, <1>6, <1>8, <1>9, <1>10, <1>11 DEF Next

(***************************************************************************)
(* Whatever options and files the command line mixes, each property ends   *)
(* up with the value assigned to it last, trimmed, or the one it had       *)
(* (ParseCommandLine, Properties::Load).                                   *)
(***************************************************************************)
THEOREM LastAssignmentCounts == Spec => []LastAssignmentWins
  <1>1. Init => Reading
    <2> SUFFICES ASSUME Init PROVE Reading
      OBVIOUS
    <2>1. args \in Seq(Seq(STRING)) /\ argindex = 1 /\ pc = "parse" /\ props = Preset
      BY StartupAssumption DEF Init
    <2>2. Before(args, 1, 0) = {}
      <3>1. \A x \in Assigned(args) : x.pair >= 1 /\ x.pair \in Nat
        BY <2>1, PairsOf DEF Assigned, OfPair
      <3> QED BY <3>1 DEF Before
    <2>3. Results(Preset, {})
      BY DEF Results
    <2>4. \A m \in Nat : argindex = 2 * m + 1 => m + 1 = 1
      BY <2>1
    <2> QED BY <2>1, <2>2, <2>3, <2>4 DEF Reading
  <1>2. Reading => LastAssignmentWins
    BY DEF Reading, LastAssignmentWins
  <1> QED BY <1>1, <1>2, ReadingStep, ParsedInvariant, PTL DEF Spec

-----------------------------------------------------------------------------
(* The run after the load *)

\* Nothing of what the load has looked at changes before the run looks at it.
LoadChecked ==
  /\ loaded => pc \in {"run", "over"} /\ WorkloadOK(props) /\ LaunchOK
  /\ loaded /\ how = "terminate" => ~OperationCountOK

(***************************************************************************)
(* When the load has been gone through, only operationcount can stop the   *)
(* run.                                                                    *)
(***************************************************************************)
THEOREM OnlyCountStopsRun == Spec => []RunFollowsLoad
  <1>1. Init => LoadChecked
    BY DEF Init, LoadChecked
  <1>2. LoadChecked /\ [Next]_vars => LoadChecked'
    <2> SUFFICES ASSUME LoadChecked, [Next]_vars PROVE LoadChecked'
      OBVIOUS
    <2>1. CASE \/ SetOption \/ NoValue \/ UnknownOption \/ OpenFile \/ FileNotOpen
               \/ LoadLine \/ EndFile \/ EndParse
               \/ CreateDB \/ UnknownDB \/ Convert \/ ConvertThrows \/ LoadFails
      <3>1. ~loaded /\ loaded' = loaded
        BY <2>1 DEF SetOption, NoValue, UnknownOption, OpenFile, FileNotOpen, LoadLine, EndFile,
                    EndParse, CreateDB, UnknownDB, Convert, ConvertThrows, LoadFails, AtOption,
                    At, Leave, LoadChecked
      <3> QED BY <3>1 DEF LoadChecked
    <2>2. CASE LoadPhase
      <3>1. pc' = "run" /\ how' = "running" /\ props' = props
        BY <2>2 DEF LoadPhase, At
      <3>2. loaded' => WorkloadOK(props) /\ LaunchOK
        BY <2>2 DEF LoadPhase
      <3> QED BY <3>1, <3>2 DEF LoadChecked, LaunchOK
    <2>3. CASE RunPhase
      BY <2>3 DEF RunPhase, At, LoadChecked, LaunchOK
    <2>4. CASE RunFails
      <3>1. UNCHANGED <<pc, props, loaded>> /\ ~(WorkloadOK(props) /\ OperationCountOK /\ LaunchOK)
        BY <2>4 DEF RunFails, Leave
      <3> QED BY <3>1 DEF LoadChecked, LaunchOK, OperationCountOK
    <2>5. CASE UNCHANGED vars
      BY <2>5 DEF vars, LoadChecked, LaunchOK, OperationCountOK
    <2> QED BY <2>1, <2>2, <2>3, <2>4, <2>5 DEF Next
  <1>3. LoadChecked => RunFollowsLoad
    BY DEF LoadChecked, RunFollowsLoad
  <1> QED BY <1>1, <1>2, <1>3, PTL DEF Spec
=============================================================================
